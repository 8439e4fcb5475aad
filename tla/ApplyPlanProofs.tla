--------------------------- MODULE ApplyPlanProofs ---------------------------
(***************************************************************************)
(* Proofs about the plan of a path and the two ways it is run, for any     *)
(* paths, tunnels, routes, selectors, lists of intents and number of       *)
(* commands that fail.                                                     *)
(***************************************************************************)
EXTENDS ApplyPlan, ListProofs

-----------------------------------------------------------------------------
(* Where the routes are in a list of commands.                             *)

RoutesFirst(s) ==
  \A i, j \in DOMAIN s : i < j /\ s[j].op = "route" => s[i].op = "route"

RoutesLast(s) ==
  \A i, j \in DOMAIN s : i < j /\ s[i].op = "route" => s[j].op = "route"

NoRoute(s) == \A c \in Elements(s) : c.op # "route"

LEMMA RoutesThenOthers ==
  ASSUME NEW S, NEW s \in Seq(S), NEW u \in Seq(S), RoutesFirst(s), NoRoute(u)
  PROVE  RoutesFirst(s \o u)
<1>1. /\ DOMAIN (s \o u) = 1 .. Len(s) + Len(u)
      /\ DOMAIN s = 1 .. Len(s) /\ DOMAIN u = 1 .. Len(u) /\ Len(s) \in Nat /\ Len(u) \in Nat
      /\ \A i \in 1 .. Len(s) : (s \o u)[i] = s[i]
      /\ \A i \in 1 .. Len(s) + Len(u) : i > Len(s) => (s \o u)[i] = u[i - Len(s)]
  BY ConcatProperties
<1>2. SUFFICES ASSUME NEW i \in 1 .. Len(s) + Len(u), NEW j \in 1 .. Len(s) + Len(u),
                      i < j, (s \o u)[j].op = "route"
               PROVE  (s \o u)[i].op = "route"
  BY <1>1 DEF RoutesFirst
<1>3. CASE j > Len(s)
  <2>1. j - Len(s) \in DOMAIN u /\ (s \o u)[j] = u[j - Len(s)]
    BY <1>1, <1>3
  <2>2. (s \o u)[j] \in Elements(u)
    BY <2>1 DEF Elements
  <2> QED BY <1>2, <2>2 DEF NoRoute
<1>4. CASE j <= Len(s)
  <2>1. i \in DOMAIN s /\ j \in DOMAIN s /\ (s \o u)[i] = s[i] /\ (s \o u)[j] = s[j]
    BY <1>1, <1>2, <1>4
  <2> QED BY <1>2, <2>1 DEF RoutesFirst
<1> QED BY <1>1, <1>3, <1>4

LEMMA OthersThenRoutes ==
  ASSUME NEW S, NEW s \in Seq(S), NEW u \in Seq(S), NoRoute(s),
         \A c \in Elements(u) : c.op = "route"
  PROVE  RoutesLast(s \o u)
<1>1. /\ DOMAIN (s \o u) = 1 .. Len(s) + Len(u)
      /\ DOMAIN s = 1 .. Len(s) /\ DOMAIN u = 1 .. Len(u) /\ Len(s) \in Nat /\ Len(u) \in Nat
      /\ \A i \in 1 .. Len(s) : (s \o u)[i] = s[i]
      /\ \A i \in 1 .. Len(s) + Len(u) : i > Len(s) => (s \o u)[i] = u[i - Len(s)]
  BY ConcatProperties
<1>2. SUFFICES ASSUME NEW i \in 1 .. Len(s) + Len(u), NEW j \in 1 .. Len(s) + Len(u),
                      i < j, (s \o u)[i].op = "route"
               PROVE  (s \o u)[j].op = "route"
  BY <1>1 DEF RoutesLast
<1>3. CASE i <= Len(s)
  <2>1. (s \o u)[i] \in Elements(s)
    BY <1>1, <1>3 DEF Elements
  <2> QED BY <1>2, <2>1 DEF NoRoute
<1>4. CASE i > Len(s)
  <2>1. j - Len(s) \in DOMAIN u /\ (s \o u)[j] = u[j - Len(s)]
    BY <1>1, <1>2, <1>4
  <2>2. (s \o u)[j] \in Elements(u)
    BY <2>1 DEF Elements
  <2> QED BY <2>2
<1> QED BY <1>1, <1>3, <1>4

LEMMA SelectedRoutesFirst ==
  ASSUME NEW T, NEW s \in Seq(T), NEW S \in SUBSET (DOMAIN s), RoutesFirst(s)
  PROVE  RoutesFirst(AtPlaces(s, S))
<1>1. PICK place \in [1 .. Cardinality(S) -> S] :
        /\ \A n \in 1 .. Cardinality(S) : AtPlaces(s, S)[n] = s[place[n]]
        /\ \A n, k \in 1 .. Cardinality(S) : n < k => place[n] < place[k]
  BY AtPlacesPlaced
<1>2. DOMAIN AtPlaces(s, S) = 1 .. Cardinality(S)
  BY AtPlacesPlaced
<1> QED BY <1>1, <1>2 DEF RoutesFirst

LEMMA ReversedRoutesFirst ==
  ASSUME NEW T, NEW s \in Seq(T), RoutesLast(s)
  PROVE  RoutesFirst(Reversed(s))
<1>1. Len(s) \in Nat /\ DOMAIN s = 1 .. Len(s) /\ DOMAIN Reversed(s) = 1 .. Len(s)
  BY DEF Reversed
<1>2. SUFFICES ASSUME NEW i \in 1 .. Len(s), NEW j \in 1 .. Len(s), i < j,
                      Reversed(s)[j].op = "route"
               PROVE  Reversed(s)[i].op = "route"
  BY <1>1 DEF RoutesFirst
<1>3. /\ 1 + Len(s) - i \in DOMAIN s /\ 1 + Len(s) - j \in DOMAIN s
      /\ 1 + Len(s) - j < 1 + Len(s) - i
  BY <1>1, <1>2
<1>4. Reversed(s)[i] = s[1 + Len(s) - i] /\ Reversed(s)[j] = s[1 + Len(s) - j]
  BY DEF Reversed
<1> QED BY <1>2, <1>3, <1>4 DEF RoutesLast

LEMMA TailRoutesFirst ==
  ASSUME NEW T, NEW s \in Seq(T), s # <<>>, RoutesFirst(s)
  PROVE  RoutesFirst(Tail(s)) /\ (Head(s).op # "route" => NoRoute(s))
<1>1. /\ Len(s) \in Nat /\ Len(s) > 0 /\ Len(Tail(s)) = Len(s) - 1
      /\ \A i \in 1 .. Len(s) - 1 : Tail(s)[i] = s[i + 1]
      /\ Head(s) = s[1] /\ DOMAIN s = 1 .. Len(s)
      /\ DOMAIN Tail(s) = 1 .. Len(s) - 1
  BY HeadTailProperties, LenProperties, EmptySeq
<1>2. ASSUME NEW i \in 1 .. Len(s) - 1, NEW j \in 1 .. Len(s) - 1, i < j,
             Tail(s)[j].op = "route"
      PROVE  Tail(s)[i].op = "route"
  <2>1. i + 1 \in DOMAIN s /\ j + 1 \in DOMAIN s /\ i + 1 < j + 1
    BY <1>1, <1>2
  <2> QED BY <1>1, <1>2, <2>1 DEF RoutesFirst
<1>3. ASSUME NEW i \in DOMAIN s, s[i].op = "route" PROVE Head(s).op = "route"
  <2>1. 1 \in DOMAIN s /\ (i = 1 \/ 1 < i)
    BY <1>1
  <2> QED BY <1>1, <1>3, <2>1 DEF RoutesFirst
<1> QED BY <1>1, <1>2, <1>3 DEF RoutesFirst, NoRoute, Elements

-----------------------------------------------------------------------------
(* The plan of an intent.                                                  *)

Intents == [path : Paths, block : BOOLEAN]

Policies(block, selectors) ==
  IF block THEN On("block_out", selectors) \cup On("block_in", selectors) ELSE {}

\* The commands of a plan.
PlanCommands(intent) ==
  LET p == intent.path
  IN {Cmd("load", p)} \cup On("initiate", Elements(SegmentsOf[p]))
     \cup (On("create", Elements(GreOf(p))) \cup On("address", Elements(GreOf(p)))
           \cup On("up", Elements(GreOf(p))))
     \cup Policies(intent.block, Elements(Selectors(p)))
     \cup On("route", Elements(RouteArguments(p)))

\* A tunnel is created before it has an address and before it is up.
MadeFirst(s) ==
  \A i \in DOMAIN s :
    s[i].op \in {"address", "up"} => \E j \in 1 .. i - 1 : s[j] = Cmd("create", s[i].on)

LEMMA PathLists ==
  ASSUME NEW p \in Paths
  PROVE  /\ SegmentsOf[p] \in Seq(Tunnels) /\ GreOf(p) \in Seq(Tunnels)
         /\ RouteArguments(p) \in Seq(Elements(RouteArguments(p)))
         /\ Selectors(p) \in Seq(Elements(Selectors(p)))
         /\ Elements(GreOf(p)) \subseteq Elements(SegmentsOf[p])
<1>1. SegmentsOf[p] \in Seq(Tunnels)
  BY PlanAssumption
<1> DEFINE S == {i \in DOMAIN SegmentsOf[p] : SegmentsOf[p][i] \in Gres}
<1>2. S \in SUBSET DOMAIN SegmentsOf[p]
  OBVIOUS
<1>3. GreOf(p) = AtPlaces(SegmentsOf[p], S)
  BY DEF GreOf
<1> HIDE DEF S
<1>4. GreOf(p) \in Seq(Tunnels) /\ Elements(GreOf(p)) = {SegmentsOf[p][i] : i \in S}
  BY <1>1, <1>2, <1>3, AtPlacesElements
<1>5. ASSUME NEW n \in Nat, NEW e, DOMAIN e = 1 .. n, e = [i \in 1 .. n |-> e[i]]
      PROVE  e \in Seq(Elements(e))
  <2>1. e \in [1 .. n -> Elements(e)]
    BY <1>5 DEF Elements
  <2> QED BY <2>1, SeqDef
<1>6. RoutesOf[p] \in Seq(Elements(RoutesOf[p]))
  BY PlanAssumption
<1>7. /\ Len(RoutesOf[p]) \in Nat /\ DOMAIN RoutesOf[p] = 1 .. Len(RoutesOf[p])
      /\ Len(SegmentsOf[p]) \in Nat /\ DOMAIN SegmentsOf[p] = 1 .. Len(SegmentsOf[p])
  BY <1>1, <1>6
<1>8. RouteArguments(p) \in Seq(Elements(RouteArguments(p)))
  <2>1. RouteArguments(p) = [i \in 1 .. Len(RoutesOf[p]) |-> RouteArguments(p)[i]]
    BY <1>7 DEF RouteArguments
  <2>2. DOMAIN RouteArguments(p) = 1 .. Len(RoutesOf[p])
    BY <1>7 DEF RouteArguments
  <2> QED BY <1>5, <1>7, <2>1, <2>2
<1>9. Selectors(p) \in Seq(Elements(Selectors(p)))
  <2>1. Selectors(p) = [i \in 1 .. Len(SegmentsOf[p]) |-> Selectors(p)[i]]
    BY <1>7 DEF Selectors
  <2>2. DOMAIN Selectors(p) = 1 .. Len(SegmentsOf[p])
    BY <1>7 DEF Selectors
  <2> QED BY <1>5, <1>7, <2>1, <2>2
<1> QED BY <1>1, <1>2, <1>4, <1>8, <1>9 DEF Elements

LEMMA ConcatMadeFirst ==
  ASSUME NEW S, NEW s \in Seq(S), NEW u \in Seq(S), MadeFirst(s), MadeFirst(u)
  PROVE  MadeFirst(s \o u)
<1>1. /\ DOMAIN (s \o u) = 1 .. Len(s) + Len(u)
      /\ DOMAIN s = 1 .. Len(s) /\ DOMAIN u = 1 .. Len(u) /\ Len(s) \in Nat /\ Len(u) \in Nat
      /\ \A i \in 1 .. Len(s) : (s \o u)[i] = s[i]
      /\ \A i \in 1 .. Len(u) : (s \o u)[i + Len(s)] = u[i]
      /\ \A i \in 1 .. Len(s) + Len(u) : i > Len(s) => (s \o u)[i] = u[i - Len(s)]
  BY ConcatProperties
<1>2. SUFFICES ASSUME NEW i \in 1 .. Len(s) + Len(u), (s \o u)[i].op \in {"address", "up"}
               PROVE  \E j \in 1 .. i - 1 : (s \o u)[j] = Cmd("create", (s \o u)[i].on)
  BY <1>1 DEF MadeFirst
<1>3. CASE i <= Len(s)
  <2>1. i \in DOMAIN s /\ (s \o u)[i] = s[i]
    BY <1>1, <1>3
  <2>2. PICK j \in 1 .. i - 1 : s[j] = Cmd("create", s[i].on)
    BY <1>2, <2>1 DEF MadeFirst
  <2>3. j \in 1 .. Len(s)
    BY <1>1, <1>3, <2>2
  <2> QED BY <1>1, <2>1, <2>2, <2>3
<1>4. CASE i > Len(s)
  <2> DEFINE k == i - Len(s)
  <2>1. k \in DOMAIN u /\ (s \o u)[i] = u[k] /\ k \in Nat
    BY <1>1, <1>4
  <2>2. PICK j \in 1 .. k - 1 : u[j] = Cmd("create", u[k].on)
    BY <1>2, <2>1 DEF MadeFirst
  <2>3. j \in 1 .. Len(u) /\ j + Len(s) \in 1 .. i - 1
    BY <1>1, <1>4, <2>1, <2>2
  <2> QED BY <1>1, <2>1, <2>2, <2>3
<1> QED BY <1>1, <1>3, <1>4

LEMMA NoAddressMadeFirst ==
  ASSUME NEW s, \A c \in Elements(s) : c.op \notin {"address", "up"}
  PROVE  MadeFirst(s)
BY DEF MadeFirst, Elements

LEMMA TunnelsMadeFirst ==
  ASSUME NEW S, NEW s \in Seq(S)
  PROVE  MadeFirst(Each(<<"create", "address", "up">>, s))
<1> DEFINE e == Each(<<"create", "address", "up">>, s)
<1>1. Len(s) \in Nat /\ DOMAIN e = 1 .. 3 * Len(s)
  BY EachThree
<1>2. \A m \in 1 .. Len(s) :
        /\ e[3 * m - 2] = Cmd("create", s[m])
        /\ e[3 * m - 1] = Cmd("address", s[m])
        /\ e[3 * m] = Cmd("up", s[m])
  BY EachThree
<1> HIDE DEF e
<1>3. ASSUME NEW i \in DOMAIN e, e[i].op \in {"address", "up"}
      PROVE  \E j \in 1 .. i - 1 : e[j] = Cmd("create", e[i].on)
  <2>1. PICK m \in 1 .. Len(s) : i \in {3 * m - 2, 3 * m - 1, 3 * m}
    BY <1>1, ThreePlaces
  <2>2. /\ e[3 * m - 2] = Cmd("create", s[m])
        /\ e[3 * m - 1] = Cmd("address", s[m])
        /\ e[3 * m] = Cmd("up", s[m])
    BY <1>2
  <2>3. i # 3 * m - 2
    BY <1>3, <2>2 DEF Cmd
  <2>4. e[i].on = s[m]
    BY <2>1, <2>2, <2>3 DEF Cmd
  <2>5. 3 * m - 2 \in 1 .. i - 1
    BY <1>1, <2>1, <2>3
  <2> QED BY <2>2, <2>4, <2>5
<1>4. MadeFirst(e)
  BY <1>3 DEF MadeFirst
<1> QED BY <1>4 DEF e

\* The policies are there for an intent that blocks what is not protected.
LEMMA BlockList ==
  ASSUME NEW condition \in BOOLEAN, NEW S, NEW s \in Seq(S), NEW T,
         Policies(condition, Elements(s)) \subseteq T
  PROVE  /\ When(condition, Each(<<"block_out", "block_in">>, s)) \in Seq(T)
         /\ Elements(When(condition, Each(<<"block_out", "block_in">>, s)))
              = Policies(condition, Elements(s))
<1>1. CASE condition
  <2>1. /\ When(condition, Each(<<"block_out", "block_in">>, s))
             = Each(<<"block_out", "block_in">>, s)
        /\ Policies(condition, Elements(s))
             = On("block_out", Elements(s)) \cup On("block_in", Elements(s))
    BY <1>1 DEF When, Policies
  <2>2. /\ Each(<<"block_out", "block_in">>, s) \in Seq(T)
        /\ Elements(Each(<<"block_out", "block_in">>, s))
             = On("block_out", Elements(s)) \cup On("block_in", Elements(s))
    BY <2>1, EachTwo
  <2> QED BY <2>1, <2>2
<1>2. CASE ~ condition
  <2>1. /\ When(condition, Each(<<"block_out", "block_in">>, s)) = <<>>
        /\ Policies(condition, Elements(s)) = {}
    BY <1>2 DEF When, Policies
  <2>2. <<>> \in Seq(T) /\ Elements(<<>>) = {}
    BY DEF Elements
  <2> QED BY <2>1, <2>2
<1> QED BY <1>1, <1>2

LEMMA ConcatParts ==
  ASSUME NEW S, NEW s \in Seq(S), NEW u \in Seq(S), MadeFirst(s), MadeFirst(u)
  PROVE  /\ s \o u \in Seq(S) /\ Elements(s \o u) = Elements(s) \cup Elements(u)
         /\ MadeFirst(s \o u)
BY ConcatElements, ConcatMadeFirst

LEMMA ConcatRoutes ==
  ASSUME NEW S, NEW s \in Seq(S), NEW u \in Seq(S), RoutesFirst(s), NoRoute(u)
  PROVE  /\ s \o u \in Seq(S) /\ Elements(s \o u) = Elements(s) \cup Elements(u)
         /\ RoutesFirst(s \o u)
BY ConcatElements, RoutesThenOthers

\* The list of the commands of an intent, as the order of their calls gives it.
LEMMA PlanList ==
  ASSUME NEW intent \in Intents
  PROVE  /\ Plan(intent) \in Seq(PlanCommands(intent))
         /\ Elements(Plan(intent)) = PlanCommands(intent)
         /\ RoutesLast(Plan(intent)) /\ MadeFirst(Plan(intent))
<1> DEFINE p == intent.path
           T == PlanCommands(intent)
           gres == FirstOccurrences(GreOf(p))
           loads == <<[op |-> "load", on |-> p]>>
           initiates == Each(<<"initiate">>, SegmentsOf[p])
           creates == Each(<<"create", "address", "up">>, gres)
           blocks == When(intent.block, Each(<<"block_out", "block_in">>, Selectors(p)))
           routes == Each(<<"route">>, RouteArguments(p))
           Blocks == Policies(intent.block, Elements(Selectors(p)))
<1>1. p \in Paths /\ intent.block \in BOOLEAN
  BY DEF Intents
<1>2. /\ SegmentsOf[p] \in Seq(Tunnels) /\ GreOf(p) \in Seq(Tunnels)
      /\ RouteArguments(p) \in Seq(Elements(RouteArguments(p)))
      /\ Selectors(p) \in Seq(Elements(Selectors(p)))
  BY <1>1, PathLists
<1>3. gres \in Seq(Tunnels) /\ Elements(gres) = Elements(GreOf(p))
  BY <1>2, FirstOccurrencesElements
<1>4. T = {Cmd("load", p)} \cup On("initiate", Elements(SegmentsOf[p]))
          \cup (On("create", Elements(GreOf(p))) \cup On("address", Elements(GreOf(p)))
                \cup On("up", Elements(GreOf(p))))
          \cup Blocks \cup On("route", Elements(RouteArguments(p)))
  BY DEF PlanCommands
<1> HIDE DEF p, T, gres
<1>5. loads \in Seq(T) /\ Elements(loads) = {Cmd("load", p)}
  <2>1. Cmd("load", p) \in T /\ Cmd("load", p) = [op |-> "load", on |-> p]
    BY <1>4 DEF Cmd
  <2>2. loads \in Seq(T) /\ Len(loads) = 1 /\ loads[1] = Cmd("load", p) /\ DOMAIN loads = 1 .. 1
    BY <2>1
  <2> QED BY <2>2 DEF Elements
<1>6. initiates \in Seq(T) /\ Elements(initiates) = On("initiate", Elements(SegmentsOf[p]))
  <2>1. Elements(initiates) = On("initiate", Elements(SegmentsOf[p]))
    BY <1>2, EachElementsOne
  <2>2. Elements(initiates) \subseteq T
    BY <1>4, <2>1
  <2> QED BY <1>2, <2>1, <2>2, EachSeq
<1>7. /\ creates \in Seq(T)
      /\ Elements(creates) = On("create", Elements(GreOf(p))) \cup On("address", Elements(GreOf(p)))
                             \cup On("up", Elements(GreOf(p)))
  <2>1. Elements(creates) = On("create", Elements(gres)) \cup On("address", Elements(gres))
                             \cup On("up", Elements(gres))
    BY <1>3, EachElements
  <2>2. Elements(creates) \subseteq T
    BY <1>3, <1>4, <2>1
  <2> QED BY <1>3, <2>1, <2>2, EachSeq
<1>8. blocks \in Seq(T) /\ Elements(blocks) = Blocks
  <2>1. Blocks \subseteq T
    BY <1>4
  <2> QED BY <1>1, <1>2, <2>1, BlockList
<1>9. routes \in Seq(T) /\ Elements(routes) = On("route", Elements(RouteArguments(p)))
  <2>1. Elements(routes) = On("route", Elements(RouteArguments(p)))
    BY <1>2, EachElementsOne
  <2>2. Elements(routes) \subseteq T
    BY <1>4, <2>1
  <2> QED BY <1>2, <2>1, <2>2, EachSeq
<1>10. Plan(intent) = loads \o initiates \o creates \o blocks \o routes
  BY DEF Plan, p, gres
<1>11. MadeFirst(creates)
  BY <1>3, TunnelsMadeFirst
<1>12. /\ \A c \in Elements(loads) : c.op = "load"
       /\ \A c \in Elements(initiates) : c.op = "initiate"
       /\ \A c \in Elements(creates) : c.op \in {"create", "address", "up"}
       /\ \A c \in Elements(routes) : c.op = "route"
  <2> HIDE DEF loads, initiates, creates, routes
  <2> QED BY <1>5, <1>6, <1>7, <1>9 DEF On, Cmd
<1>13. \A c \in Elements(blocks) : c.op \in {"block_out", "block_in"}
  <2>1. \A c \in Blocks : c.op \in {"block_out", "block_in"}
    BY DEF Policies, On, Cmd
  <2> HIDE DEF blocks
  <2> QED BY <1>8, <2>1
<1> HIDE DEF loads, initiates, creates, blocks, routes, Blocks
<1>14. /\ MadeFirst(loads) /\ MadeFirst(initiates) /\ MadeFirst(blocks) /\ MadeFirst(routes)
  BY <1>12, <1>13, NoAddressMadeFirst
<1>15. PICK s2 : s2 = loads \o initiates
  OBVIOUS
<1>16. PICK s3 : s3 = s2 \o creates
  OBVIOUS
<1>17. PICK s4 : s4 = s3 \o blocks
  OBVIOUS
<1>18. Plan(intent) = s4 \o routes
  BY <1>10, <1>15, <1>16, <1>17
<1>19. s2 \in Seq(T) /\ MadeFirst(s2) /\ Elements(s2) = Elements(loads) \cup Elements(initiates)
  BY <1>5, <1>6, <1>14, <1>15, ConcatParts
<1>20. /\ s3 \in Seq(T) /\ MadeFirst(s3)
       /\ Elements(s3) = Elements(s2) \cup Elements(creates)
  BY <1>7, <1>11, <1>16, <1>19, ConcatParts
<1>21. /\ s4 \in Seq(T) /\ MadeFirst(s4)
       /\ Elements(s4) = Elements(s3) \cup Elements(blocks)
  BY <1>8, <1>14, <1>17, <1>20, ConcatParts
<1>22. /\ Plan(intent) \in Seq(T) /\ MadeFirst(Plan(intent))
       /\ Elements(Plan(intent)) = Elements(s4) \cup Elements(routes)
  BY <1>9, <1>14, <1>18, <1>21, ConcatParts
<1>23. NoRoute(s4)
  BY <1>12, <1>13, <1>19, <1>20, <1>21 DEF NoRoute
<1>24. RoutesLast(Plan(intent))
  BY <1>9, <1>12, <1>18, <1>21, <1>23, OthersThenRoutes
<1>25. Elements(Plan(intent)) = T
  BY <1>4, <1>5, <1>6, <1>7, <1>8, <1>9, <1>19, <1>20, <1>21, <1>22
<1> QED BY <1>22, <1>24, <1>25 DEF T

\* The rollback commands take back all of a plan, its routes first.
LEMMA RollbackList ==
  ASSUME NEW intent \in Intents
  PROVE  /\ RollbackCommands(intent) \in Seq(PlanCommands(intent))
         /\ Elements(RollbackCommands(intent)) = {c \in PlanCommands(intent) : HasRollback(c)}
         /\ RoutesFirst(RollbackCommands(intent))
<1> DEFINE p == intent.path
           T == PlanCommands(intent)
           gres == FirstOccurrences(Reversed(GreOf(p)))
           routes == Each(<<"route">>, Reversed(RouteArguments(p)))
           creates == Each(<<"create">>, gres)
           initiates == Each(<<"initiate">>, Reversed(SegmentsOf[p]))
           blocks == When(intent.block,
                          Each(<<"block_out", "block_in">>, Reversed(Selectors(p))))
           Blocks == Policies(intent.block, Elements(Selectors(p)))
<1>1. p \in Paths /\ intent.block \in BOOLEAN
  BY DEF Intents
<1>2. /\ SegmentsOf[p] \in Seq(Tunnels) /\ GreOf(p) \in Seq(Tunnels)
      /\ RouteArguments(p) \in Seq(Elements(RouteArguments(p)))
      /\ Selectors(p) \in Seq(Elements(Selectors(p)))
  BY <1>1, PathLists
<1>3. /\ Reversed(SegmentsOf[p]) \in Seq(Tunnels)
      /\ Elements(Reversed(SegmentsOf[p])) = Elements(SegmentsOf[p])
      /\ Reversed(GreOf(p)) \in Seq(Tunnels)
      /\ Elements(Reversed(GreOf(p))) = Elements(GreOf(p))
      /\ Reversed(RouteArguments(p)) \in Seq(Elements(RouteArguments(p)))
      /\ Elements(Reversed(RouteArguments(p))) = Elements(RouteArguments(p))
      /\ Reversed(Selectors(p)) \in Seq(Elements(Selectors(p)))
      /\ Elements(Reversed(Selectors(p))) = Elements(Selectors(p))
  BY <1>2, ReversedElements
<1>4. gres \in Seq(Tunnels) /\ Elements(gres) = Elements(GreOf(p))
  BY <1>3, FirstOccurrencesElements
<1>5. T = {Cmd("load", p)} \cup On("initiate", Elements(SegmentsOf[p]))
          \cup (On("create", Elements(GreOf(p))) \cup On("address", Elements(GreOf(p)))
                \cup On("up", Elements(GreOf(p))))
          \cup Blocks \cup On("route", Elements(RouteArguments(p)))
  BY DEF PlanCommands
<1> HIDE DEF p, T, gres
<1>6. routes \in Seq(T) /\ Elements(routes) = On("route", Elements(RouteArguments(p)))
  <2>1. Elements(routes) = On("route", Elements(RouteArguments(p)))
    BY <1>3, EachElementsOne
  <2>2. Elements(routes) \subseteq T
    BY <1>5, <2>1
  <2> QED BY <1>3, <2>1, <2>2, EachSeq
<1>7. creates \in Seq(T) /\ Elements(creates) = On("create", Elements(GreOf(p)))
  <2>1. Elements(creates) = On("create", Elements(GreOf(p)))
    BY <1>4, EachElementsOne
  <2>2. Elements(creates) \subseteq T
    BY <1>5, <2>1
  <2> QED BY <1>4, <2>1, <2>2, EachSeq
<1>8. initiates \in Seq(T) /\ Elements(initiates) = On("initiate", Elements(SegmentsOf[p]))
  <2>1. Elements(initiates) = On("initiate", Elements(SegmentsOf[p]))
    BY <1>3, EachElementsOne
  <2>2. Elements(initiates) \subseteq T
    BY <1>5, <2>1
  <2> QED BY <1>3, <2>1, <2>2, EachSeq
<1>9. blocks \in Seq(T) /\ Elements(blocks) = Blocks
  <2>1. Policies(intent.block, Elements(Reversed(Selectors(p)))) = Blocks
    BY <1>3
  <2>2. Policies(intent.block, Elements(Reversed(Selectors(p)))) \subseteq T
    BY <1>5, <2>1
  <2> QED BY <1>1, <1>3, <2>1, <2>2, BlockList
<1>10. RollbackCommands(intent) = routes \o creates \o initiates \o blocks
  BY DEF RollbackCommands, p, gres
<1>11. /\ \A c \in Elements(routes) : c.op = "route"
       /\ \A c \in Elements(creates) : c.op = "create"
       /\ \A c \in Elements(initiates) : c.op = "initiate"
       /\ \A c \in Elements(blocks) : c.op \in {"block_out", "block_in"}
  BY <1>6, <1>7, <1>8, <1>9 DEF On, Cmd, Policies
<1>12. /\ \A c \in On("address", Elements(GreOf(p))) : c.op = "address"
       /\ \A c \in On("up", Elements(GreOf(p))) : c.op = "up"
       /\ Cmd("load", p).op = "load"
  BY DEF On, Cmd
<1> HIDE DEF routes, creates, initiates, blocks, Blocks
<1>13. RoutesFirst(routes) /\ NoRoute(creates) /\ NoRoute(initiates) /\ NoRoute(blocks)
  BY <1>11 DEF RoutesFirst, NoRoute, Elements
<1>14. PICK s2 : s2 = routes \o creates
  OBVIOUS
<1>15. PICK s3 : s3 = s2 \o initiates
  OBVIOUS
<1>16. RollbackCommands(intent) = s3 \o blocks
  BY <1>10, <1>14, <1>15
<1>17. s2 \in Seq(T) /\ RoutesFirst(s2) /\ Elements(s2) = Elements(routes) \cup Elements(creates)
  BY <1>6, <1>7, <1>13, <1>14, ConcatRoutes
<1>18. /\ s3 \in Seq(T) /\ RoutesFirst(s3)
       /\ Elements(s3) = Elements(s2) \cup Elements(initiates)
  BY <1>8, <1>13, <1>15, <1>17, ConcatRoutes
<1>19. /\ RollbackCommands(intent) \in Seq(T) /\ RoutesFirst(RollbackCommands(intent))
       /\ Elements(RollbackCommands(intent)) = Elements(s3) \cup Elements(blocks)
  BY <1>9, <1>13, <1>16, <1>18, ConcatRoutes
<1>20. Elements(RollbackCommands(intent)) = {c \in T : HasRollback(c)}
  BY <1>5, <1>6, <1>7, <1>8, <1>9, <1>11, <1>12, <1>17, <1>18, <1>19 DEF HasRollback
<1> QED BY <1>19, <1>20 DEF T

\* What is undone after a failure: all that was done and can be, the routes first.
LEMMA UndoList ==
  ASSUME NEW T, NEW s \in Seq(T), RoutesLast(s)
  PROVE  /\ Undo(s) \in Seq(T) /\ RoutesFirst(Undo(s))
         /\ Elements(Undo(s)) = {c \in Elements(s) : HasRollback(c)}
<1> DEFINE r == Reversed(s)
           S == {i \in DOMAIN r : HasRollback(r[i])}
<1>1. r \in Seq(T) /\ Elements(r) = Elements(s) /\ RoutesFirst(r)
  BY ReversedElements, ReversedRoutesFirst
<1>2. S \in SUBSET DOMAIN r
  OBVIOUS
<1>3. Undo(s) = AtPlaces(r, S)
  BY DEF Undo, TakenBack
<1>4. {r[i] : i \in S} = {c \in Elements(r) : HasRollback(c)}
  BY DEF Elements
<1> HIDE DEF r, S
<1>5. Undo(s) \in Seq(T) /\ Elements(Undo(s)) = {r[i] : i \in S}
  BY <1>1, <1>2, <1>3, AtPlacesElements
<1>6. RoutesFirst(Undo(s))
  BY <1>1, <1>2, <1>3, SelectedRoutesFirst
<1> QED BY <1>1, <1>4, <1>5, <1>6

-----------------------------------------------------------------------------
(* What the commands of an intent put in place and take away.              *)

\* What a command of an undo takes away.
Removed(c) ==
  IF c.op = "create" THEN {<<o, c.on>> : o \in {"create", "address", "up"}} ELSE {Fact(c)}

RemovedBy(commands) == UNION {Removed(c) : c \in Elements(commands)}

\* What the commands of a list leave, the loading of connections apart.
FactsOf(commands) == {Fact(c) : c \in {d \in Elements(commands) : d.op # "load"}}

\* What a route of the intent leads into.
Carriers(intent) == Needs(intent) \ RoutesIn(Needs(intent))

LEMMA PlanFacts ==
  ASSUME NEW intent \in Intents
  PROVE  /\ \A c \in PlanCommands(intent) : c.op # "load" => Fact(c) \in Needs(intent)
         /\ \A f \in Needs(intent) :
              \E c \in PlanCommands(intent) : c.op # "load" /\ Fact(c) = f
<1> DEFINE p == intent.path
           gres == Elements(GreOf(p))
           selectors == Elements(Selectors(p))
           segs == Elements(SegmentsOf[p])
           routes == Elements(RouteArguments(p))
<1>1. p \in Paths /\ intent.block \in BOOLEAN
  BY DEF Intents
<1>2. {Egress(p, r) : r \in Elements(RoutesOf[p])} = routes
  BY DEF Elements, RouteArguments
<1>3. /\ {<<"route", Egress(p, r)>> : r \in Elements(RoutesOf[p])} = {<<"route", x>> : x \in routes}
  BY <1>2
<1>4. Needs(intent) = {<<"initiate", t>> : t \in segs}
        \cup {<<o, t>> : o \in {"create", "address", "up"}, t \in gres}
        \cup {<<"route", x>> : x \in routes}
        \cup (IF intent.block
              THEN {<<o, s>> : o \in {"block_out", "block_in"}, s \in selectors} ELSE {})
  BY <1>3 DEF Needs
<1>5. PlanCommands(intent) = {Cmd("load", p)} \cup On("initiate", segs)
        \cup (On("create", gres) \cup On("address", gres) \cup On("up", gres))
        \cup Policies(intent.block, selectors) \cup On("route", routes)
  BY DEF PlanCommands
<1> HIDE DEF p, gres, selectors, segs, routes
<1>6. \A o, x : Cmd(o, x).op = o /\ Fact(Cmd(o, x)) = <<o, x>>
  BY DEF Cmd, Fact
<1>7. ASSUME NEW c \in PlanCommands(intent), c.op # "load" PROVE Fact(c) \in Needs(intent)
  <2>1. CASE c \in On("initiate", segs) \cup On("route", routes)
    BY <1>4, <1>6, <2>1 DEF On
  <2>2. CASE c \in On("create", gres) \cup On("address", gres) \cup On("up", gres)
    BY <1>4, <1>6, <2>2 DEF On
  <2>3. CASE c \in Policies(intent.block, selectors)
    BY <1>4, <1>6, <2>3 DEF On, Policies
  <2> QED BY <1>5, <1>6, <1>7, <2>1, <2>2, <2>3
<1>8. ASSUME NEW f \in Needs(intent)
      PROVE  \E c \in PlanCommands(intent) : c.op # "load" /\ Fact(c) = f
  <2>1. CASE f \in {<<"initiate", t>> : t \in segs}
    <3>1. PICK t \in segs : f = <<"initiate", t>>
      BY <2>1
    <3>2. Cmd("initiate", t) \in PlanCommands(intent)
      BY <1>5 DEF On
    <3> QED BY <1>6, <3>1, <3>2
  <2>2. CASE f \in {<<o, t>> : o \in {"create", "address", "up"}, t \in gres}
    <3>1. PICK o \in {"create", "address", "up"}, t \in gres : f = <<o, t>>
      BY <2>2
    <3>2. Cmd(o, t) \in PlanCommands(intent)
      BY <1>5 DEF On
    <3> QED BY <1>6, <3>1, <3>2
  <2>3. CASE f \in {<<"route", x>> : x \in routes}
    <3>1. PICK x \in routes : f = <<"route", x>>
      BY <2>3
    <3>2. Cmd("route", x) \in PlanCommands(intent)
      BY <1>5 DEF On
    <3> QED BY <1>6, <3>1, <3>2
  <2>4. CASE intent.block /\ f \in {<<o, s>> : o \in {"block_out", "block_in"}, s \in selectors}
    <3>1. PICK o \in {"block_out", "block_in"}, s \in selectors : f = <<o, s>>
      BY <2>4
    <3>2. Cmd(o, s) \in PlanCommands(intent)
      BY <1>5, <2>4 DEF On, Policies
    <3> QED BY <1>6, <3>1, <3>2
  <2> QED BY <1>4, <2>1, <2>2, <2>3, <2>4
<1> QED BY <1>7, <1>8

\* The kinds of command of a plan and how they hang together.
LEMMA PlanKinds ==
  ASSUME NEW intent \in Intents, NEW c \in PlanCommands(intent)
  PROVE  /\ c.op \in {"load", "initiate", "create", "address", "up", "block_out",
                      "block_in", "route"}
         /\ c = Cmd(c.op, c.on)
         /\ c.op = "load" => c.on = intent.path
         /\ c.op = "create" =>
              Cmd("address", c.on) \in PlanCommands(intent) /\ Cmd("up", c.on) \in PlanCommands(intent)
         /\ c.op = "route" /\ c.on[2] # NoTunnel =>
              Cmd("create", c.on[2]) \in PlanCommands(intent)
<1> DEFINE p == intent.path
           gres == Elements(GreOf(p))
           selectors == Elements(Selectors(p))
           segs == Elements(SegmentsOf[p])
           routes == Elements(RouteArguments(p))
<1>1. p \in Paths /\ intent.block \in BOOLEAN
  BY DEF Intents
<1>2. ASSUME NEW x \in routes, x[2] # NoTunnel PROVE x[2] \in gres
  <2>1. PICK i \in DOMAIN RouteArguments(p) : x = RouteArguments(p)[i]
    BY DEF Elements
  <2>2. PICK r : x = Egress(p, r)
    BY <2>1 DEF RouteArguments
  <2>3. GreOf(p) # <<>> /\ x[2] = GreOf(p)[1]
    BY <1>2, <2>2 DEF Egress
  <2>4. GreOf(p) \in Seq(Tunnels)
    BY <1>1, PathLists
  <2>5. 1 \in DOMAIN GreOf(p)
    BY <2>3, <2>4
  <2> QED BY <2>3, <2>5 DEF Elements
<1>3. PlanCommands(intent) = {Cmd("load", p)} \cup On("initiate", segs)
        \cup (On("create", gres) \cup On("address", gres) \cup On("up", gres))
        \cup Policies(intent.block, selectors) \cup On("route", routes)
  BY DEF PlanCommands
<1> HIDE DEF gres, selectors, segs, routes
<1>4. \A o, x : Cmd(o, x).op = o /\ Cmd(o, x).on = x
  BY DEF Cmd
<1>5. CASE c = Cmd("load", p)
  BY <1>4, <1>5
<1>6. CASE c \in On("initiate", segs) \cup Policies(intent.block, selectors)
  BY <1>4, <1>6 DEF On, Policies
<1>7. CASE c \in On("create", gres) \cup On("address", gres) \cup On("up", gres)
  <2>1. PICK t \in gres : c \in {Cmd("create", t), Cmd("address", t), Cmd("up", t)}
    BY <1>7 DEF On
  <2>2. Cmd("address", t) \in PlanCommands(intent) /\ Cmd("up", t) \in PlanCommands(intent)
    BY <1>3 DEF On
  <2> QED BY <1>4, <2>1, <2>2
<1>8. CASE c \in On("route", routes)
  <2>1. PICK x \in routes : c = Cmd("route", x)
    BY <1>8 DEF On
  <2>2. c.op = "route" /\ c.on = x
    BY <1>4, <2>1
  <2>3. x[2] # NoTunnel => Cmd("create", x[2]) \in PlanCommands(intent)
    BY <1>2, <1>3 DEF On
  <2> QED BY <1>4, <2>1, <2>2, <2>3
<1> QED BY <1>3, <1>5, <1>6, <1>7, <1>8

LEMMA NeedsApart ==
  ASSUME NEW intent \in Intents
  PROVE  Needs(intent) \cap Loaded = {}
<1> SUFFICES ASSUME NEW f \in Needs(intent), f \in Loaded PROVE FALSE
  OBVIOUS
<1>1. PICK c \in PlanCommands(intent) : c.op # "load" /\ Fact(c) = f
  BY PlanFacts
<1>2. PICK t \in Tunnels : f = <<"load", t>>
  BY DEF Loaded
<1>3. f[1] = c.op /\ f[1] = "load"
  BY <1>1, <1>2 DEF Fact
<1> QED BY <1>1, <1>3

\* What an undo of a command of the plan takes away is of the intent.
LEMMA RemovedNeeded ==
  ASSUME NEW intent \in Intents, NEW c \in PlanCommands(intent), HasRollback(c)
  PROVE  /\ Removed(c) \subseteq Needs(intent) /\ Fact(c) \in Removed(c)
         /\ AfterUndo(c) = system \ Removed(c)
<1>1. c.op # "load" /\ c = Cmd(c.op, c.on)
  BY PlanKinds DEF HasRollback
<1>2. Fact(c) \in Needs(intent)
  BY <1>1, PlanFacts
<1>3. CASE c.op = "create"
  <2>1. Cmd("address", c.on) \in PlanCommands(intent) /\ Cmd("up", c.on) \in PlanCommands(intent)
    BY <1>3, PlanKinds
  <2>2. /\ Cmd("address", c.on).op = "address" /\ Fact(Cmd("address", c.on)) = <<"address", c.on>>
        /\ Cmd("up", c.on).op = "up" /\ Fact(Cmd("up", c.on)) = <<"up", c.on>>
    BY DEF Cmd, Fact
  <2>3. <<"address", c.on>> \in Needs(intent) /\ <<"up", c.on>> \in Needs(intent)
    BY <2>1, <2>2, PlanFacts
  <2>4. Fact(c) = <<"create", c.on>>
    BY <1>3 DEF Fact
  <2> QED BY <1>2, <1>3, <2>3, <2>4 DEF Removed, AfterUndo
<1>4. CASE c.op # "create"
  BY <1>2, <1>4 DEF Removed, AfterUndo
<1> QED BY <1>3, <1>4

-----------------------------------------------------------------------------
(* A plan that was run as far as some command, and its undo.               *)

\* d is the beginning of the plan of the intent.
Begins(d, intent) ==
  /\ d \in Seq(PlanCommands(intent)) /\ Len(d) <= Len(Plan(intent))
  /\ \A i \in 1 .. Len(d) : d[i] = Plan(intent)[i]

LEMMA BeginsFacts ==
  ASSUME NEW intent \in Intents, NEW d, Begins(d, intent)
  PROVE  /\ Elements(d) \subseteq PlanCommands(intent) /\ FactsOf(d) \subseteq Needs(intent)
         /\ RoutesLast(d) /\ MadeFirst(d)
<1>1. /\ Len(d) \in Nat /\ DOMAIN d = 1 .. Len(d) /\ Len(Plan(intent)) \in Nat
      /\ DOMAIN Plan(intent) = 1 .. Len(Plan(intent))
      /\ RoutesLast(Plan(intent)) /\ MadeFirst(Plan(intent))
  BY PlanList DEF Begins
<1>2. \A i \in 1 .. Len(d) : i \in DOMAIN Plan(intent) /\ d[i] = Plan(intent)[i]
  BY <1>1 DEF Begins
<1>3. Elements(d) \subseteq PlanCommands(intent)
  BY DEF Begins, Elements
<1>4. FactsOf(d) \subseteq Needs(intent)
  BY <1>3, PlanFacts DEF FactsOf
<1>5. RoutesLast(d)
  BY <1>1, <1>2 DEF RoutesLast
<1>6. ASSUME NEW i \in DOMAIN d, d[i].op \in {"address", "up"}
      PROVE  \E j \in 1 .. i - 1 : d[j] = Cmd("create", d[i].on)
  <2>1. PICK j \in 1 .. i - 1 : Plan(intent)[j] = Cmd("create", Plan(intent)[i].on)
    BY <1>1, <1>2, <1>6 DEF MadeFirst
  <2>2. j \in 1 .. Len(d)
    BY <1>1, <2>1
  <2> QED BY <1>1, <1>2, <2>1, <2>2
<1>7. MadeFirst(d)
  BY <1>6 DEF MadeFirst
<1> QED BY <1>3, <1>4, <1>5, <1>7

\* The routes come when all they lead into is there.
LEMMA BeginsCarries ==
  ASSUME NEW intent \in Intents, NEW d, Begins(d, intent), RoutesIn(FactsOf(d)) # {}
  PROVE  Carriers(intent) \subseteq FactsOf(d)
<1>1. /\ Len(d) \in Nat /\ DOMAIN d = 1 .. Len(d) /\ Len(Plan(intent)) \in Nat
      /\ DOMAIN Plan(intent) = 1 .. Len(Plan(intent)) /\ RoutesLast(Plan(intent))
      /\ Elements(Plan(intent)) = PlanCommands(intent)
  BY PlanList DEF Begins
<1>2. PICK r \in Elements(d) : r.op # "load" /\ Fact(r)[1] = "route"
  BY DEF RoutesIn, FactsOf
<1>3. PICK k \in 1 .. Len(d) : d[k] = r
  BY <1>1 DEF Elements
<1>4. k \in DOMAIN Plan(intent) /\ Plan(intent)[k].op = "route"
  BY <1>1, <1>2, <1>3 DEF Fact, Begins
<1> SUFFICES ASSUME NEW g \in Carriers(intent) PROVE g \in FactsOf(d)
  OBVIOUS
<1>5. PICK c \in PlanCommands(intent) : c.op # "load" /\ Fact(c) = g
  BY PlanFacts DEF Carriers
<1>6. c.op # "route"
  BY <1>5 DEF Carriers, RoutesIn, Fact
<1>7. PICK m \in DOMAIN Plan(intent) : Plan(intent)[m] = c
  BY <1>1 DEF Elements
<1>8. ~ (k < m) /\ k # m
  BY <1>1, <1>4, <1>6, <1>7 DEF RoutesLast
<1>9. m \in 1 .. Len(d) /\ d[m] = c
  BY <1>1, <1>3, <1>7, <1>8 DEF Begins
<1>10. c \in Elements(d)
  BY <1>1, <1>9 DEF Elements
<1> QED BY <1>5, <1>10 DEF FactsOf

\* A command of the plan finds the tunnel it is for.
LEMMA BeginsSupplies ==
  ASSUME NEW intent \in Intents, NEW d, Begins(d, intent), Len(d) + 1 <= Len(Plan(intent)),
         NEW c, c = Plan(intent)[Len(d) + 1]
  PROVE  /\ c.op \in {"address", "up"} => <<"create", c.on>> \in FactsOf(d)
         /\ c.op = "route" /\ c.on[2] # NoTunnel => <<"create", c.on[2]>> \in FactsOf(d)
<1>1. /\ Len(d) \in Nat /\ DOMAIN d = 1 .. Len(d) /\ Len(Plan(intent)) \in Nat
      /\ DOMAIN Plan(intent) = 1 .. Len(Plan(intent)) /\ RoutesLast(Plan(intent))
      /\ MadeFirst(Plan(intent)) /\ Elements(Plan(intent)) = PlanCommands(intent)
  BY PlanList DEF Begins
<1> DEFINE k == Len(d) + 1
<1>2. k \in DOMAIN Plan(intent) /\ c \in PlanCommands(intent)
  BY <1>1 DEF Elements
<1>3. ASSUME NEW j \in 1 .. Len(d), NEW t, Plan(intent)[j] = Cmd("create", t)
      PROVE  <<"create", t>> \in FactsOf(d)
  <2>1. Cmd("create", t) \in Elements(d)
    BY <1>1, <1>3 DEF Elements, Begins
  <2>2. Cmd("create", t).op = "create" /\ Fact(Cmd("create", t)) = <<"create", t>>
    BY DEF Cmd, Fact
  <2> QED BY <2>1, <2>2 DEF FactsOf
<1>4. ASSUME c.op \in {"address", "up"} PROVE <<"create", c.on>> \in FactsOf(d)
  <2>1. PICK j \in 1 .. k - 1 : Plan(intent)[j] = Cmd("create", c.on)
    BY <1>2, <1>1, <1>4 DEF MadeFirst
  <2>2. j \in 1 .. Len(d)
    BY <1>1, <2>1
  <2> QED BY <1>3, <2>1, <2>2
<1>5. ASSUME c.op = "route", c.on[2] # NoTunnel
      PROVE  <<"create", c.on[2]>> \in FactsOf(d)
  <2>1. Cmd("create", c.on[2]) \in PlanCommands(intent)
    BY <1>2, <1>5, PlanKinds
  <2>2. PICK j \in DOMAIN Plan(intent) : Plan(intent)[j] = Cmd("create", c.on[2])
    BY <1>1, <2>1 DEF Elements
  <2>3. Plan(intent)[j].op = "create"
    BY <2>2 DEF Cmd
  <2>4. ~ (k < j) /\ k # j
    BY <1>1, <1>2, <1>5, <2>3 DEF RoutesLast
  <2>5. j \in 1 .. Len(d)
    BY <1>1, <2>2, <2>4
  <2> QED BY <1>3, <2>2, <2>5
<1> QED BY <1>4, <1>5

LEMMA BeginsRemoved ==
  ASSUME NEW intent \in Intents, NEW d, Begins(d, intent)
  PROVE  /\ FactsOf(d) \subseteq RemovedBy(Undo(d)) /\ RoutesFirst(Undo(d))
         /\ Undo(d) \in Seq(PlanCommands(intent))
         /\ \A c \in Elements(Undo(d)) : HasRollback(c)
<1>1. d \in Seq(PlanCommands(intent)) /\ DOMAIN d = 1 .. Len(d)
  BY DEF Begins
<1>2. Elements(d) \subseteq PlanCommands(intent) /\ RoutesLast(d) /\ MadeFirst(d)
  BY BeginsFacts
<1>3. /\ Undo(d) \in Seq(PlanCommands(intent)) /\ RoutesFirst(Undo(d))
      /\ Elements(Undo(d)) = {c \in Elements(d) : HasRollback(c)}
  BY <1>1, <1>2, UndoList
<1>4. ASSUME NEW c \in Elements(d), c.op # "load" PROVE Fact(c) \in RemovedBy(Undo(d))
  <2>1. c \in PlanCommands(intent)
    BY <1>2
  <2>2. CASE HasRollback(c)
    <3>1. c \in Elements(Undo(d)) /\ Fact(c) \in Removed(c)
      BY <1>3, <2>1, <2>2, RemovedNeeded
    <3> QED BY <3>1 DEF RemovedBy
  <2>3. CASE ~ HasRollback(c)
    <3>1. c.op \in {"address", "up"}
      BY <1>4, <2>1, <2>3, PlanKinds DEF HasRollback
    <3>2. PICK i \in DOMAIN d : d[i] = c
      BY DEF Elements
    <3>3. PICK j \in 1 .. i - 1 : d[j] = Cmd("create", c.on)
      BY <1>2, <3>1, <3>2 DEF MadeFirst
    <3>4. j \in DOMAIN d
      BY <1>1, <3>2, <3>3
    <3>5. Cmd("create", c.on) \in Elements(Undo(d))
      BY <1>3, <3>3, <3>4 DEF Elements, HasRollback, Cmd
    <3>6. Fact(c) \in Removed(Cmd("create", c.on))
      BY <3>1 DEF Removed, Cmd, Fact
    <3> QED BY <3>5, <3>6 DEF RemovedBy
  <2> QED BY <2>2, <2>3
<1> QED BY <1>3, <1>4 DEF FactsOf

LEMMA RollbackRemoves ==
  ASSUME NEW intent \in Intents
  PROVE  Needs(intent) \subseteq RemovedBy(RollbackCommands(intent))
<1> DEFINE s == RollbackCommands(intent)
<1>1. Elements(s) = {c \in PlanCommands(intent) : HasRollback(c)}
  BY RollbackList
<1> SUFFICES ASSUME NEW f \in Needs(intent) PROVE f \in RemovedBy(s)
  OBVIOUS
<1>2. PICK c \in PlanCommands(intent) : c.op # "load" /\ Fact(c) = f
  BY PlanFacts
<1>3. CASE HasRollback(c)
  <2>1. c \in Elements(s) /\ f \in Removed(c)
    BY <1>1, <1>2, <1>3, RemovedNeeded
  <2> QED BY <2>1 DEF RemovedBy
<1>4. CASE ~ HasRollback(c)
  <2>1. c.op \in {"address", "up"}
    BY <1>2, <1>4, PlanKinds DEF HasRollback
  <2>2. PICK i \in DOMAIN Plan(intent) : Plan(intent)[i] = c
    BY PlanList DEF Elements
  <2>3. PICK j \in 1 .. i - 1 : Plan(intent)[j] = Cmd("create", c.on)
    BY <2>1, <2>2, PlanList DEF MadeFirst
  <2>4. Plan(intent) \in Seq(PlanCommands(intent)) /\ Elements(Plan(intent)) = PlanCommands(intent)
    BY PlanList
  <2>5. j \in DOMAIN Plan(intent)
    BY <2>2, <2>3, <2>4
  <2>6. Cmd("create", c.on) \in PlanCommands(intent)
    BY <2>3, <2>4, <2>5 DEF Elements
  <2>7. Cmd("create", c.on) \in Elements(s)
    BY <1>1, <2>6 DEF HasRollback, Cmd
  <2>8. f \in Removed(Cmd("create", c.on))
    BY <1>2, <2>1 DEF Removed, Cmd, Fact
  <2> QED BY <2>7, <2>8 DEF RemovedBy
<1> QED BY <1>3, <1>4

LEMMA TailRemoved ==
  ASSUME NEW S, NEW s \in Seq(S), s # <<>>
  PROVE  /\ RemovedBy(s) = Removed(Head(s)) \cup RemovedBy(Tail(s))
         /\ Head(s) \in Elements(s) /\ Elements(Tail(s)) \subseteq Elements(s)
         /\ Tail(s) \in Seq(S)
<1>1. /\ Elements(s) = {Head(s)} \cup Elements(Tail(s)) /\ Head(s) \in Elements(s)
      /\ Tail(s) \in Seq(S)
  BY TailElements
<1> QED BY <1>1 DEF RemovedBy

LEMMA NoRouteRemoved ==
  ASSUME NEW s, NoRoute(s)
  PROVE  \A f \in RemovedBy(s) : f[1] # "route"
BY DEF NoRoute, RemovedBy, Removed, Fact

\* A plan that was run to its end has put in place what the intent needs.
LEMMA AllOfIt ==
  ASSUME NEW intent \in Intents, NEW d, Begins(d, intent), Len(d) = Len(Plan(intent))
  PROVE  Needs(intent) \subseteq FactsOf(d)
<1>1. /\ DOMAIN d = 1 .. Len(d) /\ DOMAIN Plan(intent) = 1 .. Len(Plan(intent))
      /\ Elements(Plan(intent)) = PlanCommands(intent)
  BY PlanList DEF Begins
<1> SUFFICES ASSUME NEW f \in Needs(intent) PROVE f \in FactsOf(d)
  OBVIOUS
<1>2. PICK c \in PlanCommands(intent) : c.op # "load" /\ Fact(c) = f
  BY PlanFacts
<1>3. PICK m \in DOMAIN d : d[m] = c
  BY <1>1 DEF Elements, Begins
<1> QED BY <1>2, <1>3 DEF FactsOf, Elements

\* t is what is left of the plan behind d.
Remains(t, d, intent) ==
  /\ t \in Seq(PlanCommands(intent)) /\ Len(d) + Len(t) = Len(Plan(intent))
  /\ \A i \in 1 .. Len(t) : t[i] = Plan(intent)[Len(d) + i]

Lasting(c) == IF c.op = "load" THEN {} ELSE {Fact(c)}

LEMMA NextCommand ==
  ASSUME NEW intent \in Intents, NEW d, NEW t, Begins(d, intent), Remains(t, d, intent), t # <<>>,
         NEW c, c = Head(t)
  PROVE  /\ c \in PlanCommands(intent)
         /\ Len(d) + 1 <= Len(Plan(intent)) /\ c = Plan(intent)[Len(d) + 1]
         /\ Begins(Append(d, c), intent) /\ Remains(Tail(t), Append(d, c), intent)
         /\ FactsOf(Append(d, c)) = FactsOf(d) \cup Lasting(c)
<1> DEFINE C == PlanCommands(intent)
<1> HIDE DEF C
<1>1. t \in Seq(C) /\ d \in Seq(C) /\ Len(d) \in Nat /\ Len(Plan(intent)) \in Nat
  BY PlanList DEF Begins, Remains, C
<1>2. /\ Len(t) \in Nat /\ Len(t) > 0 /\ Len(Tail(t)) = Len(t) - 1
      /\ \A i \in 1 .. Len(t) - 1 : Tail(t)[i] = t[i + 1]
      /\ Head(t) = t[1] /\ Tail(t) \in Seq(C) /\ Head(t) \in C
  BY <1>1, HeadTailProperties, LenProperties, EmptySeq
<1>3. Len(d) + 1 <= Len(Plan(intent)) /\ c = Plan(intent)[Len(d) + 1] /\ c \in C
  BY <1>1, <1>2 DEF Remains
<1>4. /\ Append(d, c) \in Seq(C) /\ Len(Append(d, c)) = Len(d) + 1
      /\ \A i \in 1 .. Len(d) : Append(d, c)[i] = d[i]
      /\ Append(d, c)[Len(d) + 1] = c
  BY <1>1, <1>3, AppendProperties
<1>5. Begins(Append(d, c), intent)
  <2>1. ASSUME NEW i \in 1 .. Len(d) + 1 PROVE Append(d, c)[i] = Plan(intent)[i]
    <3>1. i \in 1 .. Len(d) \/ i = Len(d) + 1
      BY <1>1
    <3> QED BY <1>3, <1>4, <3>1 DEF Begins
  <2> QED BY <1>3, <1>4, <2>1 DEF Begins, C
<1>6. Remains(Tail(t), Append(d, c), intent)
  <2>1. ASSUME NEW i \in 1 .. Len(t) - 1 PROVE Tail(t)[i] = Plan(intent)[Len(d) + 1 + i]
    <3>1. i + 1 \in 1 .. Len(t) /\ Len(d) + (i + 1) = Len(d) + 1 + i
      BY <1>1, <1>2
    <3> QED BY <1>2, <3>1 DEF Remains
  <2>2. Len(d) + Len(t) = Len(Plan(intent))
    BY DEF Remains
  <2> QED BY <1>1, <1>2, <1>4, <2>1, <2>2 DEF Remains, C
<1>7. Elements(Append(d, c)) = Elements(d) \cup {c}
  <2>1. DOMAIN Append(d, c) = 1 .. Len(d) + 1 /\ DOMAIN d = 1 .. Len(d)
    BY <1>1, <1>4
  <2>2. ASSUME NEW i \in 1 .. Len(d) + 1 PROVE Append(d, c)[i] \in Elements(d) \cup {c}
    <3>1. i \in 1 .. Len(d) \/ i = Len(d) + 1
      BY <1>1
    <3> QED BY <1>4, <2>1, <3>1 DEF Elements
  <2>3. ASSUME NEW i \in 1 .. Len(d) PROVE d[i] \in Elements(Append(d, c))
    <3>1. i \in 1 .. Len(d) + 1
      BY <1>1
    <3> QED BY <1>4, <2>1, <3>1 DEF Elements
  <2>4. c \in Elements(Append(d, c))
    <3>1. Len(d) + 1 \in 1 .. Len(d) + 1
      BY <1>1
    <3> QED BY <1>4, <2>1, <3>1 DEF Elements
  <2> QED BY <2>1, <2>2, <2>3, <2>4 DEF Elements
<1>8. FactsOf(Append(d, c)) = FactsOf(d) \cup Lasting(c)
  BY <1>7 DEF FactsOf, Lasting
<1> QED BY <1>3, <1>5, <1>6, <1>8 DEF C

LEMMA CommandLasts ==
  ASSUME NEW intent \in Intents, NEW c \in PlanCommands(intent)
  PROVE  /\ After(c) \ Loaded = (system \ Loaded) \cup Lasting(c)
         /\ Adds(c) \ Loaded = Lasting(c) /\ Lasting(c) \subseteq Needs(intent)
         /\ Lasting(c) \cap Loaded = {}
<1>1. CASE c.op = "load"
  <2>1. c.on \in Paths
    BY <1>1, PlanKinds DEF Intents
  <2>2. Elements(SegmentsOf[c.on]) \subseteq Tunnels
    BY <2>1 DEF Tunnels
  <2>3. Adds(c) \subseteq Loaded
    BY <1>1, <2>2 DEF Adds, Loaded, Connections
  <2> QED BY <1>1, <2>3 DEF Lasting, After
<1>2. CASE c.op # "load"
  <2>1. Fact(c) \in Needs(intent) /\ Fact(c) \notin Loaded
    BY <1>2, PlanFacts, NeedsApart
  <2> QED BY <1>2, <2>1 DEF Lasting, After, Adds
<1> QED BY <1>1, <1>2

-----------------------------------------------------------------------------
(* The invariant.                                                          *)

OfPlan == {"run", "undo", "stopped", "manual"}

\* The lists: what was done is the beginning of the plan, what is left to do while it
\* is run the rest of it, and what is left of an undo are commands that take back,
\* those of the routes first.
ListInv ==
  /\ intents \in IntentLists /\ at \in 1 .. Len(intents) /\ by \in {"apply", "script"}
  /\ phase \in OfPlan \cup {"plan", "ended"} /\ undo_failed \in BOOLEAN
  /\ phase \in OfPlan => Begins(done, Intent)
  /\ phase = "run" => Remains(todo, done, Intent)
  /\ phase \in {"undo", "manual"} =>
       /\ todo \in Seq(PlanCommands(Intent)) /\ RoutesFirst(todo)
       /\ \A c \in Elements(todo) : HasRollback(c)

\* The phases and the results of the two programs.
CallInv ==
  /\ phase # "ended" => result = "none"
  /\ phase \in {"plan", "run"} => stray = {}
  /\ phase \in {"plan", "run", "stopped"} => ~ undo_failed
  /\ phase \in {"stopped", "manual"} => by = "script"
  /\ phase = "undo" => by = "apply"
  /\ result \in {"none", "conflict", "rollback_failed", "rolled_back", "not_planned"}
  /\ result = "conflict" => by = "apply" /\ ~ undo_failed
  /\ result = "rollback_failed" => undo_failed
  /\ result = "rolled_back" => by = "script"
  /\ by = "script" => before = {}
  /\ by = "script" /\ (phase = "plan" \/ result = "not_planned") => system = {}

\* What is in place was there before, or is of a command that ended; and it is of the
\* intent under way or, with --apply, of one before it.
Planned == phase = "plan" \/ result = "not_planned"

OriginInv ==
  /\ stray \subseteq Needs(Intent)
  /\ phase \in OfPlan => system \ Loaded \subseteq before \cup stray \cup FactsOf(done)
  /\ \A f \in system \ Loaded :
       \E i \in 1 .. at :
         f \in Needs(intents[i]) /\ (Planned => i < at) /\ (by = "script" => i = at)

\* A tunnel that has an address or is up was created.
WholeInv ==
  \A t : <<"address", t>> \in system \/ <<"up", t>> \in system => <<"create", t>> \in system

\* What was done and what was there before is in place until something is undone.
KeptInv ==
  /\ phase \in {"run", "stopped"} => FactsOf(done) \subseteq system
  /\ phase \in {"run", "stopped"} \/ (Fresh /\ (phase = "undo" \/ result = "conflict")) =>
       before \ Loaded \subseteq system

\* The intents before the one under way are in place when it is planned and run.
EarlierInv ==
  by = "apply" =>
    /\ phase \in {"plan", "run"} \/ result = "not_planned" \/ (phase = "ended" /\ result = "none") =>
         \A i \in 1 .. at - 1 : Needs(intents[i]) \subseteq system
    /\ phase \in {"run", "undo"} \/ result \in {"conflict", "rollback_failed"} =>
         \A i \in 1 .. at - 1 : Needs(intents[i]) \subseteq before
    /\ phase = "ended" /\ result = "none" => Needs(Intent) \subseteq system

\* The commands left to run of an undo take away all that is still there.
UndoInv ==
  /\ phase = "undo" /\ Fresh /\ ~ undo_failed =>
       (InPlace \ Loaded) \ before \subseteq RemovedBy(todo)
  /\ result = "conflict" /\ Fresh => InPlace \ Loaded \subseteq before
  /\ phase = "manual" /\ ~ undo_failed => system \ Loaded \subseteq RemovedBy(todo)
  /\ result = "rolled_back" /\ ~ undo_failed => system \subseteq Loaded

\* A route of the intent is there only with all it leads into.
CarryInv ==
  ~ Planned /\ ~ undo_failed /\ Fresh /\ RoutesIn(Needs(Intent) \cap InPlace) # {} =>
    Carriers(Intent) \subseteq system

PlanInv ==
  ListInv /\ CallInv /\ OriginInv /\ WholeInv /\ KeptInv /\ EarlierInv /\ UndoInv /\ CarryInv

LEMMA IntentsOfList ==
  ASSUME intents \in IntentLists, NEW i \in 1 .. Len(intents)
  PROVE  intents[i] \in Intents /\ Len(intents) \in Nat
<1>1. intents \in Seq(Intents)
  BY PlanAssumption DEF Intents
<1> QED BY <1>1

LEMMA PlanInvAtFirst == PlanInit => PlanInv
<1> SUFFICES ASSUME PlanInit PROVE PlanInv
  OBVIOUS
<1>1. Len(intents) \in Nat /\ Len(intents) > 0
  BY PlanAssumption DEF PlanInit
<1>2. ListInv
  <2>1. at \in 1 .. Len(intents) /\ phase = "plan"
    BY <1>1 DEF PlanInit
  <2>2. intents \in IntentLists /\ by \in {"apply", "script"}
    BY DEF PlanInit
  <2>3. undo_failed \in BOOLEAN
    BY Zenon DEF PlanInit
  <2> QED BY <2>1, <2>2, <2>3 DEF ListInv, OfPlan
<1>3. CallInv
  BY DEF PlanInit, CallInv
<1>4. OriginInv /\ WholeInv
  BY DEF PlanInit, OriginInv, WholeInv, OfPlan
<1>5. KeptInv /\ EarlierInv /\ UndoInv /\ CarryInv
  BY DEF PlanInit, KeptInv, EarlierInv, UndoInv, CarryInv, Planned
<1> QED BY <1>2, <1>3, <1>4, <1>5 DEF PlanInv

-----------------------------------------------------------------------------
(* The steps.                                                              *)

LEMMA PlanStep == PlanInv /\ plan => PlanInv'
<1> SUFFICES ASSUME PlanInv, plan PROVE PlanInv'
  OBVIOUS
<1>1. /\ phase = "plan" /\ done' = <<>> /\ intents' = intents /\ by' = by
      /\ system' = system /\ stray' = stray /\ undo_failed' = undo_failed /\ result' = result
  BY DEF plan, Chosen
<1>2. /\ intents \in IntentLists /\ at \in 1 .. Len(intents) /\ Len(intents) \in Nat
      /\ Intent \in Intents /\ by \in {"apply", "script"} /\ undo_failed \in BOOLEAN
  BY IntentsOfList DEF PlanInv, ListInv, Intent
<1>3. /\ stray = {} /\ ~ undo_failed /\ result = "none"
      /\ by = "script" => before = {} /\ system = {}
  BY <1>1 DEF PlanInv, CallInv
<1>4. /\ \A f \in system \ Loaded : \E i \in 1 .. at : f \in Needs(intents[i]) /\ i < at
      /\ by = "apply" => \A i \in 1 .. at - 1 : Needs(intents[i]) \subseteq system
      /\ WholeInv
  BY <1>1 DEF PlanInv, OriginInv, Planned, EarlierInv
<1>5. WholeInv'
  BY <1>1, <1>4 DEF WholeInv
<1>6. CASE by = "script" /\ MoreIntents
  <2>1. phase' = "plan" /\ at' = at + 1 /\ before' = before
    BY <1>6 DEF plan
  <2>2. at' \in 1 .. Len(intents)
    BY <1>2, <1>6, <2>1 DEF MoreIntents
  <2>3. ListInv'
    BY <1>1, <1>2, <2>1, <2>2 DEF ListInv, OfPlan
  <2>4. CallInv'
    BY <1>1, <1>3, <1>6, <2>1 DEF CallInv
  <2>5. OriginInv'
    BY <1>1, <1>3, <1>6, <2>1 DEF OriginInv, OfPlan
  <2>6. KeptInv' /\ EarlierInv' /\ UndoInv' /\ CarryInv'
    BY <1>1, <1>3, <1>6, <2>1 DEF KeptInv, EarlierInv, UndoInv, CarryInv, Planned
  <2> QED BY <1>5, <2>3, <2>4, <2>5, <2>6 DEF PlanInv
<1>7. CASE ~ (by = "script" /\ MoreIntents)
  <2>1. phase' = "run" /\ at' = at /\ before' = system /\ todo' = Plan(Intent)
    BY <1>7 DEF plan
  <2>2. Intent' = Intent
    BY <1>1, <2>1 DEF Intent
  <2>3. Begins(<<>>, Intent) /\ Remains(Plan(Intent), <<>>, Intent)
    <3>1. /\ Plan(Intent) \in Seq(PlanCommands(Intent)) /\ Len(Plan(Intent)) \in Nat
          /\ <<>> \in Seq(PlanCommands(Intent)) /\ Len(<<>>) = 0
      BY <1>2, PlanList
    <3> QED BY <3>1 DEF Begins, Remains
  <2>4. ListInv'
    BY <1>1, <1>2, <2>1, <2>2, <2>3 DEF ListInv, OfPlan
  <2>5. CallInv'
    BY <1>1, <1>3, <2>1 DEF CallInv
  <2>6. OriginInv'
    <3>1. \A f \in system \ Loaded : \E i \in 1 .. at : f \in Needs(intents[i])
      BY <1>4
    <3>2. ~ Planned'
      BY <1>1, <1>3, <2>1 DEF Planned
    <3> QED BY <1>1, <1>3, <2>1, <3>1, <3>2 DEF OriginInv
  <2>7. KeptInv'
    <3>1. FactsOf(<<>>) = {}
      BY DEF FactsOf, Elements
    <3> QED BY <1>1, <1>3, <2>1, <3>1 DEF KeptInv
  <2>8. EarlierInv' /\ UndoInv'
    BY <1>1, <1>3, <1>4, <2>1 DEF EarlierInv, UndoInv
  <2>9. CarryInv'
    BY <1>1, <1>3, <2>1, <2>2 DEF CarryInv, Fresh, InPlace, RoutesIn
  <2> QED BY <1>5, <2>4, <2>5, <2>6, <2>7, <2>8, <2>9 DEF PlanInv
<1> QED BY <1>6, <1>7

LEMMA PlanFailsStep == PlanInv /\ plan_fails => PlanInv'
<1> SUFFICES ASSUME PlanInv, plan_fails PROVE PlanInv'
  OBVIOUS
<1>1. /\ phase = "plan" /\ phase' = "ended" /\ result' = "not_planned" /\ done' = done
      /\ intents' = intents /\ by' = by /\ at' = at /\ system' = system /\ stray' = stray
      /\ before' = before /\ undo_failed' = undo_failed /\ todo' = todo
  BY DEF plan_fails, Chosen
<1>2. Intent' = Intent /\ Planned /\ Planned'
  BY <1>1 DEF Intent, Planned
<1>3. ListInv'
  BY <1>1 DEF PlanInv, ListInv, OfPlan
<1>4. CallInv'
  BY <1>1 DEF PlanInv, CallInv
<1>5. OriginInv' /\ WholeInv'
  BY <1>1, <1>2 DEF PlanInv, OriginInv, WholeInv, OfPlan
<1>6. KeptInv' /\ EarlierInv' /\ UndoInv' /\ CarryInv'
  BY <1>1, <1>2 DEF PlanInv, KeptInv, EarlierInv, UndoInv, CarryInv
<1> QED BY <1>3, <1>4, <1>5, <1>6 DEF PlanInv

\* While a plan is run, and when it has stopped, a route is there only behind all it
\* leads into.
LEMMA Carried ==
  ASSUME NEW intent \in Intents, NEW d, Begins(d, intent), NEW there, NEW left, NEW earlier,
         there \ Loaded \subseteq earlier \cup left \cup FactsOf(d), FactsOf(d) \subseteq there,
         earlier \cap Needs(intent) = {}, RoutesIn(Needs(intent) \cap (there \ left)) # {}
  PROVE  Carriers(intent) \subseteq there
<1>1. PICK f \in Needs(intent) : f \in there /\ f \notin left /\ f[1] = "route"
  BY DEF RoutesIn
<1>2. f \notin Loaded
  BY NeedsApart
<1>3. f \in FactsOf(d)
  BY <1>1, <1>2
<1>4. RoutesIn(FactsOf(d)) # {}
  BY <1>1, <1>3 DEF RoutesIn
<1> QED BY <1>4, BeginsCarries

\* The plan goes on behind a command, whether it had an effect or VPP refused it.
LEMMA GoOnStep ==
  ASSUME PlanInv, phase = "run", todo # <<>>, GoOn, phase' = phase,
         system' \ Loaded = (system \ Loaded) \cup Lasting(Command), WholeInv',
         UNCHANGED <<Chosen, at, before, stray, undo_failed, result>>
  PROVE  PlanInv'
<1>1. /\ intents' = intents /\ by' = by /\ at' = at /\ before' = before /\ stray' = stray
      /\ undo_failed' = undo_failed /\ result' = result /\ phase' = "run"
      /\ todo' = Tail(todo) /\ done' = Append(done, Command)
  BY DEF Chosen, GoOn
<1>2. /\ Intent \in Intents /\ Begins(done, Intent) /\ Remains(todo, done, Intent)
  BY IntentsOfList DEF PlanInv, ListInv, Intent, OfPlan
<1>3. Intent' = Intent
  BY <1>1 DEF Intent
<1>4. Command = Head(todo)
  BY DEF Command
<1>5. /\ Command \in PlanCommands(Intent)
      /\ Begins(Append(done, Command), Intent)
      /\ Remains(Tail(todo), Append(done, Command), Intent)
      /\ FactsOf(Append(done, Command)) = FactsOf(done) \cup Lasting(Command)
  BY <1>2, <1>4, NextCommand
<1>6. Lasting(Command) \subseteq Needs(Intent) /\ Lasting(Command) \cap Loaded = {}
  BY <1>2, <1>5, CommandLasts
<1>7. /\ result = "none" /\ stray = {} /\ ~ undo_failed /\ ~ Planned /\ ~ Planned'
      /\ FactsOf(done) \cap Loaded = {}
  <2>1. FactsOf(done) \subseteq Needs(Intent)
    BY <1>2, BeginsFacts
  <2>2. FactsOf(done) \cap Loaded = {}
    BY <1>2, <2>1, NeedsApart
  <2> QED BY <1>1, <2>2 DEF PlanInv, CallInv, Planned
<1>8. ListInv'
  BY <1>1, <1>3, <1>5 DEF PlanInv, ListInv, OfPlan
<1>9. CallInv'
  BY <1>1, <1>7 DEF PlanInv, CallInv
<1>10. OriginInv'
  <2>1. system \ Loaded \subseteq before \cup stray \cup FactsOf(done)
    BY DEF PlanInv, OriginInv, OfPlan
  <2>2. system' \ Loaded \subseteq before' \cup stray' \cup FactsOf(done')
    BY <1>1, <1>5, <2>1
  <2>3. stray' \subseteq Needs(Intent')
    BY <1>1, <1>7
  <2>4. ASSUME NEW f \in system' \ Loaded
        PROVE  \E i \in 1 .. at' : f \in Needs(intents'[i]) /\ (by' = "script" => i = at')
    <3>1. CASE f \in system \ Loaded
      BY <1>1, <3>1 DEF PlanInv, OriginInv
    <3>2. CASE f \in Lasting(Command)
      <4>1. f \in Needs(intents[at]) /\ at \in 1 .. at
        BY <1>6, <3>2, IntentsOfList DEF Intent, PlanInv, ListInv
      <4> QED BY <1>1, <4>1
    <3> QED BY <3>1, <3>2
  <2> QED BY <1>7, <2>2, <2>3, <2>4 DEF OriginInv
<1>11. FactsOf(done') \subseteq system' /\ before' \ Loaded \subseteq system'
  BY <1>1, <1>5, <1>7 DEF PlanInv, KeptInv
<1>12. KeptInv'
  BY <1>1, <1>7, <1>11 DEF KeptInv
<1>13. EarlierInv'
  <2>1. SUFFICES ASSUME by = "apply" PROVE EarlierInv'
    BY <1>1 DEF EarlierInv
  <2>2. ASSUME NEW i \in 1 .. at - 1
        PROVE  Needs(intents[i]) \subseteq system' /\ Needs(intents[i]) \subseteq before
    <3>1. Needs(intents[i]) \subseteq system /\ Needs(intents[i]) \subseteq before
      BY <2>1 DEF PlanInv, EarlierInv
    <3>2. i \in 1 .. Len(intents) /\ intents \in IntentLists
      BY IntentsOfList DEF PlanInv, ListInv
    <3>3. Needs(intents[i]) \cap Loaded = {}
      BY <3>2, IntentsOfList, NeedsApart
    <3> QED BY <3>1, <3>3
  <2> QED BY <1>1, <2>2 DEF EarlierInv
<1>14. UndoInv'
  BY <1>1, <1>7 DEF UndoInv
<1>15. CarryInv'
  <2>1. SUFFICES ASSUME before \cap Needs(Intent) = {},
                        RoutesIn(Needs(Intent) \cap (system' \ stray)) # {}
                 PROVE  Carriers(Intent) \subseteq system'
    BY <1>1, <1>3 DEF CarryInv, Fresh, InPlace
  <2>2. system' \ Loaded \subseteq before \cup stray \cup FactsOf(done')
    BY <1>1, <1>10 DEF OriginInv, OfPlan
  <2> QED BY <1>1, <1>2, <1>5, <1>11, <2>1, <2>2, Carried
<1> QED BY <1>8, <1>9, <1>10, <1>12, <1>13, <1>14, <1>15 DEF PlanInv

\* A command ended with an error, after it had its effect or some of it.
LEMMA StopStep ==
  ASSUME PlanInv, phase = "run", Stop, WholeInv', stray' \subseteq Needs(Intent),
         system \ Loaded \subseteq system', system' \ Loaded \subseteq system \cup stray',
         UNCHANGED <<Chosen, at, before, undo_failed, result>>
  PROVE  PlanInv'
<1>1. /\ intents' = intents /\ by' = by /\ at' = at /\ before' = before
      /\ undo_failed' = undo_failed /\ result' = result /\ done' = done
  BY DEF Chosen, Stop
<1>2. /\ Intent \in Intents /\ Begins(done, Intent) /\ by \in {"apply", "script"}
      /\ at \in 1 .. Len(intents) /\ intents \in IntentLists
  BY IntentsOfList DEF PlanInv, ListInv, Intent, OfPlan
<1>3. Intent' = Intent
  BY <1>1 DEF Intent
<1>4. /\ by = "apply" => phase' = "undo" /\ todo' = Undo(done)
      /\ by = "script" => phase' = "stopped"
      /\ phase' \in {"undo", "stopped"}
  BY <1>2 DEF Stop
<1>5. /\ FactsOf(done) \subseteq RemovedBy(Undo(done)) /\ RoutesFirst(Undo(done))
      /\ Undo(done) \in Seq(PlanCommands(Intent))
      /\ \A c \in Elements(Undo(done)) : HasRollback(c)
  BY <1>2, BeginsRemoved
<1>6. /\ result = "none" /\ stray = {} /\ ~ undo_failed /\ ~ Planned /\ ~ Planned'
      /\ FactsOf(done) \cap Loaded = {}
      /\ by = "script" => before = {}
  <2>1. FactsOf(done) \subseteq Needs(Intent)
    BY <1>2, BeginsFacts
  <2>2. FactsOf(done) \cap Loaded = {}
    BY <1>2, <2>1, NeedsApart
  <2> QED BY <1>1, <1>4, <2>2 DEF PlanInv, CallInv, Planned
<1>7. ListInv'
  BY <1>1, <1>2, <1>3, <1>4, <1>5 DEF PlanInv, ListInv, OfPlan
<1>8. CallInv'
  BY <1>1, <1>2, <1>4, <1>6 DEF CallInv
<1>9. /\ system' \ Loaded \subseteq before \cup stray' \cup FactsOf(done)
      /\ FactsOf(done) \subseteq system' /\ before \ Loaded \subseteq system'
  <2>1. /\ system \ Loaded \subseteq before \cup FactsOf(done)
        /\ FactsOf(done) \subseteq system /\ before \ Loaded \subseteq system
    BY <1>6 DEF PlanInv, OriginInv, KeptInv, OfPlan
  <2> QED BY <1>6, <2>1
<1>10. OriginInv'
  <2>1. ASSUME NEW f \in system' \ Loaded
        PROVE  \E i \in 1 .. at' : f \in Needs(intents'[i]) /\ (by' = "script" => i = at')
    <3>1. CASE f \in system
      BY <1>1, <3>1 DEF PlanInv, OriginInv
    <3>2. CASE f \in stray'
      <4>1. f \in Needs(intents[at]) /\ at \in 1 .. at
        BY <1>2, <3>2, IntentsOfList DEF Intent
      <4> QED BY <1>1, <4>1
    <3> QED BY <3>1, <3>2
  <2> QED BY <1>1, <1>3, <1>6, <1>9, <2>1 DEF OriginInv
<1>11. KeptInv'
  BY <1>1, <1>4, <1>6, <1>9 DEF KeptInv
<1>12. EarlierInv'
  BY <1>1, <1>4, <1>6 DEF PlanInv, EarlierInv
<1>13. UndoInv'
  <2>1. by = "apply" => ((system' \ stray') \ Loaded) \ before \subseteq RemovedBy(todo')
    BY <1>4, <1>5, <1>9
  <2> QED BY <1>1, <1>2, <1>4, <1>6, <2>1 DEF UndoInv, InPlace
<1>14. CarryInv'
  <2>1. SUFFICES ASSUME before \cap Needs(Intent) = {},
                        RoutesIn(Needs(Intent) \cap (system' \ stray')) # {}
                 PROVE  Carriers(Intent) \subseteq system'
    BY <1>1, <1>3 DEF CarryInv, Fresh, InPlace
  <2> QED BY <1>2, <1>9, <2>1, Carried
<1> QED BY <1>7, <1>8, <1>10, <1>11, <1>12, <1>13, <1>14 DEF PlanInv

LEMMA WholeAfter ==
  ASSUME WholeInv, NEW intent \in Intents, NEW c \in PlanCommands(intent), Accepts(c),
         system' = After(c)
  PROVE  WholeInv'
<1>1. \A t : <<"create", t>> \in system => <<"create", t>> \in system'
  BY DEF After, Loaded
<1>2. c.op \in {"load", "initiate", "create", "address", "up", "block_out", "block_in", "route"}
  BY PlanKinds
<1>3. /\ c.op = "load" => Adds(c) = {<<"load", t>> : t \in Connections(c.on)}
      /\ c.op # "load" => Adds(c) = {<<c.op, c.on>>}
      /\ system' \subseteq system \cup Adds(c)
  BY DEF After, Adds, Fact
<1>4. SUFFICES ASSUME NEW t, NEW o \in {"address", "up"}, <<o, t>> \in system'
               PROVE  <<"create", t>> \in system'
  BY DEF WholeInv
<1>5. CASE <<o, t>> \in system
  BY <1>1, <1>5 DEF WholeInv
<1>6. CASE <<o, t>> \in Adds(c)
  <2>1. c.op = o /\ c.on = t
    BY <1>3, <1>6
  <2>2. <<"create", t>> \in system
    BY <2>1 DEF Accepts
  <2> QED BY <1>1, <2>2
<1> QED BY <1>3, <1>4, <1>5, <1>6

LEMMA RunStep == PlanInv /\ run_command => PlanInv'
<1> SUFFICES ASSUME PlanInv, run_command PROVE PlanInv'
  OBVIOUS
<1>1. /\ phase = "run" /\ todo # <<>>
      /\ UNCHANGED <<Chosen, at, before, stray, undo_failed, result>>
  BY DEF run_command
<1>2. /\ Intent \in Intents /\ Begins(done, Intent) /\ Remains(todo, done, Intent)
  BY <1>1, IntentsOfList DEF PlanInv, ListInv, Intent, OfPlan
<1>3. PICK c : c = Command
  OBVIOUS
<1>4. /\ c \in PlanCommands(Intent) /\ Len(done) + 1 <= Len(Plan(Intent))
      /\ c = Plan(Intent)[Len(done) + 1]
  BY <1>1, <1>2, <1>3, NextCommand DEF Command
<1>5. WholeInv /\ stray = {} /\ FactsOf(done) \subseteq system
  BY <1>1 DEF PlanInv, CallInv, KeptInv
<1>6. CASE Accepts(c) /\ system' = After(c) /\ phase' = phase /\ GoOn
  <2>1. WholeInv'
    BY <1>2, <1>4, <1>5, <1>6, WholeAfter
  <2>2. system' \ Loaded = (system \ Loaded) \cup Lasting(c)
    BY <1>2, <1>4, <1>6, CommandLasts
  <2> QED BY <1>1, <1>3, <1>6, <2>1, <2>2, GoOnStep
<1>7. CASE ~ Accepts(c) /\ system' = system /\ ByVppctl(c) /\ phase' = phase /\ GoOn
  <2>1. WholeInv'
    BY <1>5, <1>7 DEF WholeInv
  <2>2. c.op \in {"create", "address", "up", "route"}
    BY <1>7 DEF ByVppctl
  <2>3. /\ c.op \in {"address", "up"} => <<"create", c.on>> \in system
        /\ c.op = "route" /\ c.on[2] # NoTunnel => <<"create", c.on[2]>> \in system
    BY <1>2, <1>4, <1>5, BeginsSupplies
  <2>4. c.op = "create" /\ Fact(c) \in system
    BY <1>7, <2>2, <2>3 DEF Accepts
  <2>5. Lasting(c) = {Fact(c)} /\ Lasting(c) \cap Loaded = {}
    BY <1>2, <1>4, <2>4, CommandLasts DEF Lasting
  <2>6. system' \ Loaded = (system \ Loaded) \cup Lasting(c)
    BY <1>7, <2>4, <2>5
  <2> QED BY <1>1, <1>3, <1>7, <2>1, <2>6, GoOnStep
<1>8. CASE system' = system /\ Stop
  <2>1. WholeInv' /\ stray' \subseteq Needs(Intent)
    BY <1>1, <1>5, <1>8 DEF WholeInv
  <2> QED BY <1>1, <1>8, <2>1, StopStep
<1> QED BY <1>3, <1>6, <1>7, <1>8 DEF run_command

LEMMA RunFailsStep == PlanInv /\ run_command_fails => PlanInv'
<1> SUFFICES ASSUME PlanInv, run_command_fails PROVE PlanInv'
  OBVIOUS
<1>1. /\ phase = "run" /\ todo # <<>> /\ Stop
      /\ UNCHANGED <<Chosen, at, before, undo_failed, result>>
  BY DEF run_command_fails
<1>2. /\ Intent \in Intents /\ Begins(done, Intent) /\ Remains(todo, done, Intent)
  BY <1>1, IntentsOfList DEF PlanInv, ListInv, Intent, OfPlan
<1>3. PICK c : c = Command
  OBVIOUS
<1>4. c \in PlanCommands(Intent)
  BY <1>1, <1>2, <1>3, NextCommand DEF Command
<1>5. WholeInv /\ stray = {}
  BY <1>1 DEF PlanInv, CallInv
<1>6. CASE system' = system /\ stray' = stray
  <2>1. WholeInv' /\ stray' \subseteq Needs(Intent)
    BY <1>5, <1>6 DEF WholeInv
  <2> QED BY <1>1, <1>6, <2>1, StopStep
<1>7. CASE Accepts(c) /\ system' = After(c) /\ stray' = stray \cup (Adds(c) \ Loaded)
  <2>1. /\ system' \ Loaded = (system \ Loaded) \cup Lasting(c)
        /\ stray' = Lasting(c) /\ Lasting(c) \subseteq Needs(Intent)
    BY <1>2, <1>4, <1>5, <1>7, CommandLasts
  <2>2. WholeInv'
    BY <1>2, <1>4, <1>5, <1>7, WholeAfter
  <2>3. system \ Loaded \subseteq system' /\ system' \ Loaded \subseteq system \cup stray'
    BY <2>1
  <2> QED BY <1>1, <2>1, <2>2, <2>3, StopStep
<1> QED BY <1>3, <1>6, <1>7 DEF run_command_fails

LEMMA RunCompletesStep == PlanInv /\ run_completes => PlanInv'
<1> SUFFICES ASSUME PlanInv, run_completes PROVE PlanInv'
  OBVIOUS
<1>1. /\ phase = "run" /\ todo = <<>> /\ intents' = intents /\ by' = by /\ todo' = todo
      /\ done' = done /\ system' = system /\ before' = before /\ stray' = stray
      /\ undo_failed' = undo_failed /\ result' = result
  BY DEF run_completes, Chosen
<1>2. /\ intents \in IntentLists /\ at \in 1 .. Len(intents) /\ Len(intents) \in Nat
      /\ Intent \in Intents /\ by \in {"apply", "script"} /\ undo_failed \in BOOLEAN
      /\ Begins(done, Intent) /\ Remains(todo, done, Intent)
  BY <1>1, IntentsOfList DEF PlanInv, ListInv, Intent, OfPlan
<1>3. /\ stray = {} /\ ~ undo_failed /\ result = "none" /\ ~ Planned
      /\ by = "script" => before = {}
  BY <1>1 DEF PlanInv, CallInv, Planned
<1>4. Needs(Intent) \subseteq system
  <2>1. Len(todo) = 0
    BY <1>1
  <2>2. Len(done) = Len(Plan(Intent))
    BY <1>2, <2>1, PlanList DEF Remains, Begins
  <2>3. Needs(Intent) \subseteq FactsOf(done)
    BY <1>2, <2>2, AllOfIt
  <2> QED BY <1>1, <2>3 DEF PlanInv, KeptInv
<1>5. /\ \A f \in system \ Loaded :
           \E i \in 1 .. at : f \in Needs(intents[i]) /\ (by = "script" => i = at)
      /\ system \ Loaded \subseteq before \cup stray \cup FactsOf(done)
  BY <1>1 DEF PlanInv, OriginInv, OfPlan
<1>6. WholeInv'
  BY <1>1 DEF PlanInv, WholeInv
<1>7. CASE by = "apply" /\ MoreIntents
  <2>1. phase' = "plan" /\ at' = at + 1 /\ at' \in 1 .. Len(intents)
    BY <1>2, <1>7 DEF run_completes, MoreIntents
  <2>2. ListInv'
    BY <1>1, <1>2, <2>1 DEF ListInv, OfPlan
  <2>3. CallInv'
    BY <1>1, <1>3, <1>7, <2>1 DEF CallInv
  <2>4. OriginInv'
    <3>1. ASSUME NEW f \in system \ Loaded
          PROVE  \E i \in 1 .. at' : f \in Needs(intents[i]) /\ i < at'
      <4>1. PICK i \in 1 .. at : f \in Needs(intents[i])
        BY <1>5
      <4>2. i \in 1 .. at' /\ i < at'
        BY <1>2, <2>1
      <4> QED BY <4>1, <4>2
    <3> QED BY <1>1, <1>3, <1>7, <2>1, <3>1 DEF OriginInv, OfPlan
  <2>5. EarlierInv'
    <3>1. ASSUME NEW i \in 1 .. at' - 1 PROVE Needs(intents'[i]) \subseteq system'
      <4>1. i \in 1 .. at - 1 \/ i = at
        BY <1>2, <2>1
      <4> QED BY <1>1, <1>4, <1>7, <4>1 DEF PlanInv, EarlierInv, Intent
    <3> QED BY <1>1, <1>3, <2>1, <3>1 DEF EarlierInv
  <2>6. KeptInv' /\ UndoInv' /\ CarryInv'
    BY <1>1, <1>3, <2>1 DEF KeptInv, UndoInv, CarryInv, Planned
  <2> QED BY <1>6, <2>2, <2>3, <2>4, <2>5, <2>6 DEF PlanInv
<1>8. CASE ~ (by = "apply" /\ MoreIntents)
  <2>1. /\ by = "apply" => phase' = "ended"
        /\ by = "script" => phase' = "stopped"
        /\ phase' \in {"ended", "stopped"} /\ at' = at
    BY <1>2, <1>8 DEF run_completes
  <2>2. Intent' = Intent
    BY <1>1, <2>1 DEF Intent
  <2>3. ~ Planned'
    BY <1>1, <1>3, <2>1 DEF Planned
  <2>4. ListInv'
    BY <1>1, <1>2, <2>1, <2>2 DEF ListInv, OfPlan
  <2>5. CallInv'
    BY <1>1, <1>2, <1>3, <2>1 DEF CallInv
  <2>6. OriginInv'
    BY <1>1, <1>3, <1>5, <2>1, <2>3 DEF OriginInv
  <2>7. KeptInv'
    BY <1>1, <1>3, <2>1 DEF PlanInv, KeptInv
  <2>8. EarlierInv'
    BY <1>1, <1>3, <1>4, <2>1, <2>2 DEF PlanInv, EarlierInv
  <2>9. UndoInv'
    BY <1>1, <1>3, <2>1 DEF UndoInv
  <2>10. CarryInv'
    BY <1>1, <1>3, <2>2, <2>3 DEF PlanInv, CarryInv, Fresh, InPlace
  <2> QED BY <1>6, <2>4, <2>5, <2>6, <2>7, <2>8, <2>9, <2>10 DEF PlanInv
<1> QED BY <1>7, <1>8

\* A command of an undo, or of the list of rollback commands: it takes away what it is
\* for or leaves all as it was.
LEMMA TakeBackStep ==
  ASSUME PlanInv, phase \in {"undo", "manual"}, todo # <<>>, NEW c, c = Head(todo),
         todo' = Tail(todo), UNCHANGED <<Chosen, phase, at, done, before, stray, result>>,
         system' = system \/ system' = system \ Removed(c),
         undo_failed' \in BOOLEAN, undo_failed => undo_failed',
         undo_failed' \/ system' \cap Removed(c) = {}
  PROVE  PlanInv'
<1>1. /\ intents' = intents /\ by' = by /\ phase' = phase /\ at' = at /\ done' = done
      /\ before' = before /\ stray' = stray /\ result' = result
  BY DEF Chosen
<1>2. /\ intents \in IntentLists /\ at \in 1 .. Len(intents) /\ by \in {"apply", "script"}
      /\ Intent \in Intents /\ Begins(done, Intent)
      /\ todo \in Seq(PlanCommands(Intent)) /\ RoutesFirst(todo)
      /\ \A d \in Elements(todo) : HasRollback(d)
  BY IntentsOfList DEF PlanInv, ListInv, Intent, OfPlan
<1>3. Intent' = Intent
  BY <1>1 DEF Intent
<1>4. /\ RemovedBy(todo) = Removed(c) \cup RemovedBy(Tail(todo))
      /\ c \in Elements(todo) /\ Elements(Tail(todo)) \subseteq Elements(todo)
      /\ Tail(todo) \in Seq(PlanCommands(Intent))
      /\ RoutesFirst(Tail(todo)) /\ (c.op # "route" => NoRoute(todo))
      /\ c \in PlanCommands(Intent)
  BY <1>2, TailRemoved, TailRoutesFirst, TailElements
<1>5. HasRollback(c) /\ Removed(c) \subseteq Needs(Intent) /\ Needs(Intent) \cap Loaded = {}
  BY <1>2, <1>4, RemovedNeeded, NeedsApart
<1>6. result = "none" /\ ~ Planned /\ ~ Planned'
  BY <1>1 DEF PlanInv, CallInv, Planned
<1>7. system' \subseteq system /\ system \subseteq system' \cup Removed(c)
  OBVIOUS
<1>8. ListInv'
  <2>1. \A d \in Elements(Tail(todo)) : HasRollback(d)
    BY <1>2, <1>4
  <2>2. undo_failed' \in BOOLEAN
    OBVIOUS
  <2> QED BY <1>1, <1>2, <1>3, <1>4, <2>1, <2>2 DEF ListInv, OfPlan
<1>9. CallInv'
  BY <1>1, <1>6 DEF PlanInv, CallInv
<1>10. OriginInv'
  BY <1>1, <1>3, <1>6, <1>7 DEF PlanInv, OriginInv
<1>11. WholeInv'
  <2>1. ASSUME NEW t, NEW o \in {"address", "up"}, <<o, t>> \in system'
        PROVE  <<"create", t>> \in system'
    <3>1. <<"create", t>> \in system
      BY <1>7, <2>1 DEF PlanInv, WholeInv
    <3>2. <<"create", t>> \in Removed(c) => <<o, t>> \in Removed(c)
      BY DEF Removed, Fact
    <3> QED BY <2>1, <3>1, <3>2
  <2> QED BY <2>1 DEF WholeInv
<1>12. Fresh /\ phase = "undo" => before \ Loaded \subseteq system'
  BY <1>5, <1>7 DEF PlanInv, KeptInv, Fresh
<1>13. KeptInv'
  BY <1>1, <1>3, <1>6, <1>12 DEF KeptInv, Fresh
<1>14. EarlierInv'
  BY <1>1, <1>6 DEF PlanInv, EarlierInv
<1>15. UndoInv'
  <2>1. ASSUME ~ undo_failed' PROVE ~ undo_failed /\ system' \cap Removed(c) = {}
    BY <2>1
  <2>2. ASSUME phase = "undo", Fresh, ~ undo_failed'
        PROVE  ((system' \ stray) \ Loaded) \ before \subseteq RemovedBy(todo')
    BY <1>4, <1>7, <2>1, <2>2 DEF PlanInv, UndoInv, InPlace
  <2>3. ASSUME phase = "manual", ~ undo_failed'
        PROVE  system' \ Loaded \subseteq RemovedBy(todo')
    BY <1>4, <1>7, <2>1, <2>3 DEF PlanInv, UndoInv
  <2> QED BY <1>1, <1>3, <1>6, <2>2, <2>3 DEF UndoInv, InPlace, Fresh
<1>16. CarryInv'
  <2>1. SUFFICES ASSUME ~ undo_failed', before \cap Needs(Intent) = {},
                        RoutesIn(Needs(Intent) \cap (system' \ stray)) # {}
                 PROVE  Carriers(Intent) \subseteq system'
    BY <1>1, <1>3 DEF CarryInv, Fresh, InPlace
  <2>2. PICK f \in Needs(Intent) : f \in system' /\ f \notin stray /\ f[1] = "route"
    BY <2>1 DEF RoutesIn
  <2>3. f \in system /\ f \notin Loaded /\ f \notin before
    BY <1>5, <1>7, <2>1, <2>2
  <2>4. Carriers(Intent) \subseteq system
    BY <1>6, <2>1, <2>2, <2>3 DEF PlanInv, CarryInv, Fresh, InPlace, RoutesIn
  <2>5. f \in RemovedBy(todo)
    BY <2>1, <2>2, <2>3 DEF PlanInv, UndoInv, Fresh, InPlace
  <2>6. c.op = "route"
    BY <1>4, <2>2, <2>5, NoRouteRemoved
  <2>7. Removed(c) = {Fact(c)} /\ Fact(c)[1] = "route"
    BY <2>6 DEF Removed, Fact
  <2>8. Removed(c) \cap Carriers(Intent) = {}
    BY <2>7 DEF Carriers, RoutesIn
  <2> QED BY <1>7, <2>4, <2>8
<1> QED BY <1>8, <1>9, <1>10, <1>11, <1>13, <1>14, <1>15, <1>16 DEF PlanInv

LEMMA UndoStep == PlanInv /\ undo_command => PlanInv'
<1> SUFFICES ASSUME PlanInv, undo_command PROVE PlanInv'
  OBVIOUS
<1>1. /\ phase \in {"undo", "manual"} /\ todo # <<>> /\ todo' = Tail(todo)
      /\ UNCHANGED <<Chosen, phase, at, done, before, stray, result>>
  BY DEF undo_command
<1>2. /\ Intent \in Intents /\ todo \in Seq(PlanCommands(Intent)) /\ undo_failed \in BOOLEAN
      /\ \A d \in Elements(todo) : HasRollback(d)
  BY <1>1, IntentsOfList DEF PlanInv, ListInv, Intent
<1>3. PICK c : c = Head(todo)
  OBVIOUS
<1>4. c \in PlanCommands(Intent) /\ HasRollback(c)
  BY <1>1, <1>2, <1>3, TailElements
<1>5. /\ Removed(c) \subseteq Needs(Intent) /\ Fact(c) \in Removed(c)
      /\ AfterUndo(c) = system \ Removed(c)
  BY <1>2, <1>4, RemovedNeeded
<1>6. /\ system' = IF Fact(c) \in system THEN AfterUndo(c) ELSE system
      /\ undo_failed' \in BOOLEAN /\ (undo_failed => undo_failed')
  BY <1>3, Zenon DEF undo_command, Command
<1>7. CASE Fact(c) \in system
  <2>1. system' = system \ Removed(c)
    BY <1>5, <1>6, <1>7
  <2> QED BY <1>1, <1>3, <1>6, <2>1, TakeBackStep
<1>8. CASE Fact(c) \notin system
  <2>1. system' = system
    BY <1>6, <1>8
  <2>2. system \cap Removed(c) = {}
    <3>1. CASE c.op = "create"
      BY <1>8, <3>1 DEF Removed, Fact, PlanInv, WholeInv
    <3>2. CASE c.op # "create"
      BY <1>8, <3>2 DEF Removed
    <3> QED BY <3>1, <3>2
  <2> QED BY <1>1, <1>3, <1>6, <2>1, <2>2, TakeBackStep
<1> QED BY <1>7, <1>8

LEMMA UndoFailsStep == PlanInv /\ undo_command_fails => PlanInv'
<1> SUFFICES ASSUME PlanInv, undo_command_fails PROVE PlanInv'
  OBVIOUS
<1>1. /\ phase \in {"undo", "manual"} /\ todo # <<>> /\ todo' = Tail(todo)
      /\ UNCHANGED <<Chosen, phase, at, done, before, stray, result>>
      /\ system' \in {system, AfterUndo(Command)}
  BY DEF undo_command_fails
<1>2. /\ Intent \in Intents /\ todo \in Seq(PlanCommands(Intent))
      /\ \A d \in Elements(todo) : HasRollback(d)
  BY <1>1, IntentsOfList DEF PlanInv, ListInv, Intent
<1>3. PICK c : c = Head(todo)
  OBVIOUS
<1>4. c \in PlanCommands(Intent) /\ HasRollback(c)
  BY <1>1, <1>2, <1>3, TailElements
<1>5. AfterUndo(c) = system \ Removed(c)
  BY <1>2, <1>4, RemovedNeeded
<1>6. system' = system \/ system' = system \ Removed(c)
  BY <1>1, <1>3, <1>5 DEF Command
<1>7. undo_failed' \in BOOLEAN /\ undo_failed'
  BY Zenon DEF undo_command_fails
<1> QED BY <1>1, <1>3, <1>6, <1>7, TakeBackStep

LEMMA UndoCompletesStep == PlanInv /\ undo_completes => PlanInv'
<1> SUFFICES ASSUME PlanInv, undo_completes PROVE PlanInv'
  OBVIOUS
<1>1. /\ phase = "undo" /\ todo = <<>> /\ phase' = "ended" /\ intents' = intents /\ by' = by
      /\ at' = at /\ done' = done /\ system' = system /\ before' = before /\ stray' = stray
      /\ undo_failed' = undo_failed /\ todo' = todo
  BY DEF undo_completes, Chosen
<1>2. result' = IF undo_failed THEN "rollback_failed" ELSE "conflict"
  BY DEF undo_completes
<1>3. Intent' = Intent
  BY <1>1 DEF Intent
<1>4. by = "apply" /\ undo_failed \in BOOLEAN /\ result = "none" /\ ~ Planned /\ ~ Planned'
  BY <1>1, <1>2 DEF PlanInv, CallInv, ListInv, Planned
<1>5. ListInv'
  BY <1>1, <1>3 DEF PlanInv, ListInv, OfPlan
<1>6. CallInv'
  BY <1>1, <1>2, <1>4 DEF PlanInv, CallInv
<1>7. OriginInv' /\ WholeInv'
  BY <1>1, <1>3, <1>4 DEF PlanInv, OriginInv, WholeInv, OfPlan
<1>8. KeptInv'
  BY <1>1, <1>2, <1>3 DEF PlanInv, KeptInv, Fresh
<1>9. EarlierInv'
  BY <1>1, <1>2 DEF PlanInv, EarlierInv
<1>10. UndoInv'
  <2>1. RemovedBy(todo) = {}
    BY <1>1 DEF RemovedBy, Elements
  <2>2. Fresh /\ ~ undo_failed => InPlace \ Loaded \subseteq before
    BY <1>1, <2>1 DEF PlanInv, UndoInv
  <2> QED BY <1>1, <1>2, <1>3, <2>2 DEF UndoInv, InPlace, Fresh
<1>11. CarryInv'
  BY <1>1, <1>3, <1>4 DEF PlanInv, CarryInv, Fresh, InPlace
<1> QED BY <1>5, <1>6, <1>7, <1>8, <1>9, <1>10, <1>11 DEF PlanInv

LEMMA OperatorStep == PlanInv /\ operator => PlanInv'
<1> SUFFICES ASSUME PlanInv, operator PROVE PlanInv'
  OBVIOUS
<1>1. /\ phase = "stopped" /\ intents' = intents /\ by' = by
      /\ at' = at /\ done' = done /\ system' = system /\ before' = before /\ stray' = stray
      /\ undo_failed' = undo_failed /\ result' = result
      /\ phase' = "ended" \/ (phase' = "manual" /\ todo' = RollbackCommands(Intent))
  BY DEF operator, Chosen
<1>2. /\ intents \in IntentLists /\ at \in 1 .. Len(intents) /\ Intent \in Intents
      /\ Begins(done, Intent) /\ undo_failed \in BOOLEAN
  BY <1>1, IntentsOfList DEF PlanInv, ListInv, Intent, OfPlan
<1>3. Intent' = Intent
  BY <1>1 DEF Intent
<1>4. by = "script" /\ before = {} /\ ~ undo_failed /\ result = "none" /\ ~ Planned /\ ~ Planned'
  BY <1>1 DEF PlanInv, CallInv, Planned
<1>5. /\ RollbackCommands(Intent) \in Seq(PlanCommands(Intent))
      /\ RoutesFirst(RollbackCommands(Intent))
      /\ \A c \in Elements(RollbackCommands(Intent)) : HasRollback(c)
      /\ Needs(Intent) \subseteq RemovedBy(RollbackCommands(Intent))
  BY <1>2, RollbackList, RollbackRemoves
<1>6. ListInv'
  BY <1>1, <1>2, <1>3, <1>5 DEF PlanInv, ListInv, OfPlan
<1>7. CallInv'
  BY <1>1, <1>4 DEF PlanInv, CallInv
<1>8. OriginInv' /\ WholeInv'
  BY <1>1, <1>3, <1>4 DEF PlanInv, OriginInv, WholeInv, OfPlan
<1>9. KeptInv' /\ EarlierInv'
  BY <1>1, <1>4 DEF KeptInv, EarlierInv
<1>10. UndoInv'
  <2>1. FactsOf(done) \subseteq Needs(Intent) /\ stray \subseteq Needs(Intent)
    BY <1>2, BeginsFacts DEF PlanInv, OriginInv
  <2>2. system \ Loaded \subseteq Needs(Intent)
    BY <1>1, <1>4, <2>1 DEF PlanInv, OriginInv, OfPlan
  <2> QED BY <1>1, <1>4, <1>5, <2>2 DEF UndoInv
<1>11. CarryInv'
  BY <1>1, <1>3, <1>4 DEF PlanInv, CarryInv, Fresh, InPlace
<1> QED BY <1>6, <1>7, <1>8, <1>9, <1>10, <1>11 DEF PlanInv

LEMMA ManualCompletesStep == PlanInv /\ manual_completes => PlanInv'
<1> SUFFICES ASSUME PlanInv, manual_completes PROVE PlanInv'
  OBVIOUS
<1>1. /\ phase = "manual" /\ todo = <<>> /\ phase' = "ended" /\ result' = "rolled_back"
      /\ intents' = intents /\ by' = by /\ at' = at /\ done' = done /\ system' = system
      /\ before' = before /\ stray' = stray /\ undo_failed' = undo_failed /\ todo' = todo
  BY DEF manual_completes, Chosen
<1>2. Intent' = Intent
  BY <1>1 DEF Intent
<1>3. by = "script" /\ undo_failed \in BOOLEAN /\ ~ Planned /\ ~ Planned'
  BY <1>1 DEF PlanInv, CallInv, ListInv, Planned
<1>4. ListInv'
  BY <1>1, <1>2 DEF PlanInv, ListInv, OfPlan
<1>5. CallInv'
  BY <1>1, <1>3 DEF PlanInv, CallInv
<1>6. OriginInv' /\ WholeInv'
  BY <1>1, <1>2, <1>3 DEF PlanInv, OriginInv, WholeInv, OfPlan
<1>7. KeptInv' /\ EarlierInv'
  BY <1>1, <1>3 DEF KeptInv, EarlierInv
<1>8. UndoInv'
  <2>1. RemovedBy(todo) = {}
    BY <1>1 DEF RemovedBy, Elements
  <2> QED BY <1>1, <2>1 DEF PlanInv, UndoInv
<1>9. CarryInv'
  BY <1>1, <1>2, <1>3 DEF PlanInv, CarryInv, Fresh, InPlace
<1> QED BY <1>4, <1>5, <1>6, <1>7, <1>8, <1>9 DEF PlanInv

LEMMA PlanInvStep == PlanInv /\ [PlanNext]_pvars => PlanInv'
<1> SUFFICES ASSUME PlanInv, [PlanNext]_pvars PROVE PlanInv'
  OBVIOUS
<1>1. CASE PlanNext
  BY <1>1, PlanStep, PlanFailsStep, RunStep, RunFailsStep, RunCompletesStep, UndoStep,
     UndoFailsStep, UndoCompletesStep, OperatorStep, ManualCompletesStep DEF PlanNext
<1>2. CASE UNCHANGED pvars
  <2>1. /\ intents' = intents /\ by' = by /\ phase' = phase /\ at' = at /\ todo' = todo
        /\ done' = done /\ system' = system /\ before' = before /\ stray' = stray
        /\ undo_failed' = undo_failed /\ result' = result
    BY <1>2 DEF pvars
  <2>2. /\ Intent' = Intent /\ Planned' = Planned /\ Fresh' = Fresh /\ InPlace' = InPlace
    BY <2>1 DEF Intent, Planned, Fresh, InPlace
  <2>3. ListInv' /\ CallInv' /\ OriginInv' /\ WholeInv'
    BY <2>1, <2>2 DEF PlanInv, ListInv, CallInv, OriginInv, WholeInv
  <2>4. KeptInv' /\ EarlierInv' /\ UndoInv' /\ CarryInv'
    BY <2>1, <2>2 DEF PlanInv, KeptInv, EarlierInv, UndoInv, CarryInv
  <2> QED BY <2>3, <2>4 DEF PlanInv
<1> QED BY <1>1, <1>2

LEMMA PlanInvariant == PlanSpec => []PlanInv
BY PlanInvAtFirst, PlanInvStep, PTL DEF PlanSpec

-----------------------------------------------------------------------------
(* What is shown.                                                          *)

\* Every intent whose plan completed is in place, whatever other intents of the
\* configuration have in common with it and however often VPP refused a command that
\* vppctl reported as done: when en_apply_plan_run ends, and while --apply plans and
\* runs the next ones, all SAs, tunnels, policies and routes of it are there.
THEOREM PlanCompletedInPlace == PlanSpec => []CompletedInPlace
<1>1. PlanInv => CompletedInPlace
  <2> SUFFICES ASSUME PlanInv, by = "apply",
                      phase \in {"plan", "run"} \/ (phase = "ended" /\ result = "none"),
                      NEW i \in 1 .. (IF phase = "ended" THEN at ELSE at - 1)
               PROVE  Needs(intents[i]) \subseteq system
    BY DEF CompletedInPlace
  <2>1. at \in Nat
    BY IntentsOfList DEF PlanInv, ListInv
  <2>2. i \in 1 .. at - 1 \/ (phase = "ended" /\ result = "none" /\ i = at)
    BY <2>1
  <2>3. /\ \A k \in 1 .. at - 1 : Needs(intents[k]) \subseteq system
        /\ phase = "ended" /\ result = "none" => Needs(intents[at]) \subseteq system
    BY DEF PlanInv, EarlierInv, Intent
  <2> QED BY <2>2, <2>3
<1> QED BY <1>1, PlanInvariant, PTL

\* A plan that failed and reports EN_ERR_CONFLICT, all of its undo commands having
\* ended without an error, leaves what was in place before as it was and nothing of
\* its own that was there by a command that succeeded, for an intent that has nothing
\* in common with what was there (the undo in en_apply_plan_run).
THEOREM PlanUndoneLeavesNothing == PlanSpec => []UndoneLeavesNothing
<1>1. PlanInv => UndoneLeavesNothing
  <2> SUFFICES ASSUME PlanInv, result = "conflict", Fresh
               PROVE  InPlace \ Loaded = before \ Loaded
    BY DEF UndoneLeavesNothing
  <2>1. InPlace \ Loaded \subseteq before
    BY DEF PlanInv, UndoInv
  <2>2. before \ Loaded \subseteq system
    BY DEF PlanInv, KeptInv
  <2>3. stray \cap before = {}
    BY DEF PlanInv, OriginInv, Fresh
  <2> QED BY <2>1, <2>2, <2>3 DEF InPlace
<1> QED BY <1>1, PlanInvariant, PTL

\* The rollback commands that come with a script leave nothing but connections loaded,
\* wherever the script stopped and whatever the failing command did, unless one of
\* them fails itself (rollback_commands).
THEOREM PlanScriptTakenBack == PlanSpec => []ScriptTakenBack
<1>1. PlanInv => ScriptTakenBack
  BY DEF PlanInv, UndoInv, ScriptTakenBack
<1> QED BY <1>1, PlanInvariant, PTL

\* A route that no other intent has is there, while a plan is run or taken back and
\* when it has ended, only with the SAs, tunnels and policies it leads into: the routes
\* are the last commands of a plan and the first of its undo and of the rollback
\* commands.  It is said for runs in which no undo command failed and the intent under
\* way has nothing in common with what was in place before.
THEOREM PlanRouteIsCarried == PlanSpec => []RouteIsCarried
<1>1. PlanInv => RouteIsCarried
  <2> SUFFICES ASSUME PlanInv, ~ undo_failed, Fresh, NEW i \in DOMAIN intents, OwnRoutes(i),
                      RoutesIn(Needs(intents[i]) \cap InPlace) # {}
               PROVE  Needs(intents[i]) \ RoutesIn(Needs(intents[i])) \subseteq system
    BY DEF RouteIsCarried
  <2>1. PICK f \in Needs(intents[i]) : f \in system /\ f \notin stray /\ f[1] = "route"
    BY DEF RoutesIn, InPlace
  <2>2. /\ intents \in IntentLists /\ at \in 1 .. Len(intents) /\ Len(intents) \in Nat
        /\ DOMAIN intents = 1 .. Len(intents) /\ by \in {"apply", "script"}
    <3>1. intents \in Seq(Intents)
      BY PlanAssumption DEF PlanInv, ListInv, Intents
    <3> QED BY <3>1 DEF PlanInv, ListInv
  <2>3. f \notin Loaded /\ Needs(intents[i]) \cap Loaded = {}
    BY <2>1, <2>2, IntentsOfList, NeedsApart
  <2>4. PICK j \in 1 .. at : /\ f \in Needs(intents[j])
                             /\ Planned => j < at
                             /\ by = "script" => j = at
    BY <2>1, <2>3 DEF PlanInv, OriginInv
  <2>5. j = i
    <3>1. j \in DOMAIN intents
      BY <2>2
    <3>2. f \in RoutesIn(Needs(intents[i])) \cap RoutesIn(Needs(intents[j]))
      BY <2>1, <2>4 DEF RoutesIn
    <3> QED BY <3>1, <3>2 DEF OwnRoutes
  <2>6. CASE i = at
    <3>1. ~ Planned
      BY <2>2, <2>4, <2>5, <2>6
    <3> QED BY <2>6, <3>1 DEF PlanInv, CarryInv, Carriers, Intent
  <2>7. CASE i # at
    <3>1. by = "apply" /\ i \in 1 .. at - 1
      BY <2>2, <2>4, <2>5, <2>7
    <3>2. Needs(intents[i]) \subseteq system \/ Needs(intents[i]) \subseteq before
      <4>1. \/ phase \in {"plan", "run", "undo"}
            \/ phase = "ended" /\ result \in {"none", "conflict", "not_planned"}
        BY <3>1 DEF PlanInv, CallInv, ListInv, OfPlan
      <4> QED BY <3>1, <4>1 DEF PlanInv, EarlierInv
    <3>3. CASE Needs(intents[i]) \subseteq system
      BY <3>3
    <3>4. CASE ~ (Needs(intents[i]) \subseteq system)
      <4>1. /\ phase = "undo" \/ result = "conflict"
            /\ Needs(intents[i]) \subseteq before
        BY <3>1, <3>2, <3>4 DEF PlanInv, EarlierInv, CallInv, ListInv, OfPlan
      <4>2. before \ Loaded \subseteq system
        BY <4>1 DEF PlanInv, KeptInv
      <4> QED BY <2>3, <4>1, <4>2
    <3> QED BY <3>3, <3>4
  <2> QED BY <2>6, <2>7
<1> QED BY <1>1, PlanInvariant, PTL

=============================================================================
