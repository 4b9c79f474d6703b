--------------------------- MODULE MapperProofs ---------------------------
(***************************************************************************)
(* Proofs about the mapper, for any number of namespaces, interfaces,      *)
(* tables and routes.                                                      *)
(***************************************************************************)
EXTENDS Mapper, TLAPS

\* The mapping of an interface, of which None is not an interface of VPP.
LEMMA MappingType ==
  ASSUME TypeOK, NEW i \in NsIdx, NEW x \in IfIdx
  PROVE  /\ mappings[i][x] \in SwIfs \cup {None}
         /\ mappings[i][x] # None => mappings[i][x] \in SwIfs
  BY DEF TypeOK

\* The paths of some routes are paths, and come from one of the routes each.
LEMMA PathOf ==
  ASSUME TypeOK, NEW i \in NsIdx, NEW R \in SUBSET Routes, NEW p \in Paths(i, R)
  PROVE  /\ p \in Tables \X (Routes \ Multicast) \X SwIfs
         /\ p[1] = fib_index[i] /\ p[2] \in R /\ p[3] = mappings[i][Oif[p[2]]]
<1>1. PICK r \in R \ Multicast : /\ mappings[i][Oif[r]] # None
                                 /\ p = <<fib_index[i], r, mappings[i][Oif[r]]>>
  BY DEF Paths, mapper_get_by_ifindex
<1>2. Oif[r] \in IfIdx
  BY <1>1, MapperConstants
<1>3. mappings[i][Oif[r]] \in SwIfs
  BY <1>1, <1>2, MappingType
<1>4. fib_index[i] \in Tables
  BY DEF TypeOK
<1>5. QED BY <1>1, <1>3, <1>4

\* And every path that is due comes from Paths.
LEMMA PathIn ==
  ASSUME NEW i \in NsIdx, NEW R \in SUBSET Routes,
         NEW p \in Tables \X (Routes \ Multicast) \X SwIfs,
         p[1] = fib_index[i], p[2] \in R, p[3] = mappings[i][Oif[p[2]]]
  PROVE  p \in Paths(i, R)
<1>1. p[2] \in R \ Multicast /\ p[3] # None
  BY MapperConstants
<1>2. p = <<p[1], p[2], p[3]>>
  OBVIOUS
<1>3. QED BY <1>1, <1>2 DEF Paths, mapper_get_by_ifindex

\* Paths of the mirror of a namespace in use are due.
LEMMA PathsAreDue ==
  ASSUME TypeOK, NEW i \in namespaces, NEW R \in SUBSET mirror[nsname[i]]
  PROVE  Paths(i, R) \subseteq Due
<1>1. i \in NsIdx /\ R \subseteq Routes
  BY DEF TypeOK
<1>2. SUFFICES ASSUME NEW p \in Paths(i, R) PROVE p \in Due
  OBVIOUS
<1>3. QED BY <1>1, PathOf DEF Due

-----------------------------------------------------------------------------
LEMMA TypeInit == Init => TypeOK
<1> SUFFICES ASSUME Init PROVE TypeOK
  OBVIOUS
<1>1. QED BY MapperConstants DEF Init, TypeOK, NoMap

LEMMA TypeStep == TypeOK /\ [Next]_vars => TypeOK'
<1> SUFFICES ASSUME TypeOK, [Next]_vars PROVE TypeOK'
  OBVIOUS
<1>1. ASSUME NEW i \in NsIdx, NEW R \in SUBSET Routes
      PROVE  Paths(i, R) \subseteq Tables \X Routes \X SwIfs
  BY <1>1, PathOf
<1>2. ASSUME NEW n \in Names, NEW r \in Routes, mapper_netns_notify_cb(n, r)
      PROVE  fib' \subseteq Tables \X Routes \X SwIfs
  <2>1. \A i \in namespaces : Paths(i, {r}) \subseteq Tables \X Routes \X SwIfs
    BY <1>1 DEF TypeOK
  <2> DEFINE J == {j \in namespaces : nsname[j] = n}
  <2>2. UNION {Paths(i, {r}) : i \in J} \subseteq Tables \X Routes \X SwIfs
    BY <2>1
  <2>3. fib' = fib \cup UNION {Paths(i, {r}) : i \in J}
    BY <1>2 DEF mapper_netns_notify_cb
  <2> HIDE DEF J
  <2>4. QED BY <2>2, <2>3 DEF TypeOK
<1>3. ASSUME NEW n \in Names, NEW r \in Routes, RouteAdd(n, r) PROVE TypeOK'
  BY <1>2, <1>3 DEF RouteAdd, TypeOK, mapper_ns
<1>4. ASSUME NEW n \in Names, NEW r \in Routes, RouteDel(n, r) PROVE TypeOK'
  BY <1>2, <1>4 DEF RouteDel, TypeOK, mapper_ns
<1>5. ASSUME NEW n \in Names, OtherOpen(n) PROVE TypeOK'
  BY <1>5 DEF OtherOpen, TypeOK, mapper_ns
<1>6. ASSUME NEW n \in Names, OtherClose(n) PROVE TypeOK'
  BY <1>6 DEF OtherClose, Released, TypeOK, mapper_ns
<1>7. ASSUME NEW i \in NsIdx, NEW n \in Names, NEW t \in Tables, mapper_add_ns(i, n, t)
      PROVE  TypeOK'
  BY <1>7 DEF mapper_add_ns, TypeOK, netns, NoMap
<1>8. ASSUME NEW i \in NsIdx, NEW x \in IfIdx, NEW s \in SwIfs, NEW del \in BOOLEAN,
             mapper_add_del(i, x, s, del)
      PROVE  TypeOK'
  <2>1. Via(nsname[i], x) \subseteq Routes
    BY DEF Via, TypeOK
  <2>2. CASE del
    <3>1. fib' \subseteq Tables \X Routes \X SwIfs
      BY <1>1, <1>8, <2>1, <2>2
         DEF mapper_add_del, mapper_delmap, mapper_add_del_route, TypeOK
    <3>2. mappings' = [mappings EXCEPT ![i] = [@ EXCEPT ![x] = None]]
      BY <1>8, <2>2 DEF mapper_add_del, mapper_delmap
    <3>3. mappings' \in [NsIdx -> [IfIdx -> SwIfs \cup {None}]]
      BY <3>2 DEF TypeOK
    <3>4. QED BY <1>8, <2>2, <3>1, <3>3 DEF mapper_add_del, mapper_delmap, TypeOK, netns
  <2>3. CASE ~del
    <3>1. fib' \subseteq Tables \X Routes \X SwIfs
      BY <1>8, <2>1, <2>3 DEF mapper_add_del, mapper_getmap, TypeOK
    <3>2. /\ mappings' = [mappings EXCEPT ![i] = [@ EXCEPT ![x] = s]]
          /\ fib_by_sw' = [fib_by_sw EXCEPT ![s] = fib_index[i]]
      BY <1>8, <2>3 DEF mapper_add_del, mapper_getmap
    <3>3. mappings' \in [NsIdx -> [IfIdx -> SwIfs \cup {None}]]
      BY <3>2 DEF TypeOK
    <3>4. fib_by_sw' \in [SwIfs -> Tables \cup {None}]
      BY <3>2 DEF TypeOK
    <3>5. QED BY <1>8, <3>1, <3>3, <3>4 DEF mapper_add_del, TypeOK, netns
  <2>4. QED BY <2>2, <2>3
<1>9. ASSUME NEW i \in NsIdx, mapper_del_ns(i) PROVE TypeOK'
  <2> DEFINE R == UNION {Via(nsname[i], x) : x \in {y \in IfIdx : mappings[i][y] # None}}
  <2>1. R \subseteq Routes
    BY DEF Via, TypeOK
  <2>2. fib' \subseteq Tables \X Routes \X SwIfs
    BY <1>1, <1>9, <2>1 DEF mapper_del_ns, mapper_add_del_route, TypeOK
  <2>3. QED BY <1>9, <2>2 DEF mapper_del_ns, Released, NoMap, TypeOK
<1>10. CASE UNCHANGED vars
  BY <1>10 DEF vars, netns, mapper_ns, TypeOK
<1>11. QED BY <1>3, <1>4, <1>5, <1>6, <1>7, <1>8, <1>9, <1>10 DEF Next

\* Every variable keeps its type.
THEOREM TypeCorrect == Spec => []TypeOK
<1>1. QED BY TypeInit, TypeStep, PTL DEF Spec

-----------------------------------------------------------------------------
\* A step that takes nothing out of the tables and makes nothing due keeps
\* what is due in the tables.
LEMMA StaysDue ==
  ASSUME RoutesMapped, fib \subseteq fib', Due' \subseteq Due
  PROVE  RoutesMapped'
  BY DEF RoutesMapped

\* Only new routes and new mappings make paths due.
LEMMA LessDue ==
  ASSUME namespaces' \subseteq namespaces, UNCHANGED <<nsname, fib_index>>, TypeOK,
         \A n \in Names : mirror'[n] \subseteq mirror[n],
         \A i \in namespaces', x \in IfIdx : mappings'[i][x] \in {None, mappings[i][x]}
  PROVE  Due' \subseteq Due
<1> SUFFICES ASSUME NEW p \in Due' PROVE p \in Due
  OBVIOUS
<1>1. PICK i \in namespaces' : /\ p[1] = fib_index[i]
                               /\ p[2] \in mirror'[nsname[i]]
                               /\ p[3] = mappings'[i][Oif[p[2]]]
  BY DEF Due
<1>2. p \in Tables \X (Routes \ Multicast) \X SwIfs
  BY DEF Due
<1>3. Oif[p[2]] \in IfIdx /\ p[3] # None
  BY <1>2, MapperConstants
<1>4. p[3] = mappings[i][Oif[p[2]]]
  BY <1>1, <1>3
<1>5. nsname[i] \in Names /\ i \in namespaces
  BY DEF TypeOK
<1>6. QED BY <1>1, <1>2, <1>4, <1>5 DEF Due

\* A callback keeps what is in the tables.
LEMMA FibGrows ==
  ASSUME [Next]_vars PROVE fib \subseteq fib'
<1>1. CASE UNCHANGED vars
  BY <1>1 DEF vars
<1>2. ASSUME NEW n \in Names, OtherOpen(n) \/ OtherClose(n) PROVE fib \subseteq fib'
  BY <1>2 DEF OtherOpen, OtherClose
<1>3. ASSUME NEW n \in Names, NEW r \in Routes, RouteAdd(n, r) \/ RouteDel(n, r)
      PROVE  fib \subseteq fib'
  BY <1>3 DEF RouteAdd, RouteDel, mapper_netns_notify_cb
<1>4. ASSUME NEW i \in NsIdx, mapper_del_ns(i) PROVE fib \subseteq fib'
  BY <1>4 DEF mapper_del_ns, mapper_add_del_route
<1>5. ASSUME NEW i \in NsIdx, NEW n \in Names, NEW t \in Tables, mapper_add_ns(i, n, t)
      PROVE  fib \subseteq fib'
  BY <1>5 DEF mapper_add_ns
<1>6. ASSUME NEW i \in NsIdx, NEW x \in IfIdx, NEW s \in SwIfs, NEW del \in BOOLEAN,
             mapper_add_del(i, x, s, del)
      PROVE  fib \subseteq fib'
  BY <1>6 DEF mapper_add_del, mapper_delmap, mapper_getmap, mapper_add_del_route
<1>7. QED BY <1>1, <1>2, <1>3, <1>4, <1>5, <1>6 DEF Next

-----------------------------------------------------------------------------
LEMMA MappedInit == Init => RoutesMapped
  BY DEF Init, RoutesMapped, Due

LEMMA MappedStep == TypeOK /\ RoutesMapped /\ [Next]_vars => RoutesMapped'
<1> SUFFICES ASSUME TypeOK, RoutesMapped, [Next]_vars PROVE RoutesMapped'
  OBVIOUS
<1>1. fib \subseteq fib'
  BY FibGrows
<1>2. ASSUME NEW n \in Names, NEW r \in Routes, RouteAdd(n, r) PROVE RoutesMapped'
  <2>1. SUFFICES ASSUME NEW p \in Due' PROVE p \in fib'
    BY DEF RoutesMapped
  <2>2. PICK i \in namespaces : /\ p[1] = fib_index[i]
                                /\ p[2] \in mirror'[nsname[i]]
                                /\ p[3] = mappings[i][Oif[p[2]]]
    BY <1>2 DEF Due, RouteAdd, mapper_ns
  <2>3. p \in Tables \X (Routes \ Multicast) \X SwIfs
    BY DEF Due
  <2>4. CASE nsname[i] = n /\ p[2] = r
    <3>1. i \in NsIdx /\ p \in Paths(i, {r})
      BY <2>2, <2>3, <2>4, PathIn DEF TypeOK
    <3>2. Paths(i, {r}) \subseteq fib'
      BY <1>2, <2>4 DEF RouteAdd, mapper_netns_notify_cb
    <3>3. QED BY <3>1, <3>2
  <2>5. CASE ~(nsname[i] = n /\ p[2] = r)
    <3>1. nsname[i] \in Names
      BY DEF TypeOK
    <3>2. p[2] \in mirror[nsname[i]]
      BY <1>2, <2>2, <2>5, <3>1 DEF RouteAdd, TypeOK
    <3>3. p \in Due
      BY <2>2, <2>3, <3>2 DEF Due
    <3>4. QED BY <1>1, <3>3 DEF RoutesMapped
  <2>6. QED BY <2>4, <2>5
<1>3. ASSUME NEW n \in Names, NEW r \in Routes, RouteDel(n, r) PROVE RoutesMapped'
  <2>1. Due' \subseteq Due
    BY <1>3, LessDue DEF RouteDel, mapper_ns, TypeOK
  <2>2. QED BY <1>1, <2>1, StaysDue
<1>4. ASSUME NEW n \in Names, OtherOpen(n) PROVE RoutesMapped'
  <2>1. Due' \subseteq Due
    BY <1>4, LessDue DEF OtherOpen, mapper_ns
  <2>2. QED BY <1>1, <2>1, StaysDue
<1>5. ASSUME NEW n \in Names, OtherClose(n) PROVE RoutesMapped'
  <2>1. \A m \in Names : mirror'[m] \subseteq mirror[m]
    BY <1>5 DEF OtherClose, Released, TypeOK
  <2>2. Due' \subseteq Due
    BY <1>5, <2>1, LessDue DEF OtherClose, mapper_ns
  <2>3. QED BY <1>1, <2>2, StaysDue
<1>6. ASSUME NEW i \in NsIdx, NEW n \in Names, NEW t \in Tables, mapper_add_ns(i, n, t)
      PROVE  RoutesMapped'
  <2>1. SUFFICES ASSUME NEW p \in Due' PROVE p \in fib'
    BY DEF RoutesMapped
  <2>2. PICK j \in namespaces' : /\ p[1] = fib_index'[j]
                                 /\ p[2] \in mirror[nsname'[j]]
                                 /\ p[3] = mappings'[j][Oif[p[2]]]
    BY <1>6 DEF Due, mapper_add_ns, netns
  <2>3. p \in Tables \X (Routes \ Multicast) \X SwIfs
    BY DEF Due
  <2>4. Oif[p[2]] \in IfIdx /\ p[3] # None
    BY <2>3, MapperConstants
  <2>5. j # i
    BY <1>6, <2>2, <2>4 DEF mapper_add_ns, NoMap, TypeOK
  <2>6. /\ j \in namespaces /\ fib_index'[j] = fib_index[j]
        /\ nsname'[j] = nsname[j] /\ mappings'[j] = mappings[j]
    BY <1>6, <2>5 DEF mapper_add_ns, TypeOK
  <2>7. p \in Due
    BY <2>2, <2>3, <2>6 DEF Due
  <2>8. QED BY <1>1, <2>7 DEF RoutesMapped
<1>7. ASSUME NEW i \in NsIdx, NEW x \in IfIdx, NEW s \in SwIfs, NEW del \in BOOLEAN,
             mapper_add_del(i, x, s, del)
      PROVE  RoutesMapped'
  <2>1. CASE del
    <3>1. \A j \in namespaces', y \in IfIdx : mappings'[j][y] \in {None, mappings[j][y]}
      BY <1>7, <2>1 DEF mapper_add_del, mapper_delmap, TypeOK
    <3>2. Due' \subseteq Due
      BY <1>7, <3>1, LessDue DEF mapper_add_del, netns
    <3>3. QED BY <1>1, <3>2, StaysDue
  <2>2. CASE ~del
    <3>1. SUFFICES ASSUME NEW p \in Due' PROVE p \in fib'
      BY DEF RoutesMapped
    <3>2. PICK j \in namespaces : /\ p[1] = fib_index[j]
                                  /\ p[2] \in mirror[nsname[j]]
                                  /\ p[3] = mappings'[j][Oif[p[2]]]
      BY <1>7 DEF Due, mapper_add_del, netns
    <3>3. p \in Tables \X (Routes \ Multicast) \X SwIfs /\ Oif[p[2]] \in IfIdx
      BY MapperConstants DEF Due
    <3>4. CASE j = i /\ Oif[p[2]] = x
      <4>1. p[3] = s
        BY <1>7, <2>2, <3>2, <3>4 DEF mapper_add_del, mapper_getmap, TypeOK
      <4>2. p[2] \in Via(nsname[i], x) \ Multicast
        BY <3>2, <3>3, <3>4 DEF Via
      <4>3. p = <<fib_index[i], p[2], s>>
        BY <3>2, <3>3, <3>4, <4>1
      <4>4. QED BY <1>7, <2>2, <4>2, <4>3 DEF mapper_add_del, mapper_getmap
    <3>5. CASE ~(j = i /\ Oif[p[2]] = x)
      <4>1. mappings'[j][Oif[p[2]]] = mappings[j][Oif[p[2]]]
        BY <1>7, <2>2, <3>3, <3>5 DEF mapper_add_del, mapper_getmap, TypeOK
      <4>2. p \in Due
        BY <3>2, <3>3, <4>1 DEF Due
      <4>3. QED BY <1>1, <4>2 DEF RoutesMapped
    <3>6. QED BY <3>4, <3>5
  <2>3. QED BY <2>1, <2>2
<1>8. ASSUME NEW i \in NsIdx, mapper_del_ns(i) PROVE RoutesMapped'
  <2>1. \A m \in Names : mirror'[m] \subseteq mirror[m]
    BY <1>8 DEF mapper_del_ns, Released, TypeOK
  <2>2. \A j \in namespaces', y \in IfIdx : mappings'[j][y] \in {None, mappings[j][y]}
    BY <1>8 DEF mapper_del_ns, NoMap, TypeOK
  <2>3. Due' \subseteq Due
    BY <1>8, <2>1, <2>2, LessDue DEF mapper_del_ns
  <2>4. QED BY <1>1, <2>3, StaysDue
<1>9. CASE UNCHANGED vars
  BY <1>9 DEF vars, netns, mapper_ns, RoutesMapped, Due
<1>10. QED BY <1>2, <1>3, <1>4, <1>5, <1>6, <1>7, <1>8, <1>9 DEF Next

\* What should be in the tables is: RoutesMapped.
THEOREM RoutesAreMapped == Spec => []RoutesMapped
<1>1. QED BY MappedInit, MappedStep, TypeCorrect, PTL DEF Spec

-----------------------------------------------------------------------------
LEMMA NewStep ==
  TypeOK /\ RoutesMapped /\ [Next]_vars => fib' \ fib \subseteq Due'
<1> SUFFICES ASSUME TypeOK, RoutesMapped, [Next]_vars,
                    NEW p \in fib' \ fib
             PROVE  p \in Due'
  OBVIOUS
<1>1. p \notin Due
  BY DEF RoutesMapped
<1>2. ASSUME NEW n \in Names, NEW r \in Routes, RouteAdd(n, r) PROVE p \in Due'
  <2>1. PICK i \in namespaces : nsname[i] = n /\ p \in Paths(i, {r})
    BY <1>2 DEF RouteAdd, mapper_netns_notify_cb
  <2>2. i \in NsIdx /\ {r} \subseteq Routes
    BY DEF TypeOK
  <2>3. /\ p \in Tables \X (Routes \ Multicast) \X SwIfs
        /\ p[1] = fib_index[i] /\ p[2] = r /\ p[3] = mappings[i][Oif[p[2]]]
    BY <2>1, <2>2, PathOf
  <2>4. r \in mirror'[n]
    BY <1>2 DEF RouteAdd, TypeOK
  <2>5. UNCHANGED <<namespaces, nsname, fib_index, mappings>>
    BY <1>2 DEF RouteAdd, mapper_ns
  <2>6. QED BY <2>1, <2>3, <2>4, <2>5 DEF Due
<1>3. ASSUME NEW n \in Names, NEW r \in Routes, RouteDel(n, r) PROVE FALSE
  <2>1. PICK i \in namespaces : nsname[i] = n /\ p \in Paths(i, {r})
    BY <1>3 DEF RouteDel, mapper_netns_notify_cb
  <2>2. {r} \subseteq mirror[nsname[i]]
    BY <1>3, <2>1 DEF RouteDel
  <2>3. QED BY <1>1, <2>1, <2>2, PathsAreDue
<1>4. ASSUME NEW n \in Names, OtherOpen(n) \/ OtherClose(n) PROVE FALSE
  BY <1>4 DEF OtherOpen, OtherClose
<1>5. ASSUME NEW i \in NsIdx, NEW n \in Names, NEW t \in Tables, mapper_add_ns(i, n, t)
      PROVE  FALSE
  BY <1>5 DEF mapper_add_ns
<1>6. ASSUME NEW i \in NsIdx, NEW x \in IfIdx, NEW s \in SwIfs, NEW del \in BOOLEAN,
             mapper_add_del(i, x, s, del)
      PROVE  p \in Due'
  <2>1. i \in namespaces /\ Via(nsname[i], x) \subseteq mirror[nsname[i]]
    BY <1>6 DEF mapper_add_del, Via
  <2>2. CASE del
    <3>1. p \in Paths(i, Via(nsname[i], x))
      BY <1>6, <2>2 DEF mapper_add_del, mapper_delmap, mapper_add_del_route
    <3>2. QED BY <1>1, <2>1, <3>1, PathsAreDue
  <2>3. CASE ~del
    <3>1. PICK r \in Via(nsname[i], x) \ Multicast : p = <<fib_index[i], r, s>>
      BY <1>6, <2>3 DEF mapper_add_del, mapper_getmap
    <3>2. /\ r \in mirror[nsname[i]] /\ Oif[r] = x /\ r \in Routes \ Multicast
          /\ fib_index[i] \in Tables
      BY <2>1, <3>1 DEF Via, TypeOK
    <3>3. mappings'[i][x] = s
      BY <1>6, <2>3 DEF mapper_add_del, mapper_getmap, TypeOK
    <3>4. UNCHANGED <<namespaces, nsname, fib_index, mirror>>
      BY <1>6 DEF mapper_add_del, netns
    <3>5. QED BY <2>1, <3>1, <3>2, <3>3, <3>4 DEF Due
  <2>4. QED BY <2>2, <2>3
<1>7. ASSUME NEW i \in NsIdx, mapper_del_ns(i) PROVE FALSE
  <2> DEFINE R == UNION {Via(nsname[i], x) : x \in {y \in IfIdx : mappings[i][y] # None}}
  <2>1. i \in namespaces /\ R \subseteq mirror[nsname[i]]
    BY <1>7 DEF mapper_del_ns, Via
  <2>2. p \in Paths(i, R)
    BY <1>7 DEF mapper_del_ns, mapper_add_del_route
  <2> HIDE DEF R
  <2>3. QED BY <1>1, <2>1, <2>2, PathsAreDue
<1>8. CASE UNCHANGED vars
  BY <1>8 DEF vars
<1>9. QED BY <1>2, <1>3, <1>4, <1>5, <1>6, <1>7, <1>8 DEF Next

\* Nothing else gets into a table: NewPathsDue.
THEOREM OnlyDuePaths == Spec => NewPathsDue
<1>1. TypeOK /\ RoutesMapped /\ [Next]_vars => [fib' \ fib \subseteq Due']_vars
  BY NewStep
<1>2. QED BY <1>1, TypeCorrect, RoutesAreMapped, PTL DEF Spec, NewPathsDue
=============================================================================
