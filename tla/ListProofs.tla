------------------------------ MODULE ListProofs ------------------------------
(***************************************************************************)
(* The functions of mylibrary/list.h keep the pointers in step with the    *)
(* sequences that the other modules take a list to be, and the loops over  *)
(* a list miss nothing and see nothing twice, for any number of lists and  *)
(* entries.                                                                *)
(***************************************************************************)
EXTENDS ListPointers, ListLemmas

\* The entry e is on none of the lists S.
Alone(S, e) == \A h \in Heads : e \notin Range(S[h])

\* What lists there may be: no entry is on one twice or on two, and none is stray.
Shape(S, st) ==
    /\ S \in [Heads -> Seq(Entries)] /\ st \subseteq Nodes
    /\ \A h \in Heads : IsInjective(S[h])
    /\ \A g, h \in Heads : g # h => Range(S[g]) \cap Range(S[h]) = {}
    /\ \A h \in Heads : Range(S[h]) \cap st = {}
    /\ \A h \in Heads \cap st : S[h] = <<>>

\* y follows x on a list, or is an initialised entry that is on none.
Follows(S, st, x, y) ==
    \/ \E h \in Heads \ st : Adjacent(S[h], h, x, y)
    \/ x = y /\ x \in Entries \ st /\ Alone(S, x)

\* Represents, of any pointers, lists and stray nodes.
Rep(l, S, st) ==
    /\ l \in Links /\ Shape(S, st)
    /\ \A x, y : Follows(S, st, x, y) => l.next[x] = y /\ l.prev[y] = x

\* The lists of a representation are made of entries.
LEMMA ShapeFacts ==
    ASSUME NEW S, NEW st, Shape(S, st), NEW h \in Heads
    PROVE  /\ S[h] \in Seq(Entries) /\ IsInjective(S[h])
           /\ Range(S[h]) \subseteq Entries /\ h \notin Entries /\ h \notin Range(S[h])
           /\ h \in Nodes /\ Range(S[h]) \subseteq Nodes
           /\ Range(S[h]) \cap st = {}
<1>1. S[h] \in Seq(Entries) /\ IsInjective(S[h]) /\ Range(S[h]) \cap st = {}
  BY DEF Shape
<1>2. Range(S[h]) \subseteq Entries
  BY <1>1, RangeSeq
<1> QED BY <1>1, <1>2, NodesAssumption DEF Nodes

\* Two nodes of the rings of two lists are not the same.
LEMMA Apart ==
    ASSUME NEW S, NEW st, Shape(S, st), NEW g \in Heads, NEW h \in Heads, g # h,
           NEW x \in {g} \cup Range(S[g]), NEW y \in {h} \cup Range(S[h])
    PROVE  x # y
<1>1. /\ Range(S[g]) \subseteq Entries /\ Range(S[h]) \subseteq Entries
      /\ g \notin Entries /\ h \notin Entries
  BY ShapeFacts
<1>2. Range(S[g]) \cap Range(S[h]) = {}
  BY DEF Shape
<1> QED BY <1>1, <1>2

\* Every node that is not stray is followed by just one node and follows just one.
LEMMA FollowsFacts ==
    ASSUME NEW S, NEW st, Shape(S, st)
    PROVE  /\ \A x, y : Follows(S, st, x, y) => x \in Nodes \ st /\ y \in Nodes \ st
           /\ \A x \in Nodes \ st : (\E y : Follows(S, st, x, y)) /\ (\E y : Follows(S, st, y, x))
           /\ \A x, y, z : Follows(S, st, x, y) /\ Follows(S, st, x, z) => y = z
           /\ \A x, y, z : Follows(S, st, y, x) /\ Follows(S, st, z, x) => y = z
<1> DEFINE On(h, x) == x \in {h} \cup Range(S[h])
<1>1. \A h \in Heads : /\ S[h] \in Seq(Entries) /\ IsInjective(S[h]) /\ h \notin Range(S[h])
                       /\ Range(S[h]) \subseteq Entries /\ h \notin Entries
                       /\ Range(S[h]) \cap st = {}
  BY ShapeFacts
<1>2. /\ \A h \in Heads : \A x, y : Adjacent(S[h], h, x, y) => On(h, x) /\ On(h, y)
      /\ \A h \in Heads : \A x : On(h, x) => (\E y : Adjacent(S[h], h, x, y)) /\ (\E y : Adjacent(S[h], h, y, x))
  BY <1>1, RingNodes
<1>3. \A h \in Heads : \A x, y, z :
        /\ Adjacent(S[h], h, x, y) /\ Adjacent(S[h], h, x, z) => y = z
        /\ Adjacent(S[h], h, y, x) /\ Adjacent(S[h], h, z, x) => y = z
  BY <1>1, RingUnique
<1>4. \A g, h \in Heads : \A x : On(g, x) /\ On(h, x) => g = h
  BY Apart
<1>5. \A h \in Heads : \A x \in Entries : On(h, x) => ~Alone(S, x)
  BY <1>1 DEF Alone
<1>6. \A h \in Heads \ st : \A x : On(h, x) => x \in Nodes \ st
  BY <1>1 DEF Nodes
<1>7. \A x \in Nodes \ st : (\E h \in Heads \ st : On(h, x)) \/ (x \in Entries \ st /\ Alone(S, x))
  <2> SUFFICES ASSUME NEW x \in Nodes \ st
               PROVE  (\E h \in Heads \ st : On(h, x)) \/ (x \in Entries \ st /\ Alone(S, x))
    OBVIOUS
  <2>1. CASE x \in Heads
    BY <2>1
  <2>2. CASE x \in Entries /\ ~Alone(S, x)
    <3>1. PICK h \in Heads : x \in Range(S[h])
      BY <2>2 DEF Alone
    <3>2. h \notin st
      <4>1. h \in st => S[h] = <<>>
        BY DEF Shape
      <4>2. Range(<<>>) = {}
        BY DEF Range
      <4> QED BY <3>1, <4>1, <4>2
    <3> QED BY <3>1, <3>2
  <2> QED BY <2>1, <2>2 DEF Nodes
<1> HIDE DEF On
<1>8. ASSUME NEW x, NEW y, Follows(S, st, x, y) PROVE x \in Nodes \ st /\ y \in Nodes \ st
  BY <1>2, <1>6, <1>8 DEF Follows, Nodes
<1>9. ASSUME NEW x \in Nodes \ st PROVE (\E y : Follows(S, st, x, y)) /\ (\E y : Follows(S, st, y, x))
  <2>1. CASE \E h \in Heads \ st : On(h, x)
    BY <1>2, <2>1 DEF Follows
  <2>2. CASE x \in Entries \ st /\ Alone(S, x)
    BY <2>2 DEF Follows
  <2> QED BY <1>7, <1>9, <2>1, <2>2
<1>10. ASSUME NEW x, NEW y, NEW z, Follows(S, st, x, y), Follows(S, st, x, z) PROVE y = z
  <2>1. CASE x \in Entries \ st /\ Alone(S, x)
    BY <1>2, <1>5, <1>10, <2>1 DEF Follows
  <2>2. CASE ~(x \in Entries \ st /\ Alone(S, x))
    <3>1. PICK g \in Heads \ st : Adjacent(S[g], g, x, y)
      BY <1>10, <2>2 DEF Follows
    <3>2. PICK h \in Heads \ st : Adjacent(S[h], h, x, z)
      BY <1>10, <2>2 DEF Follows
    <3>3. g = h
      BY <1>2, <1>4, <3>1, <3>2
    <3> QED BY <1>3, <3>1, <3>2, <3>3
  <2> QED BY <2>1, <2>2
<1>11. ASSUME NEW x, NEW y, NEW z, Follows(S, st, y, x), Follows(S, st, z, x) PROVE y = z
  <2>1. CASE x \in Entries \ st /\ Alone(S, x)
    BY <1>2, <1>5, <1>11, <2>1 DEF Follows
  <2>2. CASE ~(x \in Entries \ st /\ Alone(S, x))
    <3>1. PICK g \in Heads \ st : Adjacent(S[g], g, y, x)
      BY <1>11, <2>2 DEF Follows
    <3>2. PICK h \in Heads \ st : Adjacent(S[h], h, z, x)
      BY <1>11, <2>2 DEF Follows
    <3>3. g = h
      BY <1>2, <1>4, <3>1, <3>2
    <3> QED BY <1>3, <3>1, <3>2, <3>3
  <2> QED BY <2>1, <2>2
<1> QED BY <1>8, <1>9, <1>10, <1>11

\* The pointers of a node that is not stray say what follows what.
LEMMA Pointers ==
    ASSUME NEW l, NEW S, NEW st, Rep(l, S, st), NEW x \in Nodes \ st
    PROVE  /\ Follows(S, st, x, l.next[x]) /\ l.next[x] \in Nodes \ st
           /\ Follows(S, st, l.prev[x], x) /\ l.prev[x] \in Nodes \ st
<1>1. Shape(S, st)
  BY DEF Rep
<1>2. PICK y : Follows(S, st, x, y)
  BY <1>1, FollowsFacts
<1>3. PICK z : Follows(S, st, z, x)
  BY <1>1, FollowsFacts
<1>4. l.next[x] = y /\ l.prev[x] = z
  BY <1>2, <1>3 DEF Rep
<1> QED BY <1>1, <1>2, <1>3, <1>4, FollowsFacts

\* The pointers of the stray nodes do not matter.
LEMMA StrayPointers ==
    ASSUME NEW l, NEW S, NEW st, Rep(l, S, st), NEW m \in Links,
           \A x \in Nodes \ st : m.next[x] = l.next[x] /\ m.prev[x] = l.prev[x]
    PROVE  Rep(m, S, st)
<1>1. Shape(S, st)
  BY DEF Rep
<1>2. \A x, y : Follows(S, st, x, y) => x \in Nodes \ st /\ y \in Nodes \ st
  BY <1>1, FollowsFacts
<1> QED BY <1>1, <1>2 DEF Rep

\* INIT_LIST_HEAD, pointer by pointer.
LEMMA InitPointers ==
    ASSUME NEW l \in Links, NEW n \in Nodes
    PROVE  /\ INIT_LIST_HEAD(l, n) \in Links
           /\ \A x \in Nodes : /\ INIT_LIST_HEAD(l, n).next[x] = IF x = n THEN n ELSE l.next[x]
                               /\ INIT_LIST_HEAD(l, n).prev[x] = IF x = n THEN n ELSE l.prev[x]
BY DEF INIT_LIST_HEAD, Links

\* A stray node, or an entry on no list, is initialised.
LEMMA InitLemma ==
    ASSUME NEW l, NEW S, NEW st, Rep(l, S, st), NEW n \in Nodes,
           n \in st \/ (n \in Entries /\ Alone(S, n))
    PROVE  Rep(INIT_LIST_HEAD(l, n), S, st \ {n})
<1> DEFINE m == INIT_LIST_HEAD(l, n)
<1>1. l \in Links /\ Shape(S, st) /\ Shape(S, st \ {n})
  BY DEF Rep, Shape
<1>2. /\ m \in Links
      /\ \A x \in Nodes : /\ m.next[x] = IF x = n THEN n ELSE l.next[x]
                          /\ m.prev[x] = IF x = n THEN n ELSE l.prev[x]
  BY <1>1, InitPointers
<1> HIDE DEF m
<1>3. Follows(S, st \ {n}, n, n)
  <2>1. CASE n \in Heads
    <3>1. n \in st
      BY <2>1, NodesAssumption
    <3>2. S[n] = <<>>
      BY <1>1, <2>1, <3>1 DEF Shape
    <3>3. Adjacent(S[n], n, n, n)
      BY <3>2, RingEmpty
    <3> QED BY <2>1, <3>3 DEF Follows
  <2>2. CASE n \in Entries /\ Alone(S, n)
    BY <2>2 DEF Follows
  <2>3. CASE n \in Entries /\ n \in st
    <3>1. Alone(S, n)
      BY <1>1, <2>3 DEF Shape, Alone
    <3> QED BY <2>3, <3>1 DEF Follows
  <2> QED BY <2>1, <2>2, <2>3 DEF Nodes
<1>4. ASSUME NEW x, NEW y, Follows(S, st \ {n}, x, y) PROVE m.next[x] = y /\ m.prev[y] = x
  <2>1. x \in Nodes \ (st \ {n}) /\ y \in Nodes \ (st \ {n})
    BY <1>1, <1>4, FollowsFacts
  <2>2. x = n <=> y = n
    BY <1>1, <1>3, <1>4, FollowsFacts
  <2>3. CASE x = n
    BY <1>2, <2>1, <2>2, <2>3
  <2>4. CASE x # n
    <3>1. Follows(S, st, x, y)
      <4>1. CASE x = y /\ x \in Entries \ (st \ {n}) /\ Alone(S, x)
        BY <2>4, <4>1 DEF Follows
      <4>2. ASSUME NEW h \in Heads \ (st \ {n}), Adjacent(S[h], h, x, y) PROVE Follows(S, st, x, y)
        <5>1. CASE h = n
          <6>1. n \in st
            BY <5>1, NodesAssumption
          <6>2. S[n] = <<>>
            BY <1>1, <5>1, <6>1 DEF Shape
          <6> QED BY <2>4, <4>2, <5>1, <6>2, RingEmpty
        <5>2. CASE h # n
          BY <4>2, <5>2 DEF Follows
        <5> QED BY <5>1, <5>2
      <4> QED BY <1>4, <4>1, <4>2 DEF Follows
    <3> QED BY <1>2, <2>1, <2>2, <2>4, <3>1 DEF Rep
  <2> QED BY <2>3, <2>4
<1> QED BY <1>1, <1>2, <1>4 DEF Rep, m

\* The lists S with the list h become s.
With(S, h, s) == [S EXCEPT ![h] = s]

\* With p in place of the list k of L, and gone for what is stray, no entry is on
\* a list twice or on two, and none is stray.
Fits(L, k, p, gone) ==
    /\ k \in Heads /\ p \in Seq(Entries) /\ IsInjective(p)
    /\ gone \in SUBSET Nodes /\ Range(p) \cap gone = {} /\ (k \in gone => p = <<>>)
    /\ \A g \in Heads \ {k} : /\ Range(p) \cap Range(L[g]) = {}
                              /\ Range(L[g]) \cap gone = {}
                              /\ g \in gone => L[g] = <<>>

\* One list of a shape changes, and perhaps what is stray.
LEMMA ShapeUpdate ==
    ASSUME NEW S, NEW st, Shape(S, st), NEW h, NEW s, NEW new, Fits(S, h, s, new)
    PROVE  /\ Shape(With(S, h, s), new)
           /\ With(S, h, s)[h] = s
           /\ \A g \in Heads \ {h} : With(S, h, s)[g] = S[g]
<1> USE DEF Fits
<1> DEFINE T == With(S, h, s)
<1>1. S \in [Heads -> Seq(Entries)]
  BY DEF Shape
<1>2. /\ T \in [Heads -> Seq(Entries)]
      /\ T[h] = s /\ \A g \in Heads \ {h} : T[g] = S[g]
  BY <1>1 DEF With
<1> HIDE DEF T
<1>3. \A g \in Heads : IsInjective(T[g]) /\ Range(T[g]) \cap new = {} /\ (g \in new => T[g] = <<>>)
  <2> TAKE g \in Heads
  <2>1. CASE g = h
    BY <1>2, <2>1
  <2>2. CASE g # h
    BY <1>2, <2>2 DEF Shape
  <2> QED BY <2>1, <2>2
<1>4. \A f, g \in Heads : f # g => Range(T[f]) \cap Range(T[g]) = {}
  <2> TAKE f, g \in Heads
  <2>1. CASE f = h
    BY <1>2, <2>1
  <2>2. CASE g = h
    BY <1>2, <2>2
  <2>3. CASE f # h /\ g # h
    BY <1>2, <2>3 DEF Shape
  <2> QED BY <2>1, <2>2, <2>3
<1>5. Shape(T, new)
  BY <1>2, <1>3, <1>4 DEF Shape
<1> QED BY <1>2, <1>5 DEF T

\* st without e.
Less(st, e) == st \ {e}

\* s holds no more than the list h of S and e.
OneMore(S, h, e, s) ==
    s \in Seq(Entries) /\ IsInjective(s) /\ \A x \in Range(s) : x = e \/ x \in Range(S[h])

\* The shape of the lists with one entry more on one of them.
LEMMA AddShape ==
    ASSUME NEW S, NEW st, Shape(S, st), NEW h \in Heads, h \notin st, NEW e, Alone(S, e),
           NEW s, OneMore(S, h, e, s)
    PROVE  /\ Shape(With(S, h, s), Less(st, e))
           /\ With(S, h, s)[h] = s
           /\ \A g \in Heads \ {h} : With(S, h, s)[g] = S[g]
<1> USE DEF OneMore, Less
<1> DEFINE left == Less(st, e)
<1>1. /\ \A g \in Heads : e \notin Range(S[g]) /\ Range(S[g]) \cap st = {} /\ (g \in st => S[g] = <<>>)
      /\ \A g \in Heads \ {h} : Range(S[g]) \cap Range(S[h]) = {}
      /\ left \in SUBSET Nodes /\ h \notin left
  BY DEF Shape, Alone
<1>2. Range(s) \cap left = {}
  BY <1>1
<1>3. ASSUME NEW g \in Heads \ {h}
      PROVE  /\ Range(s) \cap Range(S[g]) = {}
             /\ Range(S[g]) \cap left = {}
             /\ g \in left => S[g] = <<>>
  BY <1>1, <1>3
<1> HIDE DEF left, Less
<1>4. Fits(S, h, s, left)
  <2>1. h \in left => s = <<>>
    BY <1>1
  <2> QED BY <1>1, <1>2, <1>3, <2>1 DEF Fits
<1>5. Shape(With(S, h, s), left)
  BY <1>4, ShapeUpdate
<1>6. With(S, h, s)[h] = s /\ \A g \in Heads \ {h} : With(S, h, s)[g] = S[g]
  BY <1>4, ShapeUpdate
<1> QED BY <1>5, <1>6 DEF left

\* __list_add, pointer by pointer.
LEMMA AddPointers ==
    ASSUME NEW l \in Links, NEW e \in Nodes, NEW before \in Nodes, NEW after \in Nodes,
           e # before, e # after
    PROVE  /\ __list_add(l, e, before, after) \in Links
           /\ \A x \in Nodes : __list_add(l, e, before, after).next[x] =
                IF x = before THEN e ELSE IF x = e THEN after ELSE l.next[x]
           /\ \A x \in Nodes : __list_add(l, e, before, after).prev[x] =
                IF x = e THEN before ELSE IF x = after THEN e ELSE l.prev[x]
BY DEF __list_add, Links

\* __list_add puts an entry that is on no list between two nodes of one.
LEMMA AddLemma ==
    ASSUME NEW l, NEW S, NEW st, Rep(l, S, st),
           NEW h \in Heads \ st, NEW e \in Entries, Alone(S, e),
           NEW before, NEW after, Adjacent(S[h], h, before, after),
           NEW s \in Seq(Entries), IsInjective(s), Range(s) = Range(S[h]) \cup {e},
           \A x, y : Adjacent(s, h, x, y) =>
               \/ Adjacent(S[h], h, x, y) /\ x # before
               \/ x = before /\ y = e
               \/ x = e /\ y = after
    PROVE  Rep(__list_add(l, e, before, after), [S EXCEPT ![h] = s], st \ {e})
<1> DEFINE T == [S EXCEPT ![h] = s]
           m == __list_add(l, e, before, after)
<1>1. l \in Links /\ Shape(S, st) /\ e \in Nodes /\ e \notin Heads
  BY NodesAssumption DEF Rep, Nodes
<1>2. Follows(S, st, before, after)
  BY DEF Follows
<1>3. /\ before \in {h} \cup Range(S[h]) /\ after \in {h} \cup Range(S[h])
      /\ before \in Nodes \ st /\ after \in Nodes \ st /\ before # e /\ after # e
  <2>1. S[h] \in Seq(Entries)
    BY <1>1, ShapeFacts
  <2>2. before \in {h} \cup Range(S[h]) /\ after \in {h} \cup Range(S[h])
    BY <2>1, RingNodes
  <2> QED BY <1>1, <1>2, <2>2, FollowsFacts DEF Alone
<1>4. /\ Shape(T, st \ {e})
      /\ T[h] = s
      /\ \A g \in Heads \ {h} : T[g] = S[g]
  <2>1. T = With(S, h, s)
    BY DEF With
  <2>2. OneMore(S, h, e, s)
    BY DEF OneMore
  <2>3. h \in Heads /\ h \notin st
    OBVIOUS
  <2> HIDE DEF T
  <2>4. /\ Shape(With(S, h, s), Less(st, e))
        /\ With(S, h, s)[h] = s
        /\ \A g \in Heads \ {h} : With(S, h, s)[g] = S[g]
    BY <1>1, <2>2, <2>3, AddShape
  <2> QED BY <2>1, <2>4 DEF Less
<1>5. /\ m \in Links
      /\ \A x \in Nodes : m.next[x] = IF x = before THEN e ELSE IF x = e THEN after ELSE l.next[x]
      /\ \A x \in Nodes : m.prev[x] = IF x = e THEN before ELSE IF x = after THEN e ELSE l.prev[x]
  BY <1>1, <1>3, AddPointers
<1> HIDE DEF T, m
<1>6. ASSUME NEW x, NEW y, Follows(S, st, x, y), x # before, x # e, y # e
      PROVE  m.next[x] = y /\ m.prev[y] = x
  <2>1. x \in Nodes /\ y \in Nodes
    BY <1>1, <1>6, FollowsFacts
  <2>2. y # after
    BY <1>1, <1>2, <1>6, FollowsFacts
  <2> QED BY <1>5, <1>6, <2>1, <2>2 DEF Rep
<1>7. \A g \in Heads : \A x, y : Adjacent(S[g], g, x, y) =>
        x \in {g} \cup Range(S[g]) /\ y \in {g} \cup Range(S[g]) /\ x # e /\ y # e
  <2>1. \A g \in Heads : S[g] \in Seq(Entries)
    BY <1>1, ShapeFacts
  <2> QED BY <1>1, <2>1, RingNodes DEF Alone
<1>8. ASSUME NEW x, NEW y, Adjacent(s, h, x, y) PROVE m.next[x] = y /\ m.prev[y] = x
  <2>1. CASE Adjacent(S[h], h, x, y) /\ x # before
    <3>1. Follows(S, st, x, y) /\ x # before
      BY <2>1 DEF Follows
    <3>2. x # e /\ y # e
      BY <1>7, <2>1
    <3> QED BY <1>6, <3>1, <3>2
  <2>2. CASE x = before /\ y = e
    BY <1>1, <1>3, <1>5, <2>2
  <2>3. CASE x = e /\ y = after
    BY <1>1, <1>3, <1>5, <2>3
  <2> QED BY <1>8, <2>1, <2>2, <2>3
<1>9. ASSUME NEW g \in Heads \ st, g # h, NEW x, NEW y, Adjacent(S[g], g, x, y)
      PROVE  m.next[x] = y /\ m.prev[y] = x
  <2>1. x \in {g} \cup Range(S[g]) /\ x # e /\ y # e
    BY <1>7, <1>9
  <2>2. x # before
    BY <1>1, <1>3, <1>9, <2>1, Apart
  <2>3. Follows(S, st, x, y)
    BY <1>9 DEF Follows
  <2> QED BY <1>6, <2>1, <2>2, <2>3
<1>10. ASSUME NEW x \in Entries \ (st \ {e}), Alone(T, x) PROVE m.next[x] = x /\ m.prev[x] = x
  <2>1. x # e
    BY <1>4, <1>10 DEF Alone
  <2>2. Alone(S, x)
    BY <1>4, <1>10 DEF Alone
  <2>3. x # before
    BY <1>3, <1>10, <2>2, NodesAssumption DEF Alone
  <2> QED BY <1>6, <1>10, <2>1, <2>2, <2>3 DEF Follows
<1>11. ASSUME NEW x, NEW y, Follows(T, st \ {e}, x, y) PROVE m.next[x] = y /\ m.prev[y] = x
  <2>1. CASE x = y /\ x \in Entries \ (st \ {e}) /\ Alone(T, x)
    BY <1>10, <2>1
  <2>2. ASSUME NEW g \in Heads \ (st \ {e}), Adjacent(T[g], g, x, y) PROVE m.next[x] = y /\ m.prev[y] = x
    <3>1. g \in Heads \ st
      BY <1>1
    <3>2. CASE g = h
      BY <1>4, <1>8, <2>2, <3>2
    <3>3. CASE g # h
      <4>1. Adjacent(S[g], g, x, y)
        BY <1>4, <2>2, <3>1, <3>3
      <4> QED BY <1>9, <3>1, <3>3, <4>1
    <3> QED BY <3>2, <3>3
  <2> QED BY <1>11, <2>1, <2>2 DEF Follows
<1> QED BY <1>4, <1>5, <1>11 DEF Rep, T, m

\* __list_del_entry, pointer by pointer.
LEMMA DelPointers ==
    ASSUME NEW l \in Links, NEW e \in Nodes, l.next[e] \in Nodes, l.prev[e] \in Nodes
    PROVE  /\ __list_del_entry(l, e) \in Links
           /\ \A x \in Nodes : __list_del_entry(l, e).next[x] = IF x = l.prev[e] THEN l.next[e] ELSE l.next[x]
           /\ \A x \in Nodes : __list_del_entry(l, e).prev[x] = IF x = l.next[e] THEN l.prev[e] ELSE l.prev[x]
BY DEF __list_del_entry, Links

\* The lists without an entry, wherever it was.
Off(S, e) == [h \in Heads |-> Unlink(S[h], e)]

\* Taking an entry off leaves possible lists, on which it is no more; only the
\* range of its list changes, and no other entry is set free.
LEMMA ShapeOff ==
    ASSUME NEW S, NEW st, Shape(S, st), NEW e \in Entries
    PROVE  /\ Shape(Off(S, e), st \cup {e}) /\ Alone(Off(S, e), e)
           /\ \A h \in Heads : /\ Off(S, e)[h] = Unlink(S[h], e)
                               /\ Range(Off(S, e)[h]) = Range(S[h]) \ {e}
           /\ \A x \in Entries : Alone(Off(S, e), x) /\ x # e => Alone(S, x)
<1>1. \A h \in Heads : Off(S, e)[h] = Unlink(S[h], e)
  BY DEF Off
<1>2. \A h \in Heads : /\ Unlink(S[h], e) \in Seq(Entries) /\ IsInjective(Unlink(S[h], e))
                       /\ Range(Unlink(S[h], e)) = Range(S[h]) \ {e}
  <2> TAKE h \in Heads
  <2>1. S[h] \in Seq(Entries) /\ IsInjective(S[h])
    BY ShapeFacts
  <2> QED BY <2>1, UnlinkLemma
<1>3. Off(S, e) \in [Heads -> Seq(Entries)]
  BY <1>2 DEF Off
<1>4. \A h \in Heads \cap (st \cup {e}) : Off(S, e)[h] = <<>>
  <2> TAKE h \in Heads \cap (st \cup {e})
  <2>1. S[h] = <<>>
    BY NodesAssumption DEF Shape
  <2>2. Range(<<>>) = {}
    BY DEF Range
  <2> QED BY <1>1, <2>1, <2>2 DEF Unlink
<1>5. /\ st \cup {e} \subseteq Nodes
      /\ \A g, h \in Heads : g # h => Range(S[g]) \cap Range(S[h]) = {}
      /\ \A h \in Heads : Range(S[h]) \cap st = {}
  BY DEF Shape, Nodes
<1>6. Shape(Off(S, e), st \cup {e})
  BY <1>1, <1>2, <1>3, <1>4, <1>5 DEF Shape
<1> QED BY <1>1, <1>2, <1>6 DEF Alone

\* __list_del_entry takes an entry off its list, and leaves an entry that is on none.
LEMMA DelLemma ==
    ASSUME NEW l, NEW S, NEW st, Rep(l, S, st), NEW e \in Entries \ st
    PROVE  Rep(__list_del_entry(l, e), Off(S, e), st \cup {e})
<1> DEFINE T == Off(S, e)
           m == __list_del_entry(l, e)
           a == l.prev[e]
           b == l.next[e]
<1>1. l \in Links /\ Shape(S, st) /\ e \in Nodes \ st
  BY DEF Rep, Nodes
<1>2. Follows(S, st, a, e) /\ Follows(S, st, e, b) /\ a \in Nodes \ st /\ b \in Nodes \ st
  BY <1>1, Pointers
<1>3. /\ m \in Links
      /\ \A x \in Nodes : m.next[x] = IF x = a THEN b ELSE l.next[x]
      /\ \A x \in Nodes : m.prev[x] = IF x = b THEN a ELSE l.prev[x]
  BY <1>1, <1>2, DelPointers
<1>4. /\ Shape(T, st \cup {e})
      /\ \A h \in Heads : T[h] = Unlink(S[h], e)
      /\ \A x \in Entries : Alone(T, x) /\ x # e => Alone(S, x)
  BY <1>1, ShapeOff
<1> HIDE DEF T, m, a, b
<1>5. ASSUME NEW x, NEW y, Follows(T, st \cup {e}, x, y)
      PROVE  (Follows(S, st, x, y) /\ x # e /\ y # e) \/ (x = a /\ y = b)
  <2>1. x # e /\ y # e
    BY <1>4, <1>5, FollowsFacts
  <2>2. CASE x = y /\ x \in Entries \ (st \cup {e}) /\ Alone(T, x)
    BY <1>4, <2>1, <2>2 DEF Follows
  <2>3. ASSUME NEW h \in Heads \ (st \cup {e}), Adjacent(T[h], h, x, y)
        PROVE  (Follows(S, st, x, y) /\ x # e /\ y # e) \/ (x = a /\ y = b)
    <3>1. /\ S[h] \in Seq(Entries) /\ IsInjective(S[h]) /\ h \notin Entries
          /\ Adjacent(Unlink(S[h], e), h, x, y)
      BY <1>1, <1>4, <2>3, ShapeFacts
    <3>2. CASE e \in Range(S[h])
      <4>1. \/ Adjacent(S[h], h, x, y) /\ x # e /\ y # e
            \/ Adjacent(S[h], h, x, e) /\ Adjacent(S[h], h, e, y)
        BY <3>1, <3>2, RingUnlink
      <4>2. Follows(S, st, x, y) \/ (Follows(S, st, x, e) /\ Follows(S, st, e, y))
        BY <4>1 DEF Follows
      <4> QED BY <1>1, <1>2, <2>1, <4>2, FollowsFacts
    <3>3. CASE e \notin Range(S[h])
      BY <2>1, <3>1, <3>3 DEF Unlink, Follows
    <3> QED BY <3>2, <3>3
  <2> QED BY <1>5, <2>2, <2>3 DEF Follows
<1>6. ASSUME NEW x, NEW y, Follows(T, st \cup {e}, x, y) PROVE m.next[x] = y /\ m.prev[y] = x
  <2>1. CASE Follows(S, st, x, y) /\ x # e /\ y # e
    <3>1. x # a /\ y # b /\ x \in Nodes /\ y \in Nodes
      BY <1>1, <1>2, <2>1, FollowsFacts
    <3> QED BY <1>3, <2>1, <3>1 DEF Rep
  <2>2. CASE x = a /\ y = b
    BY <1>2, <1>3, <2>2
  <2> QED BY <1>5, <1>6, <2>1, <2>2
<1> QED BY <1>3, <1>4, <1>6 DEF Rep, T, m

\* The pointers of a head lead to its neighbours on its own ring.
LEMMA HeadPointers ==
    ASSUME NEW l, NEW S, NEW st, Rep(l, S, st), NEW h \in Heads \ st
    PROVE  Adjacent(S[h], h, h, l.next[h]) /\ Adjacent(S[h], h, l.prev[h], h)
<1>1. S[h] \in Seq(Entries)
  BY ShapeFacts DEF Rep
<1>2. PICK y : Adjacent(S[h], h, h, y)
  BY <1>1, RingNodes
<1>3. PICK x : Adjacent(S[h], h, x, h)
  BY <1>1, RingNodes
<1>4. Follows(S, st, h, y) /\ Follows(S, st, x, h)
  BY <1>2, <1>3 DEF Follows
<1>5. l.next[h] = y /\ l.prev[h] = x
  BY <1>4 DEF Rep
<1> QED BY <1>2, <1>3, <1>5

\* list_add: an entry that is on no list becomes the first of one.
LEMMA AddFirstLemma ==
    ASSUME NEW l, NEW S, NEW st, Rep(l, S, st), NEW h \in Heads \ st, NEW e \in Entries, Alone(S, e)
    PROVE  Rep(AddFirst(l, e, h), [S EXCEPT ![h] = <<e>> \o S[h]], st \ {e})
<1> DEFINE s == Cons(e, S[h])
           after == l.next[h]
<1>1. /\ S[h] \in Seq(Entries) /\ IsInjective(S[h]) /\ e \notin Range(S[h])
      /\ h \notin Entries /\ h \notin Range(S[h])
  BY ShapeFacts DEF Rep, Alone
<1>2. /\ s \in Seq(Entries) /\ Range(s) = Range(S[h]) \cup {e} /\ IsInjective(s)
      /\ \A x, y : Adjacent(s, h, x, y) =>
           \/ x = h /\ y = e
           \/ x = e /\ Adjacent(S[h], h, h, y)
           \/ Adjacent(S[h], h, x, y) /\ x # h
  BY <1>1, ConsLemma
<1>3. Adjacent(S[h], h, h, after)
  BY HeadPointers
<1>4. \A y : Adjacent(S[h], h, h, y) => y = after
  BY <1>1, <1>3, RingUnique
<1> HIDE DEF s, after
<1>5. Rep(__list_add(l, e, h, after), [S EXCEPT ![h] = s], st \ {e})
  BY <1>2, <1>3, <1>4, AddLemma
<1> QED BY <1>5 DEF AddFirst, s, after, Cons

\* list_add_tail: an entry that is on no list becomes the last of one.
LEMMA AddLastLemma ==
    ASSUME NEW l, NEW S, NEW st, Rep(l, S, st), NEW h \in Heads \ st, NEW e \in Entries, Alone(S, e)
    PROVE  Rep(AddLast(l, e, h), [S EXCEPT ![h] = Append(S[h], e)], st \ {e})
<1> DEFINE s == Append(S[h], e)
           before == l.prev[h]
<1>1. /\ S[h] \in Seq(Entries) /\ IsInjective(S[h]) /\ e \notin Range(S[h])
      /\ h \notin Entries /\ h \notin Range(S[h])
  BY ShapeFacts DEF Rep, Alone
<1>2. s \in Seq(Entries) /\ Range(s) = Range(S[h]) \cup {e} /\ IsInjective(s)
  BY <1>1, AppendLemma
<1>3. \A x, y : Adjacent(s, h, x, y) =>
        \/ Adjacent(S[h], h, x, y) /\ y # h
        \/ Adjacent(S[h], h, x, h) /\ y = e
        \/ x = e /\ y = h
  BY <1>1, RingAppend
<1>4. Adjacent(S[h], h, before, h)
  BY HeadPointers
<1>5. /\ \A x : Adjacent(S[h], h, x, h) => x = before
      /\ \A y : Adjacent(S[h], h, before, y) => y = h
  BY <1>1, <1>4, RingUnique
<1> HIDE DEF s, before
<1>6. Rep(__list_add(l, e, before, h), [S EXCEPT ![h] = s], st \ {e})
  BY <1>2, <1>3, <1>4, <1>5, AddLemma
<1> QED BY <1>6 DEF AddLast, s, before

\* An entry in the place of another, on whatever list that is.
PutAll(S, old, new) == [h \in Heads |-> Put(S[h], old, new)]

\* Replacing an entry by a free one leaves possible lists, and of the others
\* sets none free.
LEMMA ShapePut ==
    ASSUME NEW S, NEW st, Shape(S, st), NEW old \in Entries, NEW new \in Entries, Alone(S, new), new # old
    PROVE  /\ Shape(PutAll(S, old, new), (st \ {new}) \cup {old})
           /\ \A x \in Entries : Alone(PutAll(S, old, new), x) /\ x # old =>
                (x # new /\ Alone(S, x)) \/ (x = new /\ Alone(S, old))
<1> DEFINE T == PutAll(S, old, new)
           sub(x) == IF x = old THEN new ELSE x
<1>1. \A h \in Heads : /\ S[h] \in Seq(Entries) /\ IsInjective(S[h])
                       /\ DOMAIN S[h] = 1 .. Len(S[h]) /\ Len(S[h]) \in Nat
                       /\ \A i \in DOMAIN S[h] : S[h][i] \in Entries /\ S[h][i] # new
                       /\ Range(S[h]) \cap st = {}
  <2> TAKE h \in Heads
  <2>1. S[h] \in Seq(Entries) /\ IsInjective(S[h]) /\ Range(S[h]) \cap st = {} /\ new \notin Range(S[h])
    BY ShapeFacts DEF Alone
  <2>2. /\ DOMAIN S[h] = 1 .. Len(S[h]) /\ Len(S[h]) \in Nat
        /\ \A i \in DOMAIN S[h] : S[h][i] \in Entries
    BY <2>1, LenProperties, ElementOfSeq
  <2> QED BY <2>1, <2>2 DEF Range
<1>2. \A h \in Heads : /\ DOMAIN T[h] = DOMAIN S[h]
                       /\ \A i \in DOMAIN S[h] : T[h][i] = sub(S[h][i])
  BY DEF Put, PutAll
<1>3. T \in [Heads -> Seq(Entries)]
  <2>1. ASSUME NEW h \in Heads PROVE T[h] \in Seq(Entries)
    <3>1. T[h] = [i \in 1 .. Len(S[h]) |-> sub(S[h][i])]
      BY <1>1 DEF Put, PutAll
    <3>2. \A i \in 1 .. Len(S[h]) : sub(S[h][i]) \in Entries
      BY <1>1
    <3>3. Len(S[h]) \in Nat
      BY <1>1
    <3> QED BY <3>1, <3>2, <3>3, IsASeq
  <2>2. T = [h \in Heads |-> T[h]]
    BY DEF Put, PutAll
  <2> QED BY <2>1, <2>2
<1>4. \A h \in Heads : Range(T[h]) = {sub(x) : x \in Range(S[h])}
  BY <1>2 DEF Range
<1> HIDE DEF T
<1>5. \A h \in Heads : IsInjective(T[h])
  <2> TAKE h \in Heads
  <2> SUFFICES ASSUME NEW i \in DOMAIN S[h], NEW j \in DOMAIN S[h], T[h][i] = T[h][j] PROVE i = j
    BY <1>2 DEF IsInjective
  <2>1. S[h][i] # new /\ S[h][j] # new /\ sub(S[h][i]) = sub(S[h][j])
    BY <1>1, <1>2
  <2>2. S[h][i] = S[h][j]
    BY <2>1
  <2> QED BY <1>1, <2>2 DEF IsInjective
<1>6. \A h \in Heads : new \notin Range(S[h])
  BY DEF Alone
<1>7. \A g, h \in Heads : g # h => Range(T[g]) \cap Range(T[h]) = {}
  <2> SUFFICES ASSUME NEW g \in Heads, NEW h \in Heads, g # h,
                      NEW x \in Range(S[g]), NEW y \in Range(S[h]), sub(x) = sub(y)
               PROVE  FALSE
    BY <1>4
  <2>1. x = y
    BY <1>6
  <2> QED BY <2>1 DEF Shape
<1>8. \A h \in Heads : Range(T[h]) \cap ((st \ {new}) \cup {old}) = {}
  BY <1>1, <1>4
<1>9. \A h \in Heads \cap ((st \ {new}) \cup {old}) : T[h] = <<>>
  <2> TAKE h \in Heads \cap ((st \ {new}) \cup {old})
  <2>1. S[h] = <<>>
    BY NodesAssumption DEF Shape
  <2>2. DOMAIN S[h] = {} /\ T[h] = [i \in DOMAIN S[h] |-> sub(S[h][i])]
    BY <2>1 DEF T, Put, PutAll
  <2>3. T[h] \in Seq(Entries) /\ DOMAIN T[h] = {}
    BY <1>3, <2>2
  <2>4. Len(T[h]) \in Nat /\ 1 .. Len(T[h]) = {}
    BY <2>3, LenProperties
  <2>5. Len(T[h]) = 0
    <3>1. 1 \notin 1 .. Len(T[h])
      BY <2>4
    <3> QED BY <2>4, <3>1
  <2> QED BY <2>3, <2>5, EmptySeq
<1>10. (st \ {new}) \cup {old} \subseteq Nodes
  BY DEF Shape, Nodes
<1>11. Shape(T, (st \ {new}) \cup {old})
  BY <1>3, <1>5, <1>7, <1>8, <1>9, <1>10 DEF Shape
<1>12. ASSUME NEW x \in Entries, Alone(T, x), x # old
       PROVE  (x # new /\ Alone(S, x)) \/ (x = new /\ Alone(S, old))
  BY <1>4, <1>12 DEF Alone
<1> QED BY <1>11, <1>12 DEF T

\* What list_replace does to the pointers, one by one.
LEMMA ReplacePointers ==
    ASSUME NEW l \in Links, NEW old \in Nodes, NEW new \in Nodes, new # old,
           l.next[old] \in Nodes, l.prev[old] \in Nodes,
           l.next[old] # new, l.prev[old] # new, l.next[old] = old <=> l.prev[old] = old
    PROVE  /\ Replaced(l, old, new) \in Links
           /\ \A x \in Nodes : Replaced(l, old, new).next[x] =
                IF l.next[old] = old THEN (IF x = new THEN new ELSE l.next[x])
                ELSE IF x = new THEN l.next[old] ELSE IF x = l.prev[old] THEN new ELSE l.next[x]
           /\ \A x \in Nodes \ {old} : Replaced(l, old, new).prev[x] =
                IF l.next[old] = old THEN (IF x = new THEN new ELSE l.prev[x])
                ELSE IF x = new THEN l.prev[old] ELSE IF x = l.next[old] THEN new ELSE l.prev[x]
<1> DEFINE b == l.next[old]
           after == [l EXCEPT !.next[new] = b, !.prev[b] = new]
<1>1. /\ after \in Links
      /\ \A x \in Nodes : after.next[x] = IF x = new THEN b ELSE l.next[x]
      /\ \A x \in Nodes : after.prev[x] = IF x = b THEN new ELSE l.prev[x]
  BY DEF Links
<1>2. after.prev[old] \in Nodes /\ after.prev[old] = IF b = old THEN new ELSE l.prev[old]
  BY <1>1
<1>3. Replaced(l, old, new) = [after EXCEPT !.prev[new] = after.prev[old], !.next[after.prev[old]] = new]
  BY DEF Replaced
<1> HIDE DEF after
<1>4. /\ Replaced(l, old, new) \in Links
      /\ \A x \in Nodes : Replaced(l, old, new).next[x] = IF x = after.prev[old] THEN new ELSE after.next[x]
      /\ \A x \in Nodes : Replaced(l, old, new).prev[x] = IF x = new THEN after.prev[old] ELSE after.prev[x]
  <2>1. after.prev[old] \in Nodes
    BY <1>2
  <2> HIDE DEF b
  <2> DEFINE a == after.prev[old]
             m == [after EXCEPT !.prev[new] = a, !.next[a] = new]
  <2> HIDE DEF a
  <2>2. a \in Nodes
    BY <2>1 DEF a
  <2>3. /\ m \in Links
        /\ \A x \in Nodes : m.next[x] = IF x = a THEN new ELSE after.next[x]
        /\ \A x \in Nodes : m.prev[x] = IF x = new THEN a ELSE after.prev[x]
    BY <1>1, <2>2 DEF Links
  <2>4. Replaced(l, old, new) = m
    BY <1>3 DEF a
  <2> QED BY <2>3, <2>4 DEF a
<1> QED BY <1>1, <1>2, <1>4

\* list_replace puts an entry that is on no list in the place of another.
LEMMA ReplaceLemma ==
    ASSUME NEW l, NEW S, NEW st, Rep(l, S, st),
           NEW old \in Entries \ st, NEW new \in Entries, Alone(S, new), new # old
    PROVE  Rep(Replaced(l, old, new), PutAll(S, old, new), (st \ {new}) \cup {old})
<1> DEFINE T == PutAll(S, old, new)
           m == Replaced(l, old, new)
           sub(x) == IF x = old THEN new ELSE x
           a == l.prev[old]
           b == l.next[old]
           gone == (st \ {new}) \cup {old}
<1>1. l \in Links /\ Shape(S, st) /\ old \in Nodes \ st /\ new \in Nodes
  BY DEF Rep, Nodes
<1>2. Follows(S, st, a, old) /\ Follows(S, st, old, b) /\ a \in Nodes \ st /\ b \in Nodes \ st
  BY <1>1, Pointers
<1>3. \A x, y : Follows(S, st, x, y) /\ (x = new \/ y = new) => x = new /\ y = new
  <2>1. \A h \in Heads : \A x, y : Adjacent(S[h], h, x, y) => x # new /\ y # new
    <3>1. \A h \in Heads : S[h] \in Seq(Entries) /\ h \notin Entries
      BY <1>1, ShapeFacts
    <3> QED BY <3>1, RingNodes DEF Alone
  <2> QED BY <2>1 DEF Follows
<1>4. a # new /\ b # new /\ (b = old <=> a = old)
  BY <1>1, <1>2, <1>3, FollowsFacts
<1>5. /\ m \in Links
      /\ \A x \in Nodes : m.next[x] =
           IF b = old THEN (IF x = new THEN new ELSE l.next[x])
           ELSE IF x = new THEN b ELSE IF x = a THEN new ELSE l.next[x]
      /\ \A x \in Nodes \ {old} : m.prev[x] =
           IF b = old THEN (IF x = new THEN new ELSE l.prev[x])
           ELSE IF x = new THEN a ELSE IF x = b THEN new ELSE l.prev[x]
  BY <1>1, <1>2, <1>4, ReplacePointers
<1>6. /\ Shape(T, gone)
      /\ \A x \in Entries : Alone(T, x) /\ x # old => (x # new /\ Alone(S, x)) \/ (x = new /\ Alone(S, old))
  BY <1>1, ShapePut
<1> HIDE DEF T, m, a, b
<1>7. ASSUME NEW x, NEW y, Follows(T, gone, x, y)
      PROVE  \E c, d : Follows(S, st, c, d) /\ x = sub(c) /\ y = sub(d) /\ c # new /\ d # new
  <2>1. CASE x = y /\ x \in Entries \ gone /\ Alone(T, x)
    <3>1. CASE x # new /\ Alone(S, x)
      <4>1. Follows(S, st, x, x) /\ x # old
        BY <2>1, <3>1 DEF Follows
      <4> QED BY <2>1, <3>1, <4>1
    <3>2. CASE x = new /\ Alone(S, old)
      <4>1. Follows(S, st, old, old)
        BY <3>2 DEF Follows
      <4> QED BY <2>1, <3>2, <4>1
    <3> QED BY <1>6, <2>1, <3>1, <3>2
  <2>2. ASSUME NEW h \in Heads \ gone, Adjacent(T[h], h, x, y)
        PROVE  \E c, d : Follows(S, st, c, d) /\ x = sub(c) /\ y = sub(d) /\ c # new /\ d # new
    <3>1. S[h] \in Seq(Entries) /\ h \notin Entries /\ h \in Heads \ st
      BY <1>1, ShapeFacts
    <3>2. T[h] = Put(S[h], old, new)
      BY DEF T, PutAll
    <3>3. PICK c, d : Adjacent(S[h], h, c, d) /\ x = sub(c) /\ y = sub(d)
      <4>1. h # old
        BY <3>1
      <4> QED BY <2>2, <3>1, <3>2, <4>1, RingReplace
    <3>4. c # new /\ d # new
      BY <3>1, <3>3, RingNodes DEF Alone
    <3>5. Follows(S, st, c, d)
      BY <3>1, <3>3 DEF Follows
    <3> QED BY <3>3, <3>4, <3>5
  <2> QED BY <1>7, <2>1, <2>2 DEF Follows
<1>8. ASSUME NEW x, NEW y, Follows(T, gone, x, y) PROVE m.next[x] = y /\ m.prev[y] = x
  <2>1. PICK c, d : Follows(S, st, c, d) /\ x = sub(c) /\ y = sub(d) /\ c # new /\ d # new
    BY <1>7, <1>8
  <2>2. l.next[c] = d /\ l.prev[d] = c /\ c \in Nodes /\ d \in Nodes
    BY <1>1, <2>1, FollowsFacts DEF Rep
  <2>3. CASE c = old
    <3>1. d = b
      BY <2>2, <2>3 DEF b
    <3> QED BY <1>1, <1>2, <1>4, <1>5, <2>1, <2>2, <2>3, <3>1
  <2>4. CASE d = old
    <3>1. c = a
      BY <2>2, <2>4 DEF a
    <3> QED BY <1>1, <1>2, <1>4, <1>5, <2>1, <2>2, <2>4, <3>1
  <2>5. CASE c # old /\ d # old
    <3>1. c # a /\ d # b
      BY <1>1, <1>2, <2>1, <2>5, FollowsFacts
    <3> QED BY <1>5, <2>1, <2>2, <2>5, <3>1
  <2> QED BY <2>3, <2>4, <2>5
<1> QED BY <1>5, <1>6, <1>8 DEF Rep, T, m

\* __list_cut_position, pointer by pointer.
LEMMA CutPointers ==
    ASSUME NEW l \in Links, NEW list \in Nodes, NEW head \in Nodes, NEW entry \in Nodes,
           list # head, list # entry, head # entry,
           l.next[head] \in Nodes, l.next[entry] \in Nodes,
           l.next[head] # list, l.next[entry] # list, l.next[head] # l.next[entry]
    PROVE  /\ __list_cut_position(l, list, head, entry) \in Links
           /\ \A x \in Nodes : __list_cut_position(l, list, head, entry).next[x] =
                IF x = list THEN l.next[head] ELSE IF x = entry THEN list
                ELSE IF x = head THEN l.next[entry] ELSE l.next[x]
           /\ \A x \in Nodes : __list_cut_position(l, list, head, entry).prev[x] =
                IF x = l.next[head] THEN list ELSE IF x = list THEN entry
                ELSE IF x = l.next[entry] THEN head ELSE l.prev[x]
BY DEF __list_cut_position, Links

\* list_cut_position moves the entries up to one of them to an empty list.
LEMMA CutLemma ==
    ASSUME NEW l, NEW S, NEW st, Rep(l, S, st),
           NEW list \in Heads \ st, NEW head \in Heads \ st, list # head, S[list] = <<>>,
           NEW k \in 1 .. Len(S[head]), NEW p, NEW q, CutAt(S[head], k, p, q)
    PROVE  Rep(__list_cut_position(l, list, head, S[head][k]), [S EXCEPT ![list] = p, ![head] = q], st)
<1> DEFINE entry == S[head][k]
           m == __list_cut_position(l, list, head, entry)
           T == [S EXCEPT ![list] = p, ![head] = q]
           f == l.next[head]
           w == l.next[entry]
<1>1. /\ l \in Links /\ Shape(S, st) /\ S \in [Heads -> Seq(Entries)] /\ st \subseteq Nodes
      /\ S[head] \in Seq(Entries) /\ IsInjective(S[head]) /\ list \notin Entries /\ head \notin Entries
      /\ list \in Nodes /\ head \in Nodes
  BY ShapeFacts DEF Rep, Shape
<1>2. /\ p \in Seq(Entries) /\ q \in Seq(Entries) /\ IsInjective(p) /\ IsInjective(q)
      /\ Range(S[head]) = Range(p) \cup Range(q) /\ Range(p) \cap Range(q) = {} /\ entry \in Range(p)
      /\ \A x, y : Adjacent(p, list, x, y) =>
           \/ x # list /\ y # list /\ x # entry /\ Adjacent(S[head], head, x, y)
           \/ x = list /\ Adjacent(S[head], head, head, y)
           \/ x = entry /\ y = list
      /\ \A x, y : Adjacent(q, head, x, y) =>
           (x # head /\ Adjacent(S[head], head, x, y)) \/ (x = head /\ Adjacent(S[head], head, entry, y))
  BY <1>1, CutRing
<1>3. entry \in Entries /\ entry \in Nodes \ st /\ entry # list /\ entry # head
  <2>1. entry \in Range(S[head])
    BY <1>2
  <2> QED BY <1>1, <2>1, ShapeFacts
<1> HIDE DEF entry, m, T
<1>4. /\ Follows(S, st, head, f) /\ Follows(S, st, entry, w) /\ Follows(S, st, list, list)
      /\ f \in Nodes /\ w \in Nodes
  <2>1. Adjacent(S[list], list, list, list)
    BY RingEmpty
  <2>2. Follows(S, st, list, list)
    BY <2>1 DEF Follows
  <2> QED BY <1>1, <1>3, <2>2, Pointers
<1> HIDE DEF f, w
<1>5. f # list /\ w # list /\ f # w
  BY <1>1, <1>3, <1>4, FollowsFacts
<1>6. /\ m \in Links
      /\ \A x \in Nodes : m.next[x] = IF x = list THEN f ELSE IF x = entry THEN list
                                      ELSE IF x = head THEN w ELSE l.next[x]
      /\ \A x \in Nodes : m.prev[x] = IF x = f THEN list ELSE IF x = list THEN entry
                                      ELSE IF x = w THEN head ELSE l.prev[x]
  BY <1>1, <1>3, <1>4, <1>5, CutPointers DEF f, w, m
<1>7. /\ Shape(T, st) /\ T[list] = p /\ T[head] = q
      /\ \A g \in Heads \ {list, head} : T[g] = S[g]
  <2> DEFINE U == [S EXCEPT ![head] = q]
  <2>1. \A g \in Heads : Range(S[g]) \cap st = {} /\ (g \in st => S[g] = <<>>)
    BY <1>1 DEF Shape
  <2>2. \A g \in Heads \ {head} : Range(S[g]) \cap Range(S[head]) = {}
    BY <1>1 DEF Shape
  <2>3. Shape(U, st) /\ U[head] = q /\ \A g \in Heads \ {head} : U[g] = S[g]
    <3>1. st \in SUBSET Nodes /\ Range(q) \cap st = {} /\ (head \in st => q = <<>>)
      BY <1>1, <1>2, <2>1
    <3>2. \A g \in Heads \ {head} : Range(q) \cap Range(S[g]) = {} /\ Range(S[g]) \cap st = {} /\ (g \in st => S[g] = <<>>)
      BY <1>2, <2>1, <2>2
    <3>3. Fits(S, head, q, st)
      BY <1>1, <1>2, <3>1, <3>2 DEF Fits
    <3>4. U = With(S, head, q)
      BY DEF With
    <3> HIDE DEF U
    <3> QED BY <1>1, <3>3, <3>4, ShapeUpdate
  <2>4. T = With(U, list, p)
    BY <1>1 DEF T, With
  <2> HIDE DEF U
  <2>5. Range(p) \cap st = {}
    BY <1>2, <2>1
  <2>6. \A g \in Heads \ {list} : Range(p) \cap Range(U[g]) = {} /\ Range(U[g]) \cap st = {} /\ (g \in st => U[g] = <<>>)
    <3> TAKE g \in Heads \ {list}
    <3>1. CASE g = head
      BY <1>2, <2>1, <2>3, <3>1
    <3>2. CASE g # head
      BY <1>2, <2>1, <2>2, <2>3, <3>2
    <3> QED BY <3>1, <3>2
  <2>7. /\ Shape(With(U, list, p), st) /\ With(U, list, p)[list] = p
        /\ \A g \in Heads \ {list} : With(U, list, p)[g] = U[g]
    <3>1. st \in SUBSET Nodes /\ (list \in st => p = <<>>)
      BY <1>1
    <3>2. Fits(U, list, p, st)
      BY <1>2, <2>5, <2>6, <3>1 DEF Fits
    <3> QED BY <2>3, <3>2, ShapeUpdate
  <2> QED BY <2>3, <2>4, <2>7
<1>8. ASSUME NEW x, NEW y, Follows(S, st, x, y), x # list, x # entry, x # head
      PROVE  m.next[x] = y /\ m.prev[y] = x
  <2>1. x \in Nodes /\ y \in Nodes
    BY <1>1, <1>8, FollowsFacts
  <2>2. y # list /\ y # f /\ y # w
    BY <1>1, <1>4, <1>8, FollowsFacts
  <2> QED BY <1>6, <1>8, <2>1, <2>2 DEF Rep
<1>9. \A h \in Heads : \A x, y : Adjacent(S[h], h, x, y) =>
        x \in {h} \cup Range(S[h]) /\ y \in {h} \cup Range(S[h])
  <2>1. \A h \in Heads : S[h] \in Seq(Entries)
    BY <1>1, ShapeFacts
  <2> QED BY <2>1, RingNodes
<1>10. /\ \A y : Adjacent(S[head], head, head, y) => y = f
       /\ \A y : Adjacent(S[head], head, entry, y) => y = w
  <2>1. \A x, y : Adjacent(S[head], head, x, y) => Follows(S, st, x, y)
    BY DEF Follows
  <2> QED BY <1>1, <1>4, <2>1, FollowsFacts
<1>11. ASSUME NEW x, NEW y, Adjacent(p, list, x, y) PROVE m.next[x] = y /\ m.prev[y] = x
  <2>1. CASE x # list /\ y # list /\ x # entry /\ Adjacent(S[head], head, x, y)
    <3>1. x \in {list} \cup Range(p)
      BY <1>2, <1>11, RingNodes
    <3>2. x # head
      BY <1>1, <1>2, <2>1, <3>1, RangeSeq
    <3>3. Follows(S, st, x, y)
      BY <2>1 DEF Follows
    <3> QED BY <1>8, <2>1, <3>2, <3>3
  <2>2. CASE x = list /\ Adjacent(S[head], head, head, y)
    BY <1>1, <1>4, <1>6, <1>10, <2>2
  <2>3. CASE x = entry /\ y = list
    BY <1>1, <1>3, <1>5, <1>6, <2>3
  <2> QED BY <1>2, <1>11, <2>1, <2>2, <2>3
<1>12. ASSUME NEW x, NEW y, Adjacent(q, head, x, y) PROVE m.next[x] = y /\ m.prev[y] = x
  <2>1. CASE x # head /\ Adjacent(S[head], head, x, y)
    <3>1. x \in Range(q)
      BY <1>2, <1>12, <2>1, RingNodes
    <3>2. x # entry /\ x # list
      BY <1>1, <1>2, <3>1, RangeSeq
    <3>3. Follows(S, st, x, y)
      BY <2>1 DEF Follows
    <3> QED BY <1>8, <2>1, <3>2, <3>3
  <2>2. CASE x = head /\ Adjacent(S[head], head, entry, y)
    BY <1>1, <1>3, <1>4, <1>5, <1>6, <1>10, <2>2
  <2> QED BY <1>2, <1>12, <2>1, <2>2
<1>13. ASSUME NEW g \in Heads \ st, g # list, g # head, NEW x, NEW y, Adjacent(S[g], g, x, y)
       PROVE  m.next[x] = y /\ m.prev[y] = x
  <2>1. x \in {g} \cup Range(S[g]) /\ Follows(S, st, x, y)
    BY <1>9, <1>13 DEF Follows
  <2>2. entry \in {head} \cup Range(S[head]) /\ head \in {head} \cup Range(S[head]) /\ list \in {list} \cup Range(S[list])
    BY <1>2
  <2>3. x # list /\ x # head /\ x # entry
    BY <1>1, <1>13, <2>1, <2>2, Apart
  <2> QED BY <1>8, <2>1, <2>3
<1>14. ASSUME NEW x \in Entries \ st, Alone(T, x) PROVE m.next[x] = x /\ m.prev[x] = x
  <2>1. x \notin Range(p) /\ x \notin Range(q) /\ \A g \in Heads \ {list, head} : x \notin Range(S[g])
    BY <1>7, <1>14 DEF Alone
  <2>2. x \notin Range(S[list])
    BY EmptyRange
  <2>3. Alone(S, x)
    BY <1>2, <2>1, <2>2 DEF Alone
  <2>4. x # entry /\ x # list /\ x # head
    BY <1>1, <1>2, <2>1
  <2>5. Follows(S, st, x, x)
    BY <2>3 DEF Follows
  <2> QED BY <1>8, <2>4, <2>5
<1>15. ASSUME NEW x, NEW y, Follows(T, st, x, y) PROVE m.next[x] = y /\ m.prev[y] = x
  <2>1. CASE x = y /\ x \in Entries \ st /\ Alone(T, x)
    BY <1>14, <2>1
  <2>2. ASSUME NEW g \in Heads \ st, Adjacent(T[g], g, x, y) PROVE m.next[x] = y /\ m.prev[y] = x
    <3>1. CASE g = list
      BY <1>7, <1>11, <2>2, <3>1
    <3>2. CASE g = head
      BY <1>7, <1>12, <2>2, <3>2
    <3>3. CASE g # list /\ g # head
      <4>1. Adjacent(S[g], g, x, y)
        BY <1>7, <2>2, <3>3
      <4> QED BY <1>13, <3>3, <4>1
    <3> QED BY <3>1, <3>2, <3>3
  <2> QED BY <1>15, <2>1, <2>2 DEF Follows
<1> QED BY <1>6, <1>7, <1>15 DEF Rep, T, m, entry

\* __list_splice, pointer by pointer.
LEMMA SplicePointers ==
    ASSUME NEW l \in Links, NEW list \in Nodes, NEW before \in Nodes, NEW after \in Nodes,
           l.next[list] \in Nodes, l.prev[list] \in Nodes,
           l.next[list] # after, l.prev[list] # before,
           l.next[list] # list, l.prev[list] # list, before # list, after # list
    PROVE  /\ __list_splice(l, list, before, after) \in Links
           /\ \A x \in Nodes : __list_splice(l, list, before, after).next[x] =
                IF x = before THEN l.next[list] ELSE IF x = l.prev[list] THEN after ELSE l.next[x]
           /\ \A x \in Nodes : __list_splice(l, list, before, after).prev[x] =
                IF x = l.next[list] THEN before ELSE IF x = after THEN l.prev[list] ELSE l.prev[x]
BY DEF __list_splice, Links

\* __list_splice moves the entries of a list between two nodes of another.
LEMMA SpliceLemma ==
    ASSUME NEW l, NEW S, NEW st, Rep(l, S, st),
           NEW list \in Heads \ st, NEW head \in Heads \ st, list # head, S[list] # <<>>,
           NEW before, NEW after, Adjacent(S[head], head, before, after),
           NEW s \in Seq(Entries), IsInjective(s), Range(s) = Range(S[head]) \cup Range(S[list]),
           \A x, y : Adjacent(s, head, x, y) =>
               \/ Adjacent(S[head], head, x, y) /\ x # before
               \/ x = before /\ Adjacent(S[list], list, list, y)
               \/ Adjacent(S[list], list, x, list) /\ y = after
               \/ Adjacent(S[list], list, x, y) /\ x # list /\ y # list
    PROVE  Rep(__list_splice(l, list, before, after), [S EXCEPT ![list] = <<>>, ![head] = s], st \cup {list})
<1> DEFINE m == __list_splice(l, list, before, after)
           T == [S EXCEPT ![list] = <<>>, ![head] = s]
           f == l.next[list]
           z == l.prev[list]
           gone == st \cup {list}
<1>1. /\ l \in Links /\ Shape(S, st) /\ S \in [Heads -> Seq(Entries)] /\ st \subseteq Nodes
      /\ list \in Nodes /\ head \in Nodes /\ list \notin Entries
      /\ S[list] \in Seq(Entries) /\ S[head] \in Seq(Entries)
  BY ShapeFacts DEF Rep, Shape
<1>2. \A h \in Heads : \A x, y : Adjacent(S[h], h, x, y) =>
        x \in {h} \cup Range(S[h]) /\ y \in {h} \cup Range(S[h])
  <2>1. \A h \in Heads : S[h] \in Seq(Entries)
    BY <1>1, ShapeFacts
  <2> QED BY <2>1, RingNodes
<1>3. \A h \in Heads \ st : \A x, y : Adjacent(S[h], h, x, y) => Follows(S, st, x, y)
  BY DEF Follows
<1>4. /\ Adjacent(S[list], list, list, f) /\ Adjacent(S[list], list, z, list)
      /\ Follows(S, st, list, f) /\ Follows(S, st, z, list) /\ Follows(S, st, before, after)
  BY <1>3, HeadPointers
<1>5. /\ f \in {list} \cup Range(S[list]) /\ z \in {list} \cup Range(S[list])
      /\ before \in {head} \cup Range(S[head]) /\ after \in {head} \cup Range(S[head])
      /\ f \in Nodes /\ z \in Nodes /\ before \in Nodes /\ after \in Nodes
  BY <1>1, <1>2, <1>4, FollowsFacts
<1>6. f # list /\ z # list
  BY <1>1, <1>4, RingNonempty
<1>7. list # before /\ list # after /\ f # after /\ z # before
  BY <1>1, <1>5, Apart
<1>8. /\ m \in Links
      /\ \A x \in Nodes : m.next[x] = IF x = before THEN f ELSE IF x = z THEN after ELSE l.next[x]
      /\ \A x \in Nodes : m.prev[x] = IF x = f THEN before ELSE IF x = after THEN z ELSE l.prev[x]
  BY <1>1, <1>5, <1>6, <1>7, SplicePointers
<1> HIDE DEF m, T, f, z
<1>9. /\ Shape(T, gone) /\ T[list] = <<>> /\ T[head] = s
      /\ \A g \in Heads \ {list, head} : T[g] = S[g]
  <2> DEFINE U == [S EXCEPT ![list] = <<>>]
  <2>1. /\ \A g \in Heads : Range(S[g]) \cap st = {} /\ (g \in st => S[g] = <<>>)
        /\ \A g, h \in Heads : g # h => Range(S[g]) \cap Range(S[h]) = {}
        /\ \A g \in Heads : list \notin Range(S[g])
    BY <1>1, ShapeFacts DEF Shape
  <2>2. Range(<<>>) = {} /\ IsInjective(<<>>) /\ <<>> \in Seq(Entries)
    BY EmptyRange, EmptySeq
  <2>3. Shape(U, gone) /\ U[list] = <<>> /\ \A g \in Heads \ {list} : U[g] = S[g]
    <3>1. gone \in SUBSET Nodes /\ Range(<<>>) \cap gone = {}
      BY <1>1, <2>2
    <3>2. \A g \in Heads \ {list} : Range(<<>>) \cap Range(S[g]) = {} /\ Range(S[g]) \cap gone = {} /\ (g \in gone => S[g] = <<>>)
      BY <2>1, <2>2
    <3>3. Fits(S, list, <<>>, gone)
      BY <1>1, <2>2, <3>1, <3>2 DEF Fits
    <3>4. U = With(S, list, <<>>)
      BY DEF With
    <3> HIDE DEF U
    <3> QED BY <1>1, <3>3, <3>4, ShapeUpdate
  <2>4. T = With(U, head, s)
    BY <1>1 DEF T, With
  <2> HIDE DEF U
  <2>5. gone \in SUBSET Nodes /\ Range(s) \cap gone = {} /\ (head \in gone => s = <<>>)
    BY <1>1, <2>1
  <2>6. \A g \in Heads \ {head} : Range(s) \cap Range(U[g]) = {} /\ Range(U[g]) \cap gone = {} /\ (g \in gone => U[g] = <<>>)
    <3> TAKE g \in Heads \ {head}
    <3>1. CASE g = list
      BY <2>2, <2>3, <3>1
    <3>2. CASE g # list
      BY <2>1, <2>3, <3>2
    <3> QED BY <3>1, <3>2
  <2>7. /\ Shape(With(U, head, s), gone) /\ With(U, head, s)[head] = s
        /\ \A g \in Heads \ {head} : With(U, head, s)[g] = U[g]
    <3>1. Fits(U, head, s, gone)
      BY <1>1, <2>5, <2>6 DEF Fits
    <3> QED BY <2>3, <3>1, ShapeUpdate
  <2> QED BY <2>3, <2>4, <2>7
<1>10. ASSUME NEW x, NEW y, Follows(S, st, x, y), x # before, x # z, x # list
       PROVE  m.next[x] = y /\ m.prev[y] = x
  <2>1. x \in Nodes /\ y \in Nodes
    BY <1>1, <1>10, FollowsFacts
  <2>2. y # f /\ y # after
    BY <1>1, <1>4, <1>10, FollowsFacts
  <2> QED BY <1>8, <1>10, <2>1, <2>2 DEF Rep
<1>11. ASSUME NEW g \in Heads \ st, g # list, NEW x, NEW y, Adjacent(S[g], g, x, y), x # before
       PROVE  m.next[x] = y /\ m.prev[y] = x
  <2>1. x \in {g} \cup Range(S[g]) /\ Follows(S, st, x, y)
    BY <1>2, <1>3, <1>11
  <2>2. x # z /\ x # list
    BY <1>1, <1>5, <1>11, <2>1, Apart
  <2> QED BY <1>10, <1>11, <2>1, <2>2
<1>12. ASSUME NEW x, NEW y, Adjacent(s, head, x, y) PROVE m.next[x] = y /\ m.prev[y] = x
  <2>1. CASE Adjacent(S[head], head, x, y) /\ x # before
    BY <1>11, <2>1
  <2>2. CASE x = before /\ Adjacent(S[list], list, list, y)
    <3>1. y = f
      BY <1>1, <1>3, <1>4, <2>2, FollowsFacts
    <3> QED BY <1>5, <1>8, <2>2, <3>1
  <2>3. CASE Adjacent(S[list], list, x, list) /\ y = after
    <3>1. x = z
      BY <1>1, <1>3, <1>4, <2>3, FollowsFacts
    <3> QED BY <1>5, <1>7, <1>8, <2>3, <3>1
  <2>4. CASE Adjacent(S[list], list, x, y) /\ x # list /\ y # list
    <3>1. x \in {list} \cup Range(S[list]) /\ Follows(S, st, x, y)
      BY <1>2, <1>3, <2>4
    <3>2. x # z
      BY <1>1, <1>4, <2>4, <3>1, FollowsFacts
    <3>3. x # before
      BY <1>1, <1>5, <3>1, Apart
    <3> QED BY <1>10, <2>4, <3>1, <3>2, <3>3
  <2> QED BY <1>12, <2>1, <2>2, <2>3, <2>4
<1>13. ASSUME NEW x \in Entries \ gone, Alone(T, x) PROVE m.next[x] = x /\ m.prev[x] = x
  <2>1. \A g \in Heads : x \notin Range(S[g])
    BY <1>9, <1>13 DEF Alone
  <2>2. Follows(S, st, x, x)
    BY <2>1 DEF Follows, Alone
  <2>3. x # before /\ x # z /\ x # list
    BY <1>1, <1>5, <2>1, NodesAssumption
  <2> QED BY <1>10, <2>2, <2>3
<1>14. ASSUME NEW x, NEW y, Follows(T, gone, x, y) PROVE m.next[x] = y /\ m.prev[y] = x
  <2>1. CASE x = y /\ x \in Entries \ gone /\ Alone(T, x)
    BY <1>13, <2>1
  <2>2. ASSUME NEW g \in Heads \ gone, Adjacent(T[g], g, x, y) PROVE m.next[x] = y /\ m.prev[y] = x
    <3>1. CASE g = head
      BY <1>9, <1>12, <2>2, <3>1
    <3>2. CASE g # head
      <4>1. Adjacent(S[g], g, x, y)
        BY <1>9, <2>2, <3>2
      <4>2. x \in {g} \cup Range(S[g])
        BY <1>2, <4>1
      <4>3. x # before
        BY <1>1, <1>5, <3>2, <4>2, Apart
      <4> QED BY <1>11, <4>1, <4>3
    <3> QED BY <3>1, <3>2
  <2> QED BY <1>14, <2>1, <2>2 DEF Follows
<1> QED BY <1>8, <1>9, <1>14 DEF Rep, T, m

-----------------------------------------------------------------------------
(* The steps.                                                              *)

\* The inductive invariant: Represents with the types of pointers and lists.
IInv == Rep(link, lists, stray)

\* At the beginning every list is empty, and no entry is set.
LEMMA InitHolds == Init => IInv
<1> SUFFICES ASSUME Init PROVE Rep(link, lists, stray)
  BY DEF IInv
<1>1. \A n \in Nodes : link.next[n] = (IF n \in Heads THEN n ELSE Null) /\ link.prev[n] = (IF n \in Heads THEN n ELSE Null)
  BY DEF Init
<1>2. link \in Links
  BY DEF Init, Links
<1>3. \A h \in Heads : lists[h] = <<>>
  BY DEF Init
<1>4. Shape(lists, stray)
  <2>1. lists \in [Heads -> Seq(Entries)] /\ stray \subseteq Nodes
    BY DEF Init, Nodes
  <2> QED BY <1>3, <2>1, EmptyRange DEF Shape
<1>5. ASSUME NEW x, NEW y, Follows(lists, stray, x, y) PROVE link.next[x] = y /\ link.prev[y] = x
  <2>1. ~(x \in Entries \ stray)
    BY DEF Init
  <2>2. PICK h \in Heads : Adjacent(lists[h], h, x, y)
    BY <1>5, <2>1 DEF Follows
  <2>3. x = h /\ y = h
    BY <1>3, <2>2, RingEmpty
  <2> QED BY <1>1, <2>3 DEF Nodes
<1> QED BY <1>2, <1>4, <1>5 DEF Rep

\* INIT_LIST_HEAD, list_add and list_add_tail.
LEMMA AddSteps ==
    ASSUME IInv
    PROVE  /\ \A n \in Nodes : init(n) => IInv'
           /\ \A e \in Entries, h \in Heads : list_add(e, h) => IInv'
           /\ \A e \in Entries, h \in Heads : list_add_tail(e, h) => IInv'
<1>1. ASSUME NEW n \in Nodes, init(n) PROVE IInv'
  <2>1. n \in stray \/ (n \in Entries /\ Alone(lists, n))
    BY <1>1 DEF init, Free, Alone
  <2>2. Rep(INIT_LIST_HEAD(link, n), lists, stray \ {n})
    BY <2>1, InitLemma DEF IInv
  <2> QED BY <1>1, <2>2 DEF IInv, init
<1>2. ASSUME NEW e \in Entries, NEW h \in Heads, list_add(e, h) PROVE IInv'
  <2>1. Alone(lists, e) /\ h \in Heads \ stray
    BY <1>2 DEF list_add, Free, Alone
  <2>2. Rep(AddFirst(link, e, h), [lists EXCEPT ![h] = <<e>> \o lists[h]], stray \ {e})
    BY <2>1, AddFirstLemma DEF IInv
  <2> QED BY <1>2, <2>2 DEF IInv, list_add
<1>3. ASSUME NEW e \in Entries, NEW h \in Heads, list_add_tail(e, h) PROVE IInv'
  <2>1. Alone(lists, e) /\ h \in Heads \ stray
    BY <1>3 DEF list_add_tail, Free, Alone
  <2>2. Rep(AddLast(link, e, h), [lists EXCEPT ![h] = Append(lists[h], e)], stray \ {e})
    BY <2>1, AddLastLemma DEF IInv
  <2> QED BY <1>3, <2>2 DEF IInv, list_add_tail
<1> QED BY <1>1, <1>2, <1>3

\* __list_del_entry of an entry that is set, in the calls that begin with it.
LEMMA Taken ==
    ASSUME IInv, NEW e \in Entries, Set(e)
    PROVE  /\ Rep(__list_del_entry(link, e), Without(e), stray \cup {e})
           /\ Alone(Without(e), e) /\ (stray \cup {e}) \ {e} = stray
           /\ e \in Nodes /\ \A h \in Heads \ stray : h \in Heads \ (stray \cup {e})
<1>1. e \in Entries \ stray /\ e \in Nodes /\ e \notin Heads
  BY NodesAssumption DEF Set, Nodes
<1>2. Without(e) = Off(lists, e)
  BY DEF Without, Off
<1>3. Rep(__list_del_entry(link, e), Off(lists, e), stray \cup {e})
  BY <1>1, DelLemma DEF IInv
<1>4. Alone(Off(lists, e), e)
  BY ShapeOff DEF IInv, Rep
<1> QED BY <1>1, <1>2, <1>3, <1>4

\* list_del, list_del_init, list_move and list_move_tail.
LEMMA DelSteps ==
    ASSUME IInv
    PROVE  /\ \A e \in Entries : list_del(e) => IInv'
           /\ \A e \in Entries : list_del_init(e) => IInv'
           /\ \A e \in Entries, h \in Heads : list_move(e, h) => IInv'
           /\ \A e \in Entries, h \in Heads : list_move_tail(e, h) => IInv'
<1>1. ASSUME NEW e \in Entries, list_del(e) PROVE IInv'
  <2> DEFINE m == __list_del_entry(link, e)
  <2>1. Rep(m, Without(e), stray \cup {e}) /\ e \in Nodes
    BY <1>1, Taken DEF list_del
  <2>2. m \in Links
    BY <2>1 DEF Rep
  <2>3. link' = [m EXCEPT !.next[e] = Null, !.prev[e] = Null]
    BY <1>1 DEF list_del
  <2> HIDE DEF m
  <2>4. /\ link' \in Links
        /\ \A x \in Nodes \ (stray \cup {e}) : link'.next[x] = m.next[x] /\ link'.prev[x] = m.prev[x]
    BY <2>1, <2>2, <2>3 DEF Links
  <2>5. Rep(link', Without(e), stray \cup {e})
    BY <2>1, <2>4, StrayPointers
  <2> QED BY <1>1, <2>5 DEF IInv, list_del
<1>2. ASSUME NEW e \in Entries, list_del_init(e) PROVE IInv'
  <2>1. /\ Rep(__list_del_entry(link, e), Without(e), stray \cup {e})
        /\ e \in Nodes /\ (stray \cup {e}) \ {e} = stray
    BY <1>2, Taken DEF list_del_init
  <2>2. Rep(INIT_LIST_HEAD(__list_del_entry(link, e), e), Without(e), (stray \cup {e}) \ {e})
    BY <2>1, InitLemma
  <2> QED BY <1>2, <2>1, <2>2 DEF IInv, list_del_init
<1>3. ASSUME NEW e \in Entries, NEW h \in Heads, list_move(e, h) PROVE IInv'
  <2>1. /\ Rep(__list_del_entry(link, e), Without(e), stray \cup {e}) /\ Alone(Without(e), e)
        /\ h \in Heads \ (stray \cup {e}) /\ (stray \cup {e}) \ {e} = stray
    BY <1>3, Taken DEF list_move
  <2>2. Rep(AddFirst(__list_del_entry(link, e), e, h), [Without(e) EXCEPT ![h] = <<e>> \o Without(e)[h]],
            (stray \cup {e}) \ {e})
    BY <2>1, AddFirstLemma
  <2> QED BY <1>3, <2>1, <2>2 DEF IInv, list_move
<1>4. ASSUME NEW e \in Entries, NEW h \in Heads, list_move_tail(e, h) PROVE IInv'
  <2>1. /\ Rep(__list_del_entry(link, e), Without(e), stray \cup {e}) /\ Alone(Without(e), e)
        /\ h \in Heads \ (stray \cup {e}) /\ (stray \cup {e}) \ {e} = stray
    BY <1>4, Taken DEF list_move_tail
  <2>2. Rep(AddLast(__list_del_entry(link, e), e, h), [Without(e) EXCEPT ![h] = Append(Without(e)[h], e)],
            (stray \cup {e}) \ {e})
    BY <2>1, AddLastLemma
  <2> QED BY <1>4, <2>1, <2>2 DEF IInv, list_move_tail
<1> QED BY <1>1, <1>2, <1>3, <1>4

\* list_replace and list_replace_init.
LEMMA ReplaceSteps ==
    ASSUME IInv, NEW old \in Entries, NEW new \in Entries
    PROVE  /\ list_replace(old, new) => IInv'
           /\ list_replace_init(old, new) => IInv'
<1>1. InPlace(old, new) = PutAll(lists, old, new)
  BY DEF InPlace, PutAll, Put
<1>2. ASSUME Set(old), Free(new), new # old
      PROVE  /\ Rep(Replaced(link, old, new), InPlace(old, new), (stray \ {new}) \cup {old})
             /\ old \in Nodes /\ ((stray \ {new}) \cup {old}) \ {old} = stray \ {new}
  <2>1. old \in Entries \ stray /\ Alone(lists, new)
    BY <1>2 DEF Set, Free, Alone
  <2>2. Rep(Replaced(link, old, new), PutAll(lists, old, new), (stray \ {new}) \cup {old})
    BY <1>2, <2>1, ReplaceLemma DEF IInv
  <2> QED BY <1>1, <2>1, <2>2 DEF Nodes
<1>3. ASSUME list_replace(old, new) PROVE IInv'
  BY <1>2, <1>3 DEF IInv, list_replace
<1>4. ASSUME list_replace_init(old, new) PROVE IInv'
  <2>1. /\ Rep(Replaced(link, old, new), InPlace(old, new), (stray \ {new}) \cup {old})
        /\ old \in Nodes /\ ((stray \ {new}) \cup {old}) \ {old} = stray \ {new}
    BY <1>2, <1>4 DEF list_replace_init
  <2>2. Rep(INIT_LIST_HEAD(Replaced(link, old, new), old), InPlace(old, new), ((stray \ {new}) \cup {old}) \ {old})
    BY <2>1, InitLemma
  <2> QED BY <1>4, <2>1, <2>2 DEF IInv, list_replace_init
<1> QED BY <1>3, <1>4

\* A list that list_empty says is not empty is not.
LEMMA NotEmpty ==
    ASSUME IInv, NEW h \in Heads \ stray, ~list_empty(link, h)
    PROVE  lists[h] # <<>>
<1>1. Adjacent(lists[h], h, h, link.next[h])
  BY HeadPointers DEF IInv
<1>2. Adjacent(<<>>, h, h, link.next[h]) => link.next[h] = h
  BY RingEmpty
<1> QED BY <1>1, <1>2 DEF list_empty

\* list_rotate_left.
LEMMA RotateStep ==
    ASSUME IInv, NEW h \in Heads, list_rotate_left(h)
    PROVE  IInv'
<1> DEFINE s == lists[h]
           first == link.next[h]
<1>1. /\ Shape(lists, stray) /\ h \in Heads \ stray /\ s # <<>>
      /\ s \in Seq(Entries) /\ IsInjective(s) /\ h \notin Range(s) /\ Range(s) \subseteq Entries /\ Range(s) \cap stray = {}
      /\ lists \in [Heads -> Seq(Entries)]
  BY NotEmpty, ShapeFacts DEF IInv, Rep, Shape, list_rotate_left, Still
<1>2. first = Head(s) /\ Unlink(s, first) = Tail(s) /\ first \in Range(s)
  <2>1. Adjacent(s, h, h, first)
    BY <1>1, HeadPointers DEF IInv
  <2>2. Unlink(s, Head(s)) = Tail(s) /\ Adjacent(s, h, h, Head(s))
    BY <1>1, UnlinkHead
  <2>3. Head(s) \in Range(s)
    BY <1>1, HeadTailLemma
  <2>4. first = Head(s)
    BY <1>1, <2>1, <2>2, RingUnique
  <2> QED BY <2>2, <2>3, <2>4
<1>3. first \in Entries /\ Set(first)
  BY <1>1, <1>2 DEF Set
<1>4. /\ Rep(__list_del_entry(link, first), Without(first), stray \cup {first}) /\ Alone(Without(first), first)
      /\ h \in Heads \ (stray \cup {first}) /\ (stray \cup {first}) \ {first} = stray
  BY <1>1, <1>3, Taken
<1> DEFINE T == [Without(first) EXCEPT ![h] = Append(Without(first)[h], first)]
<1>5. Rep(AddLast(__list_del_entry(link, first), first, h), T, stray)
  BY <1>3, <1>4, AddLastLemma
<1>6. T = [lists EXCEPT ![h] = Append(Tail(s), Head(s))]
  <2>1. \A g \in Heads : Without(first)[g] = IF g = h THEN Tail(s) ELSE lists[g]
    <3> TAKE g \in Heads
    <3>1. Without(first)[g] = Unlink(lists[g], first)
      BY DEF Without
    <3>2. CASE g = h
      BY <1>2, <3>1, <3>2
    <3>3. CASE g # h
      <4>1. first \notin Range(lists[g])
        BY <1>1, <1>2, <3>3 DEF Shape
      <4> QED BY <3>1, <3>3, <4>1 DEF Unlink
    <3> QED BY <3>2, <3>3
  <2>2. Without(first) = [g \in Heads |-> Without(first)[g]]
    BY DEF Without
  <2> HIDE DEF s, first
  <2> QED BY <1>1, <1>2, <2>1, <2>2
<1>7. /\ link' = AddLast(__list_del_entry(link, first), first, h)
      /\ lists' = [lists EXCEPT ![h] = Append(Tail(s), Head(s))] /\ stray' = stray
  BY DEF list_rotate_left
<1> QED BY <1>5, <1>6, <1>7 DEF IInv

\* list_cut_position.
LEMMA CutStep ==
    ASSUME IInv, NEW list \in Heads, NEW head \in Heads, NEW entry \in Nodes,
           list_cut_position(list, head, entry)
    PROVE  IInv'
<1> DEFINE s == lists[head]
           k == IF entry = head THEN 0 ELSE CHOOSE i \in DOMAIN s : s[i] = entry
           p == SubSeq(s, 1, k)
           q == SubSeq(s, k + 1, Len(s))
           T == [lists EXCEPT ![list] = p, ![head] = q]
<1>1. /\ Shape(lists, stray) /\ lists \in [Heads -> Seq(Entries)] /\ link \in Links
      /\ s \in Seq(Entries) /\ Len(s) \in Nat
      /\ list \in Heads \ stray /\ head \in Heads \ stray /\ list # head /\ lists[list] = <<>>
      /\ head \notin Range(s) /\ list \in Nodes
  BY ShapeFacts, LenProperties DEF IInv, Rep, Shape, list_cut_position, Still
<1>2. /\ link' = (IF entry = head THEN INIT_LIST_HEAD(link, list) ELSE __list_cut_position(link, list, head, entry))
      /\ lists' = T /\ stray' = stray
  <2>1. [lists EXCEPT ![list] = p][head] = s
    BY <1>1
  <2> QED BY <2>1 DEF list_cut_position
<1>3. CASE entry = head
  <2>1. p = <<>> /\ q = s
    <3>1. p \in Seq(Entries) /\ Len(p) = 0
      BY <1>1, <1>3, SubSeqPrefix
    <3>2. q \in Seq(Entries) /\ Len(q) = Len(s) /\ \A i \in 1 .. Len(s) : q[i] = s[i]
      <4>1. 0 \in 0 .. Len(s) /\ Len(s) - 0 = Len(s) /\ \A i \in 1 .. Len(s) : 0 + i = i
        BY <1>1
      <4> QED BY <1>1, <1>3, <4>1, SubSeqSuffix
    <3> HIDE DEF p, q
    <3> QED BY <1>1, <3>1, <3>2, EmptySeq, SeqEqual
  <2>2. T = lists
    BY <1>1, <2>1
  <2>3. link.next[list] = list /\ link.prev[list] = list
    <3>1. Adjacent(lists[list], list, list, link.next[list]) /\ Adjacent(lists[list], list, link.prev[list], list)
      BY <1>1, HeadPointers DEF IInv
    <3> QED BY <1>1, <3>1, RingEmpty
  <2>4. /\ INIT_LIST_HEAD(link, list) \in Links
        /\ \A x \in Nodes : INIT_LIST_HEAD(link, list).next[x] = link.next[x] /\ INIT_LIST_HEAD(link, list).prev[x] = link.prev[x]
    BY <1>1, <2>3, InitPointers
  <2>5. Rep(INIT_LIST_HEAD(link, list), lists, stray)
    BY <2>4, StrayPointers DEF IInv
  <2> QED BY <1>2, <1>3, <2>2, <2>5 DEF IInv
<1>4. CASE entry # head
  <2>1. entry \in Range(s)
    BY <1>4 DEF list_cut_position
  <2>2. k \in DOMAIN s /\ s[k] = entry
    BY <1>4, <2>1 DEF Range
  <2>3. k \in 1 .. Len(s)
    BY <1>1, <2>2, LenProperties
  <2>4. CutAt(s, k, p, q)
    BY DEF CutAt
  <2> HIDE DEF k, p, q
  <2>5. Rep(__list_cut_position(link, list, head, s[k]), T, stray)
    BY <1>1, <2>3, <2>4, CutLemma DEF IInv
  <2> QED BY <1>2, <1>4, <2>2, <2>5 DEF IInv
<1> QED BY <1>3, <1>4

\* list_splice, list_splice_tail and those with _init.
LEMMA SpliceStep ==
    ASSUME IInv, NEW list \in Heads, NEW head \in Heads, NEW atTail \in BOOLEAN, NEW initialised \in BOOLEAN,
           list_splice(list, head, atTail, initialised)
    PROVE  IInv'
<1> DEFINE s == lists[head]
           t == lists[list]
           u == IF atTail THEN s \o t ELSE t \o s
           before == IF atTail THEN link.prev[head] ELSE head
           after == IF atTail THEN head ELSE link.next[head]
           joined == __list_splice(link, list, before, after)
           T == [lists EXCEPT ![list] = <<>>, ![head] = u]
<1>1. /\ list \in Heads \ stray /\ head \in Heads \ stray /\ list # head /\ t # <<>>
      /\ Shape(lists, stray) /\ lists \in [Heads -> Seq(Entries)]
  BY NotEmpty DEF IInv, Rep, Shape, list_splice, Still
<1>2. /\ s \in Seq(Entries) /\ t \in Seq(Entries) /\ IsInjective(s) /\ IsInjective(t)
      /\ Range(s) \cap Range(t) = {} /\ head \notin Entries /\ list \notin Entries
      /\ head \notin Range(s) /\ list \in Nodes
  <2>1. Range(s) \cap Range(t) = {}
    BY <1>1 DEF Shape
  <2> QED BY <1>1, <2>1, ShapeFacts
<1>3. /\ link' = (IF initialised THEN INIT_LIST_HEAD(joined, list) ELSE joined)
      /\ lists' = T /\ stray' = (IF initialised THEN stray ELSE stray \cup {list})
  <2>1. [lists EXCEPT ![list] = <<>>][head] = s
    BY <1>1
  <2> QED BY <2>1 DEF list_splice
<1>4. /\ Adjacent(s, head, head, link.next[head]) /\ Adjacent(s, head, link.prev[head], head)
  BY <1>1, HeadPointers DEF IInv
<1>5. /\ \A y : Adjacent(s, head, head, y) => y = link.next[head]
      /\ \A x : Adjacent(s, head, x, head) => x = link.prev[head]
      /\ \A y : Adjacent(s, head, link.prev[head], y) => y = head
  BY <1>2, <1>4, RingUnique
<1> HIDE DEF s, t
<1>6. /\ s \o t \in Seq(Entries) /\ IsInjective(s \o t) /\ Range(s \o t) = Range(s) \cup Range(t)
      /\ \A x, y : Adjacent(s \o t, head, x, y) =>
           \/ Adjacent(s, head, x, y) /\ y # head
           \/ Adjacent(s, head, x, head) /\ Adjacent(t, list, list, y)
           \/ Adjacent(t, list, x, list) /\ y = head
           \/ Adjacent(t, list, x, y) /\ x # list /\ y # list
  BY <1>1, <1>2, InjectiveConcat, SpliceBack
<1>7. /\ t \o s \in Seq(Entries) /\ IsInjective(t \o s) /\ Range(t \o s) = Range(t) \cup Range(s)
      /\ \A x, y : Adjacent(t \o s, head, x, y) =>
           \/ Adjacent(s, head, x, y) /\ x # head
           \/ x = head /\ Adjacent(t, list, list, y)
           \/ Adjacent(t, list, x, list) /\ Adjacent(s, head, head, y)
           \/ Adjacent(t, list, x, y) /\ x # list /\ y # list
  BY <1>1, <1>2, InjectiveConcat, SpliceFront
<1>8. /\ u \in Seq(Entries) /\ IsInjective(u) /\ Range(u) = Range(s) \cup Range(t)
      /\ Adjacent(s, head, before, after)
      /\ \A x, y : Adjacent(u, head, x, y) =>
           \/ Adjacent(s, head, x, y) /\ x # before
           \/ x = before /\ Adjacent(t, list, list, y)
           \/ Adjacent(t, list, x, list) /\ y = after
           \/ Adjacent(t, list, x, y) /\ x # list /\ y # list
  <2>1. CASE atTail
    <3>1. u = s \o t
      BY <2>1
    <3> HIDE DEF u
    <3> QED BY <1>4, <1>5, <1>6, <2>1, <3>1
  <2>2. CASE ~atTail
    <3>1. u = t \o s
      BY <2>2
    <3> HIDE DEF u
    <3> QED BY <1>4, <1>5, <1>7, <2>2, <3>1
  <2> QED BY <2>1, <2>2
<1> HIDE DEF u, before, after
<1>9. Rep(joined, T, stray \cup {list})
  BY <1>1, <1>8, SpliceLemma DEF IInv, s, t
<1>10. CASE ~initialised
  BY <1>3, <1>9, <1>10 DEF IInv
<1>11. CASE initialised
  <2>1. Rep(INIT_LIST_HEAD(joined, list), T, (stray \cup {list}) \ {list})
    BY <1>2, <1>9, InitLemma
  <2>2. (stray \cup {list}) \ {list} = stray
    BY <1>1
  <2> QED BY <1>3, <1>11, <2>1, <2>2 DEF IInv
<1> QED BY <1>10, <1>11

\* Every step of the lists and of the loops over them leaves the pointers right.
LEMMA StepHolds == IInv /\ [Next]_vars => IInv'
<1> SUFFICES ASSUME IInv, [Next]_vars PROVE IInv'
  OBVIOUS
<1>1. ASSUME NEW n \in Nodes, init(n) PROVE IInv'
  BY <1>1, AddSteps
<1>2. ASSUME NEW e \in Entries, list_del(e) \/ list_del_init(e) PROVE IInv'
  BY <1>2, DelSteps
<1>3. ASSUME NEW e \in Entries, NEW h \in Heads,
             list_add(e, h) \/ list_add_tail(e, h) \/ list_move(e, h) \/ list_move_tail(e, h)
      PROVE  IInv'
  BY <1>3, AddSteps, DelSteps
<1>4. ASSUME NEW e \in Entries, NEW new \in Entries, list_replace(e, new) \/ list_replace_init(e, new) PROVE IInv'
  BY <1>4, ReplaceSteps
<1>5. ASSUME NEW h \in Heads, list_rotate_left(h) PROVE IInv'
  BY <1>5, RotateStep
<1>6. ASSUME NEW h \in Heads, NEW list \in Heads, NEW entry \in Nodes, list_cut_position(list, h, entry) PROVE IInv'
  BY <1>6, CutStep
<1>7. ASSUME NEW h \in Heads, NEW list \in Heads, NEW atTail \in BOOLEAN, NEW initialised \in BOOLEAN,
             list_splice(list, h, atTail, initialised)
      PROVE  IInv'
  BY <1>7, SpliceStep
<1>8. CASE Loop \/ UNCHANGED vars
  BY <1>8 DEF Loop, list_for_each, WalkOn, WalkEnds, vars, IInv
<1> QED BY <1>1, <1>2, <1>3, <1>4, <1>5, <1>6, <1>7, <1>8 DEF Next, Operation

\* What the invariant says of the pointers, node by node.
LEMMA IInvRepresents == IInv => Represents
<1> SUFFICES ASSUME Rep(link, lists, stray) PROVE Represents
  BY DEF IInv
<1>1. Shape(lists, stray)
  BY DEF Rep
<1>2. \A h \in Heads : /\ DOMAIN lists[h] = 1 .. Len(lists[h]) /\ Range(lists[h]) \subseteq Entries \ stray
                       /\ IsInjective(lists[h])
                       /\ \A i \in DOMAIN lists[h] : lists[h][i] \in Range(lists[h])
  <2> TAKE h \in Heads
  <2>1. lists[h] \in Seq(Entries) /\ IsInjective(lists[h]) /\ Range(lists[h]) \subseteq Entries \ stray
    BY <1>1, ShapeFacts
  <2> QED BY <2>1, LenProperties DEF Range
<1>3. ASSUME NEW h \in Heads \ stray, NEW k \in 0 .. Len(lists[h])
      PROVE  link.next[At(h, k)] = At(h, k + 1) /\ link.prev[At(h, k + 1)] = At(h, k)
  <2>1. At(h, k) = Nth(lists[h], h, k) /\ At(h, k + 1) = Nth(lists[h], h, k + 1)
    BY DEF At, Nth
  <2>2. Adjacent(lists[h], h, At(h, k), At(h, k + 1))
    BY <2>1 DEF Adjacent
  <2>3. Follows(lists, stray, At(h, k), At(h, k + 1))
    BY <2>2 DEF Follows
  <2> QED BY <2>3 DEF Rep
<1>4. ASSUME NEW e \in Entries \ stray, Free(e) PROVE link.next[e] = e /\ link.prev[e] = e
  <2>1. Follows(lists, stray, e, e)
    BY <1>4 DEF Follows, Free, Alone
  <2> QED BY <2>1 DEF Rep
<1>5. ASSUME NEW g \in Heads, NEW h \in Heads, NEW i \in DOMAIN lists[g], NEW j \in DOMAIN lists[h], lists[g][i] = lists[h][j]
      PROVE  g = h /\ i = j
  <2>1. g = h
    BY <1>1, <1>2, <1>5 DEF Shape
  <2> QED BY <1>2, <1>5, <2>1 DEF IsInjective
<1>6. \A h \in Heads \cap stray : lists[h] = <<>>
  BY <1>1 DEF Shape
<1> QED BY <1>2, <1>3, <1>4, <1>5, <1>6 DEF Represents

\* Whatever calls are made, in a loop or outside, the pointers of every list lead through its
\* entries in order and back, and no entry is on two lists or on one twice.
THEOREM PointersRepresentLists == Spec => []Represents
<1>1. Spec => []IInv
  BY InitHolds, StepHolds, PTL DEF Spec
<1> QED BY <1>1, IInvRepresents, PTL

-----------------------------------------------------------------------------
(* The loops come to every entry that stays on the list.                   *)

\* list_add and list_add_tail keep every entry in its place.
LEMMA KeepsAdded ==
    ASSUME NEW S, NEW s \in Seq(S), NEW e \in S, NEW X
    PROVE  Keeps(s, Cons(e, s), X) /\ Keeps(s, Append(s, e), X)
<1>1. DOMAIN s = 1 .. Len(s) /\ Len(s) \in Nat
  BY LenProperties
<1>2. ASSUME NEW t, DOMAIN t = 1 .. Len(s) + 1, NEW d \in {0, 1}, \A i \in 1 .. Len(s) : t[i + d] = s[i]
      PROVE  Keeps(s, t, X)
  <2>1. \A i \in DOMAIN s : i + d \in DOMAIN t /\ t[i + d] = s[i]
    BY <1>1, <1>2
  <2>2. \A x \in X : x \in Range(s) => x \in Range(t)
    BY <2>1 DEF Range
  <2>3. \A i, j \in DOMAIN s : i < j => i + d < j + d
    BY <1>1, <1>2
  <2>4. ASSUME NEW x \in X, NEW y \in X, Prec(s, x, y) PROVE Prec(t, x, y)
    <3>1. PICK i, j \in DOMAIN s : i < j /\ s[i] = x /\ s[j] = y
      BY <2>4 DEF Prec
    <3> QED BY <2>1, <2>3, <3>1 DEF Prec
  <2> QED BY <2>2, <2>4 DEF Keeps
<1>3. Keeps(s, Append(s, e), X)
  <2>1. /\ Append(s, e) \in Seq(S) /\ Len(Append(s, e)) = Len(s) + 1
        /\ \A i \in 1 .. Len(s) : Append(s, e)[i] = s[i]
    BY AppendProperties
  <2> DEFINE t == Append(s, e)
  <2> HIDE DEF t
  <2>2. DOMAIN t = 1 .. Len(s) + 1
    BY <2>1, LenProperties DEF t
  <2>3. \A i \in 1 .. Len(s) : t[i + 0] = s[i]
    BY <1>1, <2>1 DEF t
  <2>4. Keeps(s, t, X)
    BY <1>2, <2>2, <2>3
  <2> QED BY <2>4 DEF t
<1>4. Keeps(s, Cons(e, s), X)
  <2> DEFINE one == <<e>>
             t == one \o s
  <2>1. one \in Seq(S) /\ Len(one) = 1
    OBVIOUS
  <2> HIDE DEF one
  <2>2. /\ t \in Seq(S) /\ Len(t) = 1 + Len(s)
        /\ \A i \in 1 .. 1 + Len(s) : t[i] = IF i <= 1 THEN one[i] ELSE s[i - 1]
    BY <2>1, ConcatProperties
  <2> HIDE DEF t
  <2>3. DOMAIN t = 1 .. Len(s) + 1
    BY <1>1, <2>2, LenProperties
  <2>4. \A i \in 1 .. Len(s) : t[i + 1] = s[i]
    BY <1>1, <2>2
  <2>5. Keeps(s, t, X)
    BY <1>2, <2>3, <2>4
  <2> QED BY <2>5 DEF t, one, Cons
<1> QED BY <1>3, <1>4

\* list_replace keeps every other entry in its place.
LEMMA KeepsPut ==
    ASSUME NEW s, NEW old, NEW new, NEW X, old \notin X
    PROVE  Keeps(s, Put(s, old, new), X)
<1>1. DOMAIN Put(s, old, new) = DOMAIN s /\ \A i \in DOMAIN s : s[i] # old => Put(s, old, new)[i] = s[i]
  BY DEF Put
<1> QED BY <1>1 DEF Keeps, Prec, Range

\* One call after another.
LEMMA KeepsBoth ==
    ASSUME NEW s, NEW t, NEW u, NEW X, Keeps(s, t, X), Keeps(t, u, X)
    PROVE  Keeps(s, u, X)
BY DEF Keeps

-----------------------------------------------------------------------------
(* Loops.                                                                  *)

\* In the direction dir the entry y comes after x.
Toward(s, dir, x, y) == IF dir = "next" THEN Prec(s, x, y) ELSE Prec(s, y, x)

\* What a loop that is at x has before it; at the head h it begins, or has ended.
Strict(s, h, dir, x) == IF x = h THEN Range(s) ELSE {y \in Range(s) : Toward(s, dir, x, y)}

\* The same with x itself.
From(s, h, dir, x) == IF x = h THEN {} ELSE {x} \cup {y \in Range(s) : Toward(s, dir, x, y)}

\* The pointers of a list lead to the entry after the one they are in, and from
\* the head to the first, in either direction.
LEMMA LinkLeads ==
    ASSUME NEW l, NEW S, NEW st, Rep(l, S, st), NEW h \in Heads \ st, NEW dir \in {"next", "prev"},
           NEW x \in {h} \cup Range(S[h])
    PROVE  /\ l[dir][x] \in {h} \cup Range(S[h])
           /\ Strict(S[h], h, dir, x) = From(S[h], h, dir, l[dir][x])
<1> DEFINE s == S[h]
           y == l[dir][x]
<1>1. /\ s \in Seq(Entries) /\ IsInjective(s) /\ h \notin Range(s)
  BY ShapeFacts DEF Rep
<1>2. DOMAIN s = 1 .. Len(s) /\ Len(s) \in Nat
  BY <1>1, LenProperties
<1>3. /\ \E z : Adjacent(s, h, x, z)
      /\ \E z : Adjacent(s, h, z, x)
      /\ \A a, b : Adjacent(s, h, a, b) => a \in {h} \cup Range(s) /\ b \in {h} \cup Range(s)
  BY <1>1, RingNodes
<1>4. \A a, b : Adjacent(s, h, a, b) => l.next[a] = b /\ l.prev[b] = a
  BY DEF Rep, Follows
<1>5. IF dir = "next" THEN Adjacent(s, h, x, y) ELSE Adjacent(s, h, y, x)
  BY <1>3, <1>4
<1>6. y \in {h} \cup Range(s)
  BY <1>3, <1>5
<1>7. \A i, j \in 1 .. Len(s) : s[i] = s[j] => i = j
  BY <1>1, <1>2 DEF IsInjective
<1>8. \A i \in 1 .. Len(s) : s[i] # h /\ s[i] \in Range(s)
  BY <1>1, <1>2 DEF Range
<1>9. \A z : z \in Range(s) <=> \E i \in 1 .. Len(s) : s[i] = z
  BY <1>2 DEF Range
<1> HIDE DEF s, y
\* What comes after the k-th entry, and before it.
<1>10. ASSUME NEW k \in 1 .. Len(s)
       PROVE  /\ \A z : Prec(s, s[k], z) <=> \E i \in 1 .. Len(s) : k < i /\ s[i] = z
              /\ \A z : Prec(s, z, s[k]) <=> \E i \in 1 .. Len(s) : i < k /\ s[i] = z
  BY <1>2, <1>7 DEF Prec
<1>11. CASE dir = "next"
  <2>1. PICK k \in 0 .. Len(s) : x = Nth(s, h, k) /\ y = Nth(s, h, k + 1)
    BY <1>5, <1>11 DEF Adjacent
  <2>2. /\ x = (IF k = 0 THEN h ELSE s[k]) /\ (k # 0 => k \in 1 .. Len(s))
        /\ y = (IF k = Len(s) THEN h ELSE s[k + 1]) /\ (k # Len(s) => k + 1 \in 1 .. Len(s))
    <3>0. Len(s) \in Nat
      BY <1>2
    <3>1. /\ k \in Nat /\ k <= Len(s)
          /\ (k # 0 => k \in 1 .. Len(s)) /\ 0 \notin 1 .. Len(s)
          /\ (k # Len(s) => k + 1 \in 1 .. Len(s)) /\ Len(s) + 1 \notin 1 .. Len(s)
      BY <3>0
    <3> QED BY <1>2, <2>1, <3>1 DEF Nth
  <2>3. \A z : z \in Strict(s, h, dir, x) <=> \E i \in 1 .. Len(s) : k < i /\ s[i] = z
    <3>1. CASE k = 0
      <4>1. \A i \in 1 .. Len(s) : k < i
        BY <1>2, <3>1
      <4> QED BY <1>9, <2>2, <3>1, <4>1 DEF Strict
    <3>2. CASE k # 0
      <4>1. x # h /\ k \in 1 .. Len(s) /\ x = s[k]
        BY <1>8, <2>2, <3>2
      <4>2. \A z : z \in Strict(s, h, dir, x) <=> z \in Range(s) /\ Prec(s, s[k], z)
        BY <1>11, <4>1 DEF Strict, Toward
      <4> QED BY <1>9, <1>10, <4>1, <4>2
    <3> QED BY <3>1, <3>2
  <2>4. \A z : z \in From(s, h, dir, y) <=> \E i \in 1 .. Len(s) : k < i /\ s[i] = z
    <3>1. CASE k = Len(s)
      <4>1. ~ \E i \in 1 .. Len(s) : k < i
        BY <1>2, <3>1
      <4> QED BY <2>2, <3>1, <4>1 DEF From
    <3>2. CASE k # Len(s)
      <4>1. y # h /\ k + 1 \in 1 .. Len(s) /\ y = s[k + 1]
        BY <1>8, <2>2, <3>2
      <4>2. \A z : z \in From(s, h, dir, y) <=> z = s[k + 1] \/ (z \in Range(s) /\ Prec(s, s[k + 1], z))
        BY <1>11, <4>1 DEF From, Toward
      <4>3. \A i \in 1 .. Len(s) : k < i <=> i = k + 1 \/ k + 1 < i
        BY <1>2
      <4> QED BY <1>9, <1>10, <4>1, <4>2, <4>3
    <3> QED BY <3>1, <3>2
  <2> QED BY <1>6, <2>3, <2>4 DEF s, y
<1>12. CASE dir = "prev"
  <2>1. PICK k \in 0 .. Len(s) : y = Nth(s, h, k) /\ x = Nth(s, h, k + 1)
    BY <1>5, <1>12 DEF Adjacent
  <2>2. /\ y = (IF k = 0 THEN h ELSE s[k]) /\ (k # 0 => k \in 1 .. Len(s))
        /\ x = (IF k = Len(s) THEN h ELSE s[k + 1]) /\ (k # Len(s) => k + 1 \in 1 .. Len(s))
    <3>0. Len(s) \in Nat
      BY <1>2
    <3>1. /\ k \in Nat /\ k <= Len(s)
          /\ (k # 0 => k \in 1 .. Len(s)) /\ 0 \notin 1 .. Len(s)
          /\ (k # Len(s) => k + 1 \in 1 .. Len(s)) /\ Len(s) + 1 \notin 1 .. Len(s)
      BY <3>0
    <3> QED BY <1>2, <2>1, <3>1 DEF Nth
  <2>3. \A z : z \in Strict(s, h, dir, x) <=> \E i \in 1 .. Len(s) : i < k + 1 /\ s[i] = z
    <3>1. CASE k = Len(s)
      <4>1. \A i \in 1 .. Len(s) : i < k + 1
        BY <1>2, <3>1
      <4> QED BY <1>9, <2>2, <3>1, <4>1 DEF Strict
    <3>2. CASE k # Len(s)
      <4>1. x # h /\ k + 1 \in 1 .. Len(s) /\ x = s[k + 1]
        BY <1>8, <2>2, <3>2
      <4>2. \A z : z \in Strict(s, h, dir, x) <=> z \in Range(s) /\ Prec(s, z, s[k + 1])
        BY <1>12, <4>1 DEF Strict, Toward
      <4> QED BY <1>9, <1>10, <4>1, <4>2
    <3> QED BY <3>1, <3>2
  <2>4. \A z : z \in From(s, h, dir, y) <=> \E i \in 1 .. Len(s) : i < k + 1 /\ s[i] = z
    <3>1. CASE k = 0
      <4>1. ~ \E i \in 1 .. Len(s) : i < k + 1
        BY <1>2, <3>1
      <4> QED BY <2>2, <3>1, <4>1 DEF From
    <3>2. CASE k # 0
      <4>1. y # h /\ k \in 1 .. Len(s) /\ y = s[k]
        BY <1>8, <2>2, <3>2
      <4>2. \A z : z \in From(s, h, dir, y) <=> z = s[k] \/ (z \in Range(s) /\ Prec(s, z, s[k]))
        BY <1>12, <4>1 DEF From, Toward
      <4>3. \A i \in 1 .. Len(s) : i < k + 1 <=> i = k \/ i < k
        BY <1>2
      <4>4. \A z : Prec(s, z, s[k]) => z \in Range(s)
        BY <1>9, <1>10, <4>1
      <4>5. \A z : z \in From(s, h, dir, y) <=> z = s[k] \/ \E i \in 1 .. Len(s) : i < k /\ s[i] = z
        BY <1>10, <4>1, <4>2, <4>4
      <4> QED BY <4>1, <4>3, <4>5
    <3> QED BY <3>1, <3>2
  <2> QED BY <1>6, <2>3, <2>4 DEF s, y
<1> QED BY <1>11, <1>12

\* An entry is not before itself in a loop.
LEMMA NotAhead ==
    ASSUME NEW S, NEW st, Shape(S, st), NEW h \in Heads, NEW dir, NEW x, x # h
    PROVE  x \notin Strict(S[h], h, dir, x)
<1>1. S[h] \in Seq(Entries) /\ IsInjective(S[h])
  BY ShapeFacts
<1>2. ~Prec(S[h], x, x)
  BY <1>1, PrecOrder
<1> QED BY <1>2 DEF Strict, Toward

\* A call that keeps entries in their order keeps what a loop has before it.
LEMMA StillAhead ==
    ASSUME NEW S, NEW st, Shape(S, st), NEW T, NEW su, Shape(T, su), NEW h \in Heads, NEW dir,
           NEW X, Keeps(S[h], T[h], X), NEW x \in X, NEW y \in X, y \in Range(S[h]), x \in {h} \cup Range(S[h])
    PROVE  /\ y \in Strict(S[h], h, dir, x) <=> y \in Strict(T[h], h, dir, x)
           /\ y \in From(S[h], h, dir, x) <=> y \in From(T[h], h, dir, x)
<1> DEFINE s == S[h]
           t == T[h]
<1>1. s \in Seq(Entries) /\ IsInjective(s) /\ t \in Seq(Entries) /\ IsInjective(t)
  BY ShapeFacts
<1> HIDE DEF s, t
<1>2. y \in Range(s) /\ y \in Range(t)
  BY DEF Keeps, s, t
<1>3. CASE x = h
  BY <1>2, <1>3 DEF Strict, From, s, t
<1>4. CASE x # h
  <2>1. x \in Range(s) /\ x \in Range(t)
    BY <1>4 DEF Keeps, s, t
  <2>2. /\ Prec(s, x, y) => Prec(t, x, y)
        /\ Prec(s, y, x) => Prec(t, y, x)
    BY DEF Keeps, s, t
  <2>3. /\ x # y => Prec(s, x, y) \/ Prec(s, y, x)
        /\ ~Prec(s, x, x) /\ ~Prec(t, x, x)
        /\ ~(Prec(t, x, y) /\ Prec(t, y, x))
    BY <1>1, <1>2, <2>1, PrecOrder
  <2>4. (Prec(s, x, y) <=> Prec(t, x, y)) /\ (Prec(s, y, x) <=> Prec(t, y, x))
    BY <2>2, <2>3
  <2>5. Toward(s, dir, x, y) <=> Toward(t, dir, x, y)
    BY <2>4 DEF Toward
  <2> QED BY <1>2, <1>4, <2>5 DEF Strict, From, s, t
<1> QED BY <1>3, <1>4

-----------------------------------------------------------------------------
(* The invariant.                                                          *)

\* The entry a loop goes on from.
Held(w) == IF w.safe THEN w.n ELSE w.pos

\* What a loop will come to after pos.
Rest(w, S) ==
    IF w.safe THEN From(S[w.head], w.head, w.dir, w.n) ELSE Strict(S[w.head], w.head, w.dir, w.pos)

\* What is true of a loop between two turns: it goes on from an entry of its list
\* or from the head, and of the entries that are due it has seen just those that
\* are neither pos nor before it.
Course(w, S, st) ==
    /\ w \in Walks /\ w.head \notin st
    /\ w.pos \in Nodes /\ (w.safe => w.n \in Nodes)
    /\ w.due \subseteq Range(S[w.head])
    /\ w.pos = w.head => w.due \subseteq w.seen
    /\ w.pos # w.head =>
         /\ w.pos \in Entries
         /\ Held(w) \in {w.head} \cup Range(S[w.head])
         /\ w.due \ w.seen = w.due \cap ({w.pos} \cup Rest(w, S))
         /\ w.pos \in w.due => w.pos \notin Rest(w, S)

\* The inductive invariant of the loops.
WInv == Walking => Course(walk, lists, stray)

\* A call in the body of a loop that keeps the entries still due, and the one the
\* loop goes on from, in their order on the list does not disturb the loop.
LEMMA CourseKept ==
    ASSUME NEW w, NEW S, NEW st, NEW T, NEW su, Shape(S, st), Shape(T, su), Course(w, S, st),
           NEW D, D \subseteq w.due, w.head \notin su,
           Keeps(S[w.head], T[w.head], D \cup {Held(w)})
    PROVE  Course([w EXCEPT !.due = D], T, su)
<1> DEFINE v == [w EXCEPT !.due = D]
           h == w.head
<1>1. /\ w \in Walks /\ h \in Heads
      /\ w.pos \in Nodes /\ (w.safe => w.n \in Nodes)
      /\ w.due \subseteq Range(S[h])
      /\ w.pos = h => w.due \subseteq w.seen
      /\ w.pos # h => /\ w.pos \in Entries
                      /\ Held(w) \in {h} \cup Range(S[h])
                      /\ w.due \ w.seen = w.due \cap ({w.pos} \cup Rest(w, S))
                      /\ w.pos \in w.due => w.pos \notin Rest(w, S)
  BY DEF Course, Walks
<1>2. /\ v.head = h /\ v.dir = w.dir /\ v.safe = w.safe /\ v.pos = w.pos /\ v.n = w.n
      /\ v.seen = w.seen /\ v.due = D
  BY <1>1 DEF Walks
<1>3. v \in Walks
  BY <1>1 DEF Walks
<1> HIDE DEF v
<1>4. Held(v) = Held(w)
  BY <1>2 DEF Held
<1>5. D \subseteq Range(T[h])
  BY <1>1 DEF Keeps
<1>6. w.pos # h => Held(w) \in {h} \cup Range(T[h])
  BY <1>1 DEF Keeps
<1>7. ASSUME w.pos # h, NEW x \in D PROVE x \in Rest(v, T) <=> x \in Rest(w, S)
  <2>1. x \in Range(S[h]) /\ Held(w) \in {h} \cup Range(S[h])
    BY <1>1, <1>7
  <2>2. /\ x \in Strict(S[h], h, w.dir, Held(w)) <=> x \in Strict(T[h], h, w.dir, Held(w))
        /\ x \in From(S[h], h, w.dir, Held(w)) <=> x \in From(T[h], h, w.dir, Held(w))
    BY <1>1, <1>7, <2>1, StillAhead
  <2> QED BY <1>2, <2>2 DEF Rest, Held
<1>8. ASSUME w.pos # h
      PROVE  /\ D \ w.seen = D \cap ({w.pos} \cup Rest(v, T))
             /\ w.pos \in D => w.pos \notin Rest(v, T)
  BY <1>1, <1>7, <1>8
<1> QED BY <1>1, <1>2, <1>3, <1>4, <1>5, <1>6, <1>8 DEF Course, v

\* A call that takes the entries R off the list of the loop, or out of what is due.
LEMMA CallKept ==
    ASSUME IInv, IInv', WInv, NEW R,
           walk' = IF Walking THEN [walk EXCEPT !.due = walk.due \ R] ELSE walk,
           Walking => /\ walk.head \notin stray'
                      /\ Keeps(lists[walk.head], lists'[walk.head], (walk.due \ R) \cup Pinned)
    PROVE  WInv'
<1> SUFFICES ASSUME Walking' PROVE Course(walk', lists', stray')
  BY DEF WInv
<1>1. Walking
  BY DEF Walking
<1>2. Course(walk, lists, stray) /\ Shape(lists, stray) /\ Shape(lists', stray')
  BY <1>1 DEF WInv, IInv, Rep
<1>3. Pinned = {Held(walk)}
  BY <1>1 DEF Pinned, Held
<1>4. /\ walk.head \notin stray' /\ walk.due \ R \subseteq walk.due
      /\ Keeps(lists[walk.head], lists'[walk.head], (walk.due \ R) \cup {Held(walk)})
  BY <1>1, <1>3
<1>5. Course([walk EXCEPT !.due = walk.due \ R], lists', stray')
  BY <1>2, <1>4, CourseKept
<1> QED BY <1>1, <1>5

\* A call that changes nothing of the list of the loop, or only adds to it.
LEMMA CallAside ==
    ASSUME IInv, IInv', WInv, walk' = walk,
           Walking => /\ walk.head \notin stray'
                      /\ Keeps(lists[walk.head], lists'[walk.head], walk.due \cup Pinned)
    PROVE  WInv'
<1>1. CASE ~Walking
  BY <1>1 DEF WInv, Walking
<1>2. CASE Walking
  <2>1. walk \in Walks
    BY <1>2 DEF WInv, Course
  <2>2. walk = [walk EXCEPT !.due = walk.due \ {}]
    BY <2>1 DEF Walks
  <2>3. walk.due \ {} = walk.due
    OBVIOUS
  <2>4. Keeps(lists[walk.head], lists'[walk.head], (walk.due \ {}) \cup Pinned)
    BY <1>2, <2>3
  <2>5. walk' = IF Walking THEN [walk EXCEPT !.due = walk.due \ {}] ELSE walk
    BY <2>2
  <2> QED BY <1>2, <2>4, <2>5, CallKept
<1> QED BY <1>1, <1>2

-----------------------------------------------------------------------------
(* The steps.                                                              *)

\* The list of a loop, and what its entries are.
LEMMA LoopList ==
    ASSUME IInv, WInv, Walking
    PROVE  /\ walk \in Walks /\ walk.head \in Heads \ stray /\ walk.head \notin Entries
           /\ lists \in [Heads -> Seq(Entries)]
           /\ lists[walk.head] \in Seq(Entries) /\ IsInjective(lists[walk.head])
           /\ walk.due \subseteq Range(lists[walk.head])
<1>1. walk \in Walks /\ walk.head \notin stray /\ walk.due \subseteq Range(lists[walk.head])
  BY DEF WInv, Course
<1>2. walk.head \in Heads
  BY <1>1 DEF Walks
<1>3. lists \in [Heads -> Seq(Entries)]
  BY DEF IInv, Rep, Shape
<1> QED BY <1>1, <1>2, <1>3, ShapeFacts DEF IInv, Rep

\* INIT_LIST_HEAD, list_add and list_add_tail.
LEMMA AddKept ==
    ASSUME IInv, IInv', WInv
    PROVE  /\ \A n \in Nodes : init(n) => WInv'
           /\ \A e \in Entries, h \in Heads : list_add(e, h) => WInv'
           /\ \A e \in Entries, h \in Heads : list_add_tail(e, h) => WInv'
<1>1. ASSUME NEW n \in Nodes, init(n) PROVE WInv'
  <2>1. walk' = walk /\ lists' = lists /\ stray' \subseteq stray
    BY <1>1 DEF init
  <2>2. Walking => /\ walk.head \notin stray'
                   /\ Keeps(lists[walk.head], lists'[walk.head], walk.due \cup Pinned)
    BY <2>1, LoopList DEF Keeps
  <2> QED BY <2>1, <2>2, CallAside
<1>2. ASSUME NEW e \in Entries, NEW h \in Heads, NEW added \in {Cons(e, lists[h]), Append(lists[h], e)},
             walk' = walk, stray' \subseteq stray, lists' = [lists EXCEPT ![h] = added]
      PROVE  WInv'
  <2>1. ASSUME Walking
        PROVE  /\ walk.head \notin stray'
               /\ Keeps(lists[walk.head], lists'[walk.head], walk.due \cup Pinned)
    <3>1. /\ walk.head \in Heads \ stray /\ lists \in [Heads -> Seq(Entries)]
          /\ lists[walk.head] \in Seq(Entries)
      BY <2>1, LoopList
    <3>2. CASE walk.head # h
      <4>1. lists'[walk.head] = lists[walk.head]
        BY <1>2, <3>1, <3>2
      <4> QED BY <1>2, <3>1, <4>1 DEF Keeps
    <3>3. CASE walk.head = h
      <4>1. lists'[walk.head] = added
        BY <1>2, <3>1, <3>3
      <4>2. Keeps(lists[h], added, walk.due \cup Pinned)
        <5>1. Keeps(lists[h], Cons(e, lists[h]), walk.due \cup Pinned) /\ Keeps(lists[h], Append(lists[h], e), walk.due \cup Pinned)
          BY <3>1, <3>3, KeepsAdded
        <5> QED BY <1>2, <5>1
      <4> QED BY <1>2, <3>1, <3>3, <4>1, <4>2
    <3> QED BY <3>2, <3>3
  <2> QED BY <1>2, <2>1, CallAside
<1>3. ASSUME NEW e \in Entries, NEW h \in Heads, list_add(e, h) PROVE WInv'
  <2>1. /\ walk' = walk /\ stray' \subseteq stray
        /\ lists' = [lists EXCEPT ![h] = Cons(e, lists[h])]
    BY <1>3 DEF list_add, Cons
  <2> QED BY <1>2, <2>1
<1>4. ASSUME NEW e \in Entries, NEW h \in Heads, list_add_tail(e, h) PROVE WInv'
  <2>1. /\ walk' = walk /\ stray' \subseteq stray
        /\ lists' = [lists EXCEPT ![h] = Append(lists[h], e)]
    BY <1>4 DEF list_add_tail
  <2> QED BY <1>2, <2>1
<1> QED BY <1>1, <1>3, <1>4

\* list_del, list_del_init, list_move and list_move_tail: an entry e that is not
\* pinned leaves its list, and may be put on one.
LEMMA DelKept ==
    ASSUME IInv, IInv', WInv, NEW e \in Entries, e \notin Pinned, Forget(e), stray' \subseteq stray \cup {e}
    PROVE  /\ lists' = Without(e) => WInv'
           /\ \A h \in Heads : lists' = [Without(e) EXCEPT ![h] = Cons(e, Without(e)[h])] => WInv'
           /\ \A h \in Heads : lists' = [Without(e) EXCEPT ![h] = Append(Without(e)[h], e)] => WInv'
<1>1. walk' = IF Walking THEN [walk EXCEPT !.due = walk.due \ {e}] ELSE walk
  BY DEF Forget
<1> DEFINE X == (walk.due \ {e}) \cup Pinned
<1>2. ASSUME Walking
      PROVE  /\ walk.head \in Heads /\ walk.head \notin stray'
             /\ Without(e)[walk.head] \in Seq(Entries)
             /\ Keeps(lists[walk.head], Without(e)[walk.head], X)
  <2>1. /\ walk.head \in Heads \ stray /\ walk.head \notin Entries
        /\ lists[walk.head] \in Seq(Entries) /\ IsInjective(lists[walk.head])
    BY <1>2, LoopList
  <2>2. Without(e)[walk.head] = Unlink(lists[walk.head], e)
    BY <2>1 DEF Without
  <2>3. Unlink(lists[walk.head], e) \in Seq(Entries)
    BY <2>1, UnlinkLemma
  <2>4. Keeps(lists[walk.head], Unlink(lists[walk.head], e), X)
    BY <2>1, KeepsOthers
  <2> QED BY <2>1, <2>2, <2>3, <2>4
<1>3. Without(e) = [h \in Heads |-> Without(e)[h]]
  BY DEF Without
<1>4. CASE lists' = Without(e)
  BY <1>1, <1>2, <1>4, CallKept
<1>5. ASSUME NEW h \in Heads, NEW added \in {Cons(e, Without(e)[h]), Append(Without(e)[h], e)},
             lists' = [Without(e) EXCEPT ![h] = added]
      PROVE  WInv'
  <2>1. ASSUME Walking PROVE Keeps(lists[walk.head], lists'[walk.head], X)
    <3>1. /\ walk.head \in Heads /\ Without(e)[walk.head] \in Seq(Entries)
          /\ Keeps(lists[walk.head], Without(e)[walk.head], X)
      BY <1>2, <2>1
    <3>2. CASE walk.head # h
      <4>1. lists'[walk.head] = Without(e)[walk.head]
        BY <1>3, <1>5, <3>1, <3>2
      <4> QED BY <3>1, <4>1
    <3>3. CASE walk.head = h
      <4>1. lists'[walk.head] = added
        BY <1>3, <1>5, <3>1, <3>3
      <4>2. Keeps(Without(e)[h], added, X)
        <5>1. Keeps(Without(e)[h], Cons(e, Without(e)[h]), X) /\ Keeps(Without(e)[h], Append(Without(e)[h], e), X)
          BY <3>1, <3>3, KeepsAdded
        <5> QED BY <1>5, <5>1
      <4>3. Keeps(lists[walk.head], Without(e)[h], X)
        BY <3>1, <3>3
      <4>4. Keeps(lists[walk.head], added, X)
        BY <4>2, <4>3, KeepsBoth
      <4> QED BY <4>1, <4>4
    <3> QED BY <3>2, <3>3
  <2> QED BY <1>1, <1>2, <2>1, CallKept
<1> QED BY <1>4, <1>5

\* list_replace and list_replace_init: the entry that leaves is not pinned.
LEMMA ReplaceKept ==
    ASSUME IInv, IInv', WInv, NEW old \in Entries, NEW new \in Entries, old \notin Pinned, Forget(old),
           stray' \subseteq stray \cup {old}, lists' = InPlace(old, new)
    PROVE  WInv'
<1>1. walk' = IF Walking THEN [walk EXCEPT !.due = walk.due \ {old}] ELSE walk
  BY DEF Forget
<1>2. ASSUME Walking
      PROVE  /\ walk.head \notin stray'
             /\ Keeps(lists[walk.head], lists'[walk.head], (walk.due \ {old}) \cup Pinned)
  <2>1. walk.head \in Heads \ stray /\ walk.head \notin Entries
    BY <1>2, LoopList
  <2>2. lists'[walk.head] = Put(lists[walk.head], old, new)
    BY <2>1 DEF InPlace, Put
  <2>3. Keeps(lists[walk.head], Put(lists[walk.head], old, new), (walk.due \ {old}) \cup Pinned)
    BY KeepsPut
  <2> QED BY <2>1, <2>2, <2>3
<1> QED BY <1>1, <1>2, CallKept

\* list_rotate_left, list_cut_position and the splices, of lists no loop runs over.
LEMMA StillKept ==
    ASSUME IInv, IInv', WInv, NEW g \in Heads, NEW h \in Heads, Still(g), Still(h),
           walk' = walk, stray' \subseteq stray \cup {g},
           \E S, T : lists' = [lists EXCEPT ![g] = S, ![h] = T]
    PROVE  WInv'
<1>1. PICK S, T : lists' = [lists EXCEPT ![g] = S, ![h] = T]
  OBVIOUS
<1>2. ASSUME Walking
      PROVE  /\ walk.head \notin stray'
             /\ Keeps(lists[walk.head], lists'[walk.head], walk.due \cup Pinned)
  <2>1. walk.head \in Heads \ stray /\ walk.head # g /\ walk.head # h /\ lists \in [Heads -> Seq(Entries)]
    BY <1>2, LoopList DEF Still
  <2>2. lists'[walk.head] = lists[walk.head]
    BY <1>1, <2>1
  <2> QED BY <2>1, <2>2 DEF Keeps
<1> QED BY <1>2, CallAside

\* The calls a body may make, and those made outside of loops.
LEMMA OperationKept ==
    ASSUME IInv, IInv', WInv, Operation
    PROVE  WInv'
<1>1. CASE \E n \in Nodes : init(n)
  BY <1>1, AddKept
<1>2. ASSUME NEW e \in Entries, NEW h \in Heads, list_add(e, h) \/ list_add_tail(e, h) PROVE WInv'
  BY <1>2, AddKept
<1>3. ASSUME NEW e \in Entries, list_del(e) \/ list_del_init(e) PROVE WInv'
  <2>1. e \notin Pinned /\ Forget(e) /\ stray' \subseteq stray \cup {e} /\ lists' = Without(e)
    BY <1>3 DEF list_del, list_del_init
  <2> QED BY <2>1, DelKept
<1>4. ASSUME NEW e \in Entries, NEW h \in Heads, list_move(e, h) \/ list_move_tail(e, h) PROVE WInv'
  <2>1. /\ e \notin Pinned /\ Forget(e) /\ stray' \subseteq stray \cup {e}
        /\ \/ lists' = [Without(e) EXCEPT ![h] = Cons(e, Without(e)[h])]
           \/ lists' = [Without(e) EXCEPT ![h] = Append(Without(e)[h], e)]
    BY <1>4 DEF list_move, list_move_tail, Cons
  <2> QED BY <2>1, DelKept
<1>5. ASSUME NEW e \in Entries, NEW new \in Entries, list_replace(e, new) \/ list_replace_init(e, new) PROVE WInv'
  <2>1. e \notin Pinned /\ Forget(e) /\ stray' \subseteq stray \cup {e} /\ lists' = InPlace(e, new)
    BY <1>5 DEF list_replace, list_replace_init
  <2> QED BY <2>1, ReplaceKept
<1>6. ASSUME NEW h \in Heads, list_rotate_left(h) PROVE WInv'
  <2> DEFINE T == Append(Tail(lists[h]), Head(lists[h]))
  <2>1. Still(h) /\ walk' = walk /\ stray' = stray /\ lists' = [lists EXCEPT ![h] = T]
    BY <1>6 DEF list_rotate_left
  <2> HIDE DEF T
  <2>2. lists' = [lists EXCEPT ![h] = T, ![h] = T]
    BY <2>1
  <2> QED BY <2>1, <2>2, StillKept
<1>7. ASSUME NEW list \in Heads, NEW h \in Heads, NEW entry \in Nodes, list_cut_position(list, h, entry) PROVE WInv'
  <2>1. /\ Still(list) /\ Still(h) /\ walk' = walk /\ stray' = stray
        /\ \E S, T : lists' = [lists EXCEPT ![list] = S, ![h] = T]
    BY <1>7 DEF list_cut_position
  <2> QED BY <2>1, StillKept
<1>8. ASSUME NEW list \in Heads, NEW h \in Heads, NEW atTail \in BOOLEAN, NEW initialised \in BOOLEAN,
             list_splice(list, h, atTail, initialised)
      PROVE  WInv'
  <2>1. /\ Still(list) /\ Still(h) /\ walk' = walk /\ stray' \subseteq stray \cup {list}
        /\ \E S, T : lists' = [lists EXCEPT ![list] = S, ![h] = T]
    BY <1>8 DEF list_splice
  <2> QED BY <2>1, StillKept
<1> QED BY <1>1, <1>2, <1>3, <1>4, <1>5, <1>6, <1>7, <1>8 DEF Operation

\* A loop begins.
LEMMA BeginsRight ==
    ASSUME IInv, NEW h \in Heads, NEW dir \in {"next", "prev"}, NEW safe \in BOOLEAN, NEW from \in Nodes,
           list_for_each(h, dir, safe, from)
    PROVE  Course(walk', lists', stray')
<1> DEFINE s == lists[h]
           pos == link[dir][from]
           n == IF safe THEN link[dir][pos] ELSE Null
           due == Ahead(h, dir, from)
           w == [head |-> h, dir |-> dir, safe |-> safe, pos |-> pos, n |-> n, seen |-> {}, due |-> due]
<1>1. /\ h \in Heads \ stray /\ from \in {h} \cup Range(s)
      /\ walk' = w /\ lists' = lists /\ stray' = stray
  BY DEF list_for_each
<1>2. /\ s \in Seq(Entries) /\ Range(s) \subseteq Entries /\ h \in Nodes /\ Range(s) \subseteq Nodes
      /\ h \notin Entries
  BY <1>1, ShapeFacts DEF IInv, Rep
<1>3. /\ pos \in {h} \cup Range(s)
      /\ Strict(s, h, dir, from) = From(s, h, dir, pos)
  BY <1>1, LinkLeads DEF IInv
<1>4. /\ link[dir][pos] \in {h} \cup Range(s)
      /\ Strict(s, h, dir, pos) = From(s, h, dir, link[dir][pos])
  BY <1>1, <1>3, LinkLeads DEF IInv
<1>5. due = Strict(s, h, dir, from)
  <2>1. DOMAIN s = 1 .. Len(s) /\ Len(s) \in Nat
    BY <1>2, LenProperties
  <2>2. CASE dir = "next"
    <3>1. due = {s[i] : i \in {j \in DOMAIN s : from = h \/ \E k \in 1 .. j - 1 : s[k] = from}}
      BY <2>2 DEF Ahead
    <3>2. CASE from = h
      BY <3>1, <3>2 DEF Strict, Range
    <3>3. CASE from # h
      <4>1. \A j \in DOMAIN s : (\E k \in 1 .. j - 1 : s[k] = from) <=> (\E k \in DOMAIN s : k < j /\ s[k] = from)
        BY <2>1
      <4>2. \A y : y \in due <=> \E k, j \in DOMAIN s : k < j /\ s[k] = from /\ s[j] = y
        BY <3>1, <3>3, <4>1
      <4>3. \A y : y \in Strict(s, h, dir, from) <=> Prec(s, from, y)
        BY <2>2, <3>3 DEF Strict, Toward, Prec, Range
      <4> HIDE DEF due, s
      <4>4. \A y : y \in Strict(s, h, dir, from) <=> \E k, j \in DOMAIN s : k < j /\ s[k] = from /\ s[j] = y
        BY <4>3 DEF Prec
      <4>5. \A y : y \in due <=> y \in Strict(s, h, dir, from)
        BY <4>2, <4>4
      <4>6. due \subseteq Range(s) /\ Strict(s, h, dir, from) \subseteq Range(s)
        BY <3>1 DEF Range, Strict
      <4> QED BY <4>5, <4>6
    <3> QED BY <3>2, <3>3
  <2>3. CASE dir = "prev"
    <3> DEFINE r == Reverse(s)
               m == Len(s)
    <3>1. /\ DOMAIN r = 1 .. m
          /\ \A i \in 1 .. m : r[i] = s[(m - i) + 1]
      BY <2>1 DEF Reverse
    <3>2. due = {r[i] : i \in {j \in DOMAIN r : from = h \/ \E k \in 1 .. j - 1 : r[k] = from}}
      BY <2>3 DEF Ahead
    <3> HIDE DEF r, m, due
    <3>3. /\ m \in Nat /\ DOMAIN s = 1 .. m
          /\ \A i \in 1 .. m : (m - i) + 1 \in 1 .. m /\ (m - ((m - i) + 1)) + 1 = i
      BY <2>1 DEF m
    <3>4. \A i \in 1 .. m : s[i] = r[(m - i) + 1]
      BY <3>1, <3>3
    <3>5. CASE from = h
      <4>1. due = {r[i] : i \in 1 .. m}
        BY <3>1, <3>2, <3>5
      <4>2. \A y : (\E i \in 1 .. m : r[i] = y) <=> (\E i \in 1 .. m : s[i] = y)
        BY <3>1, <3>3, <3>4
      <4> QED BY <3>3, <3>5, <4>1, <4>2 DEF Strict, Range
    <3>6. CASE from # h
      <4>1. \A j \in 1 .. m : (\E k \in 1 .. j - 1 : r[k] = from) <=> (\E k \in 1 .. m : k < j /\ r[k] = from)
        BY <3>3
      <4>2. \A y : y \in due <=> \E k, j \in 1 .. m : k < j /\ r[k] = from /\ r[j] = y
        BY <3>1, <3>2, <3>6, <4>1
      <4>3. \A y : y \in Strict(s, h, dir, from) <=> Prec(s, y, from)
        BY <2>3, <3>6 DEF Strict, Toward, Prec, Range
      <4>4. \A y : y \in Strict(s, h, dir, from) <=> \E j, k \in 1 .. m : j < k /\ s[j] = y /\ s[k] = from
        BY <3>3, <4>3 DEF Prec
      <4>5. \A j, k \in 1 .. m : k < j => (m - j) + 1 < (m - k) + 1
        BY <3>3
      <4>6. ASSUME NEW y, y \in due PROVE y \in Strict(s, h, dir, from)
        <5>1. PICK k, j \in 1 .. m : k < j /\ r[k] = from /\ r[j] = y
          BY <4>2, <4>6
        <5>2. /\ (m - j) + 1 \in 1 .. m /\ (m - k) + 1 \in 1 .. m /\ (m - j) + 1 < (m - k) + 1
              /\ s[(m - j) + 1] = y /\ s[(m - k) + 1] = from
          BY <3>1, <3>3, <4>5, <5>1
        <5> QED BY <4>4, <5>2
      <4>7. ASSUME NEW y, y \in Strict(s, h, dir, from) PROVE y \in due
        <5>1. PICK j, k \in 1 .. m : j < k /\ s[j] = y /\ s[k] = from
          BY <4>4, <4>7
        <5>2. /\ (m - j) + 1 \in 1 .. m /\ (m - k) + 1 \in 1 .. m /\ (m - k) + 1 < (m - j) + 1
              /\ r[(m - j) + 1] = y /\ r[(m - k) + 1] = from
          BY <3>3, <3>4, <4>5, <5>1
        <5> QED BY <4>2, <5>2
      <4> QED BY <4>6, <4>7
    <3> QED BY <3>5, <3>6
  <2> QED BY <2>2, <2>3
<1>6. due = From(s, h, dir, pos) /\ due \subseteq Range(s)
  BY <1>3, <1>5 DEF Strict
<1>7. pos # h => due = {pos} \cup Strict(s, h, dir, pos) /\ pos \notin Strict(s, h, dir, pos)
  <2>1. pos # h => pos \notin Strict(s, h, dir, pos)
    BY <1>1, NotAhead DEF IInv, Rep
  <2> QED BY <1>6, <2>1 DEF From, Strict
<1>8. pos = h => due = {}
  BY <1>6 DEF From
<1> HIDE DEF s, pos, due
<1>9. w \in Walks
  BY <1>1, <1>2, <1>3, <1>4, <1>6 DEF Walks, Nodes
<1>10. Rest(w, lists) = Strict(s, h, dir, pos)
  BY <1>4 DEF Rest, s
<1>11. Held(w) = IF safe THEN link[dir][pos] ELSE pos
  BY DEF Held
<1>12. Course(w, lists, stray)
  <2>1. w.head = h /\ w.pos = pos /\ w.safe = safe /\ w.n = n /\ w.seen = {} /\ w.due = due
    OBVIOUS
  <2>2. pos \in Nodes /\ (safe => n \in Nodes) /\ (pos # h => pos \in Entries)
    BY <1>2, <1>3, <1>4
  <2> HIDE DEF w, n
  <2>3. pos # h => Held(w) \in {h} \cup Range(s)
    BY <1>3, <1>4, <1>11
  <2>4. pos # h => /\ due \ {} = due \cap ({pos} \cup Rest(w, lists))
                   /\ pos \notin Rest(w, lists)
    BY <1>7, <1>10
  <2> QED BY <1>1, <1>6, <1>8, <1>9, <2>1, <2>2, <2>3, <2>4 DEF Course, s
<1> QED BY <1>1, <1>12

\* The body has run, and the loop goes on.
LEMMA GoesOnRight ==
    ASSUME IInv, WInv, WalkOn
    PROVE  Course(walk', lists', stray')
<1> DEFINE h == walk.head
           s == lists[h]
           dir == walk.dir
           onto == IF walk.safe THEN walk.n ELSE link[dir][walk.pos]
           next == IF walk.safe THEN link[dir][onto] ELSE Null
           w == [walk EXCEPT !.pos = onto, !.n = next, !.seen = walk.seen \cup {walk.pos}]
<1>1. /\ walk' = w /\ lists' = lists /\ stray' = stray /\ Walking /\ walk.pos # h
  BY DEF WalkOn
<1>2. /\ walk \in Walks /\ h \in Heads \ stray /\ s \in Seq(Entries) /\ dir \in {"next", "prev"}
      /\ Course(walk, lists, stray) /\ Shape(lists, stray) /\ walk.safe \in BOOLEAN
  BY <1>1, LoopList DEF Walks, WInv, IInv, Rep
<1>3. Range(s) \subseteq Entries /\ h \in Nodes /\ Range(s) \subseteq Nodes
  BY <1>2, ShapeFacts
<1>4. /\ walk.pos \in Entries /\ walk.due \subseteq Range(s)
      /\ Held(walk) \in {h} \cup Range(s)
      /\ walk.due \ walk.seen = walk.due \cap ({walk.pos} \cup Rest(walk, lists))
      /\ walk.pos \in walk.due => walk.pos \notin Rest(walk, lists)
  BY <1>1, <1>2 DEF Course
<1>5. onto \in {h} \cup Range(s) /\ Rest(walk, lists) = From(s, h, dir, onto)
  <2>1. CASE walk.safe
    BY <1>4, <2>1 DEF Held, Rest
  <2>2. CASE ~walk.safe
    <3>1. walk.pos \in {h} \cup Range(s)
      BY <1>4, <2>2 DEF Held
    <3>2. /\ link[dir][walk.pos] \in {h} \cup Range(s)
          /\ Strict(s, h, dir, walk.pos) = From(s, h, dir, link[dir][walk.pos])
      BY <1>2, <3>1, LinkLeads DEF IInv
    <3> QED BY <2>2, <3>2 DEF Rest
  <2> QED BY <2>1, <2>2
<1>6. /\ link[dir][onto] \in {h} \cup Range(s)
      /\ Strict(s, h, dir, onto) = From(s, h, dir, link[dir][onto])
  BY <1>2, <1>5, LinkLeads DEF IInv
<1>7. onto # h => onto \notin Strict(s, h, dir, onto) /\ From(s, h, dir, onto) = {onto} \cup Strict(s, h, dir, onto)
  <2>1. onto # h => onto \notin Strict(s, h, dir, onto)
    BY <1>2, NotAhead
  <2> QED BY <2>1 DEF From, Strict
<1>8. onto = h => From(s, h, dir, onto) = {}
  BY DEF From
<1> HIDE DEF onto
<1>9. /\ w.head = h /\ w.dir = dir /\ w.safe = walk.safe /\ w.pos = onto /\ w.n = next
      /\ w.seen = walk.seen \cup {walk.pos} /\ w.due = walk.due
  BY <1>2 DEF Walks
<1>10. onto \in Nodes /\ (onto # h => onto \in Entries) /\ (walk.safe => next \in Nodes) /\ next \in Nodes \cup {Null}
  BY <1>3, <1>5, <1>6
<1>11. w \in Walks
  <2>1. walk.seen \cup {walk.pos} \in SUBSET Entries
    BY <1>2, <1>4 DEF Walks
  <2> QED BY <1>2, <1>10, <2>1 DEF Walks
<1> HIDE DEF w
<1>12. Rest(w, lists) = Strict(s, h, dir, onto) /\ Held(w) = (IF walk.safe THEN next ELSE onto)
  BY <1>6, <1>9 DEF Rest, Held
<1>13. walk.due \ (walk.seen \cup {walk.pos}) = walk.due \cap From(s, h, dir, onto)
  BY <1>4, <1>5
<1>14. Course(w, lists, stray)
  <2>1. onto # h => Held(w) \in {h} \cup Range(s)
    BY <1>5, <1>6, <1>12
  <2>2. onto = h => walk.due \subseteq walk.seen \cup {walk.pos}
    BY <1>8, <1>13
  <2>3. onto # h => /\ walk.due \ (walk.seen \cup {walk.pos}) = walk.due \cap ({onto} \cup Rest(w, lists))
                    /\ onto \notin Rest(w, lists)
    BY <1>7, <1>12, <1>13
  <2> QED BY <1>2, <1>4, <1>9, <1>10, <1>11, <2>1, <2>2, <2>3 DEF Course
<1> QED BY <1>1, <1>14

\* Every step of the lists and of the loops over them.
LEMMA WalkStep == IInv /\ WInv /\ [Next]_vars => WInv'
<1> SUFFICES ASSUME IInv, WInv, [Next]_vars PROVE WInv'
  OBVIOUS
<1>1. IInv'
  BY StepHolds
<1>2. CASE Operation
  BY <1>1, <1>2, OperationKept
<1>3. ASSUME NEW h \in Heads, NEW dir \in {"next", "prev"}, NEW safe \in BOOLEAN, NEW from \in Nodes,
             list_for_each(h, dir, safe, from)
      PROVE  WInv'
  BY <1>3, BeginsRight DEF WInv
<1>4. CASE WalkOn
  BY <1>4, GoesOnRight DEF WInv
<1>5. CASE WalkEnds
  BY <1>5 DEF WalkEnds, WInv, Walking
<1>6. CASE UNCHANGED vars
  BY <1>6 DEF vars, WInv, Walking, Course, Held, Rest
<1> QED BY <1>2, <1>3, <1>4, <1>5, <1>6 DEF Next, Loop

\* A loop in the course that the invariant says misses no entry.
LEMMA CourseSeesAll == IInv /\ WInv => WalkSeesAll
<1> SUFFICES ASSUME IInv, WInv, Walking
             PROVE  /\ walk.pos # Null /\ (walk.safe => walk.n # Null)
                    /\ walk.pos \in walk.due => walk.pos \notin walk.seen
                    /\ walk.pos = walk.head => walk.due \subseteq walk.seen
  BY DEF WalkSeesAll
<1>1. Course(walk, lists, stray)
  BY DEF WInv
<1>2. walk.pos # Null /\ (walk.safe => walk.n # Null)
  BY <1>1, NodesAssumption DEF Course, Nodes
<1>3. walk.head \notin walk.due
  BY LoopList, ShapeFacts DEF IInv, Rep
<1>4. walk.pos # walk.head /\ walk.pos \in walk.due => walk.pos \notin walk.seen
  BY <1>1 DEF Course
<1>5. walk.pos = walk.head => walk.due \subseteq walk.seen
  BY <1>1 DEF Course
<1> QED BY <1>2, <1>3, <1>4, <1>5

\* WalkSeesAll, whatever the number of lists and of entries: a loop over a list
\* comes to each entry that was ahead of it and stayed on the list, just once.
THEOREM LoopsMissNothing == Spec => []WalkSeesAll
<1>1. Init => IInv /\ WInv
  BY InitHolds DEF Init, WInv, Walking
<1>2. IInv /\ WInv /\ [Next]_vars => (IInv /\ WInv)'
  BY StepHolds, WalkStep
<1>3. IInv /\ WInv => WalkSeesAll
  BY CourseSeesAll
<1> QED BY <1>1, <1>2, <1>3, PTL DEF Spec

=============================================================================
