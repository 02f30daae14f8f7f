--------------------------- MODULE WalStorageProofs ---------------------------
(***************************************************************************)
(* What WalStorage promises, for any keys and readers and any maxima.      *)
(***************************************************************************)
EXTENDS WalStorage, SequenceTheorems, WellFoundedInduction, TLAPS

\* The setups in which nothing is lost: commits overlap with one reader's load at most and
\* with no snapshot, and where snapshots are taken by interval neither do cleanings run
\* beside them nor do they fail.
Sound(s) ==
    /\ s.overlap => ~s.snapshots /\ \A p, q \in s.readers : p = q
    /\ s.snapshots => ~s.cleans /\ ~s.fails

-----------------------------------------------------------------------------
(***************************************************************************)
(* What holds of log files and of the ids of commits.                      *)
(***************************************************************************)

\* The lines of a log, each by its id, and those that assign a key.
LinesOf(g) ==
    {id \in [segment : DOMAIN g, offset : 0 .. MaxLines - 1] : id.offset < Len(g[id.segment])}
LineOf(g, id) == g[id.segment][id.offset + 1]
Touching(k, g) == {id \in LinesOf(g) : k \in LineOf(g, id).keys}

\* A log has finitely many segments, and none is empty.
Files(g) ==
    /\ DOMAIN g \subseteq Nat \ {0}
    /\ \A s \in DOMAIN g : g[s] \in Seq(Commits) /\ Len(g[s]) > 0 /\ Len(g[s]) <= MaxLines
    /\ \E b \in Nat : \A s \in DOMAIN g : s <= b

\* The segments to delete are the first ones, and not all.
Front(d, g) ==
    /\ d \subseteq DOMAIN g
    /\ \A s \in d, t \in DOMAIN g : t <= s => t \in d
    /\ DOMAIN g # {} => DOMAIN g \ d # {}

\* The log holds a line that is not before an id, in a segment that is not to be deleted.
Reached(id, g, d) ==
    id # Undefined =>
        \E s \in DOMAIN g \ d : s > id.segment \/ (s = id.segment /\ id.offset < Len(g[s]))

\* The last line that assigns a key tells its last commit, if there is such a line.
Tells(g, w) ==
    \A k \in Keys : Touching(k, g) # {} =>
        \E m \in Touching(k, g) :
            LineOf(g, m).number = w[k] /\ \A l \in Touching(k, g) : ~After(l, m)

\* A snapshot and the lines after it know the last commit of every key.
Good(x, g, w) ==
    \A k \in Keys : x.data[k] = w[k] \/ \E l \in Touching(k, g) : After(l, x.id)

\* A line goes where the log ends.
EndOf(id, g) ==
    /\ id \in Ids
    /\ id.offset < MaxLines
    /\ \A s \in DOMAIN g : s <= id.segment
    /\ id.segment \in DOMAIN g => id.offset = Len(g[id.segment])
    /\ id.segment \notin DOMAIN g => id.offset = 0

\* The log with one line more, and with one segment less.
With(g, id, c) ==
    [s \in DOMAIN g \cup {id.segment} |->
        IF s # id.segment THEN g[s] ELSE Append(IF s \in DOMAIN g THEN g[s] ELSE <<>>, c)]
Without(g, o) == [s \in DOMAIN g \ {o} |-> g[s]]

\* What a snapshot may be before one is read.
Starts == [id : Ids \cup {Undefined}, data : Stores]

\* A nonempty set of naturals has a least member.
LEMMA LeastNatural ==
    ASSUME NEW T \in SUBSET Nat, T # {}
    PROVE  \E x \in T : \A y \in T : x <= y
<1> DEFINE Smaller == {pair \in Nat \X Nat : pair[1] < pair[2]}
<1>1. IsWellFoundedOn(Smaller, Nat)
  BY NatLessThanWellFounded DEF OpToRel
<1> HIDE DEF Smaller
<1>2. PICK x \in T : \A y \in T : <<y, x>> \notin Smaller
  BY <1>1, WFMin
<1>3. \A y \in T : x <= y
  <2> TAKE y \in T
  <2>1. <<y, x>> \in Smaller <=> y < x
    BY DEF Smaller
  <2> QED
    BY <1>2, <2>1
<1> QED
  BY <1>3

\* And one that is bounded has a greatest.
LEMMA GreatestNatural ==
    ASSUME NEW T \in SUBSET Nat, T # {}, NEW b \in Nat, \A y \in T : y <= b
    PROVE  \E x \in T : \A y \in T : y <= x
<1> DEFINE U == {n \in Nat : b - n \in T}
<1>1. \A y \in T : b - y \in Nat /\ b - (b - y) = y
  OBVIOUS
<1>2. \A y \in T : b - y \in U
  BY <1>1
<1>3. PICK n \in U : \A m \in U : n <= m
  <2>1. U \in SUBSET Nat /\ U # {}
    BY <1>2
  <2> HIDE DEF U
  <2> QED
    BY <2>1, LeastNatural
<1>4. \A y \in T : y <= b - n
  BY <1>1, <1>2, <1>3
<1> QED
  BY <1>3, <1>4

\* compareCommitIds is a total order.
LEMMA AfterOrder ==
    ASSUME NEW a \in Ids, NEW b \in Ids, NEW c \in Ids
    PROVE  /\ After(a, b) => ~After(b, a)
           /\ After(a, b) /\ After(b, c) => After(a, c)
           /\ ~After(a, b) /\ ~After(b, a) => a = b
<1>1. /\ a.segment \in Nat /\ b.segment \in Nat /\ c.segment \in Nat
      /\ a.offset \in Nat /\ b.offset \in Nat /\ c.offset \in Nat
      /\ a = [segment |-> a.segment, offset |-> a.offset]
      /\ b = [segment |-> b.segment, offset |-> b.offset]
  BY DEF Ids
<1>2. b # Undefined /\ c # Undefined /\ a # Undefined
  BY UndefinedAssumption
<1> QED
  BY <1>1, <1>2 DEF After

\* The same of ids that may be undefined: what is not before something after x is after x.
LEMMA AfterMixed ==
    ASSUME NEW a \in Ids, NEW b \in Ids, NEW x \in Ids \cup {Undefined}
    PROVE  /\ After(a, x) /\ ~After(a, b) => After(b, x)
           /\ ~After(a, x) /\ After(b, x) => ~After(a, b)
<1>1. CASE x = Undefined
  BY <1>1 DEF After
<1>2. CASE x \in Ids
  BY <1>2, AfterOrder
<1> QED
  BY <1>1, <1>2

LEMMA LinesAreIds ==
    ASSUME NEW g, Files(g), NEW l \in LinesOf(g)
    PROVE  /\ l \in Ids /\ l.segment \in DOMAIN g
           /\ l.offset \in Nat /\ l.offset < Len(g[l.segment])
           /\ LineOf(g, l) \in Commits
<1>1. /\ l.segment \in DOMAIN g /\ l.offset \in 0 .. MaxLines - 1
      /\ l = [segment |-> l.segment, offset |-> l.offset]
      /\ l.offset < Len(g[l.segment])
  BY DEF LinesOf
<1>2. /\ l.segment \in Nat \ {0} /\ g[l.segment] \in Seq(Commits)
  BY <1>1 DEF Files
<1>3. l.offset \in Nat
  BY <1>1, SetupsAssumption
<1>4. l \in Ids
  BY <1>1, <1>2, <1>3 DEF Ids
<1>5. l.offset + 1 \in 1 .. Len(g[l.segment])
  BY <1>1, <1>2, <1>3
<1>6. LineOf(g, l) \in Commits
  BY <1>2, <1>5, ElementOfSeq DEF LineOf
<1> QED
  BY <1>1, <1>3, <1>4, <1>6

\* Every position below the end of a segment is a line.
LEMMA IsLine ==
    ASSUME NEW g, Files(g), NEW id \in Ids, id.segment \in DOMAIN g,
           id.offset < Len(g[id.segment])
    PROVE  id \in LinesOf(g)
<1>1. id.offset \in Nat /\ id = [segment |-> id.segment, offset |-> id.offset]
  BY DEF Ids
<1>2. Len(g[id.segment]) <= MaxLines /\ Len(g[id.segment]) \in Nat
  BY DEF Files
<1>3. id.offset \in 0 .. MaxLines - 1
  BY <1>1, <1>2, SetupsAssumption
<1> QED
  BY <1>1, <1>3 DEF LinesOf

\* A nonempty set of lines has a last one.
LEMMA LastExists ==
    ASSUME NEW g, Files(g), NEW S \in SUBSET LinesOf(g), S # {}
    PROVE  \E m \in S : \A l \in S : ~After(l, m)
<1> DEFINE segments == {l.segment : l \in S}
<1>1. PICK b \in Nat : \A s \in DOMAIN g : s <= b
  BY DEF Files
<1>2. \A l \in S : l \in Ids /\ l.segment \in DOMAIN g /\ l.segment \in Nat /\ l.offset \in Nat
                   /\ l.offset <= MaxLines
  <2> TAKE l \in S
  <2>1. l \in Ids /\ l.segment \in DOMAIN g /\ l.offset \in Nat
    BY LinesAreIds
  <2>2. l.offset \in 0 .. MaxLines - 1
    BY DEF LinesOf
  <2> QED
    BY <2>1, <2>2, SetupsAssumption DEF Ids
<1>3. PICK s \in segments : \A t \in segments : t <= s
  <2>1. segments \in SUBSET Nat /\ segments # {} /\ \A t \in segments : t <= b
    BY <1>1, <1>2
  <2> HIDE DEF segments
  <2> QED
    BY <2>1, GreatestNatural
<1> DEFINE offsets == {l.offset : l \in {i \in S : i.segment = s}}
<1>4. PICK o \in offsets : \A t \in offsets : t <= o
  <2>1. offsets \in SUBSET Nat /\ offsets # {} /\ \A t \in offsets : t <= MaxLines
    BY <1>2, <1>3
  <2>2. MaxLines \in Nat
    BY SetupsAssumption
  <2> HIDE DEF offsets
  <2> QED
    BY <2>1, <2>2, GreatestNatural
<1>5. PICK m \in S : m.segment = s /\ m.offset = o
  BY <1>4
<1>6. \A l \in S : ~After(l, m)
  <2> TAKE l \in S
  <2>1. l.segment <= s
    BY <1>3
  <2>2. l.segment = s => l.offset <= o
    BY <1>4
  <2>3. m # Undefined
    BY <1>2, UndefinedAssumption
  <2>4. l.segment \in Nat /\ m.segment \in Nat /\ l.offset \in Nat /\ m.offset \in Nat
    BY <1>2
  <2> QED
    BY <1>5, <2>1, <2>2, <2>3, <2>4 DEF After
<1> QED
  BY <1>6

\* LastOf finds it, and it is the only one.
LEMMA LastOfIs ==
    ASSUME NEW g, Files(g), NEW S \in SUBSET LinesOf(g), S # {}, NEW x
    PROVE  /\ LastOf(S, x) \in S
           /\ \A l \in S : ~After(l, LastOf(S, x))
           /\ \A m \in S : (\A l \in S : ~After(l, m)) => LastOf(S, x) = m
<1>1. \E m \in S : \A l \in S : ~After(l, m)
  BY LastExists
<1>2. LastOf(S, x) = CHOOSE id \in S : \A other \in S : ~After(other, id)
  BY DEF LastOf
<1>3. LastOf(S, x) \in S /\ \A l \in S : ~After(l, LastOf(S, x))
  BY <1>1, <1>2
<1>4. \A l \in S : l \in Ids
  BY LinesAreIds
<1> QED
  BY <1>3, <1>4, AfterOrder

\* A line at the end: the old lines stay as they are, and it comes after them.
LEMMA WithLines ==
    ASSUME NEW g, Files(g), NEW id, EndOf(id, g), NEW c \in Commits
    PROVE  /\ Files(With(g, id, c))
           /\ LinesOf(With(g, id, c)) = LinesOf(g) \cup {id}
           /\ LineOf(With(g, id, c), id) = c
           /\ \A l \in LinesOf(g) : LineOf(With(g, id, c), l) = LineOf(g, l) /\ After(id, l)
<1> DEFINE h == With(g, id, c)
           old == IF id.segment \in DOMAIN g THEN g[id.segment] ELSE <<>>
<1>1. /\ id \in Ids /\ id.segment \in Nat \ {0} /\ id.offset \in Nat /\ id.offset < MaxLines
      /\ id = [segment |-> id.segment, offset |-> id.offset]
      /\ \A s \in DOMAIN g : s <= id.segment
  BY DEF EndOf, Ids
<1>2. old \in Seq(Commits) /\ Len(old) = id.offset
  <2>1. CASE id.segment \in DOMAIN g
    BY <2>1 DEF EndOf, Files
  <2>2. CASE id.segment \notin DOMAIN g
    BY <2>2 DEF EndOf
  <2> QED
    BY <2>1, <2>2
<1>3. /\ DOMAIN h = DOMAIN g \cup {id.segment}
      /\ h[id.segment] = Append(old, c)
      /\ \A s \in DOMAIN g : s # id.segment => h[s] = g[s]
  BY DEF With
<1>4. /\ Append(old, c) \in Seq(Commits) /\ Len(Append(old, c)) = id.offset + 1
      /\ Append(old, c)[id.offset + 1] = c
      /\ \A i \in 1 .. id.offset : Append(old, c)[i] = old[i]
  <2> HIDE DEF old
  <2> QED
    BY <1>1, <1>2, AppendProperties
<1> HIDE DEF h
<1>5. Files(h)
  <2>1. DOMAIN h \subseteq Nat \ {0}
    BY <1>1, <1>3 DEF Files
  <2>2. \A s \in DOMAIN h : h[s] \in Seq(Commits) /\ Len(h[s]) > 0 /\ Len(h[s]) <= MaxLines
    <3> TAKE s \in DOMAIN h
    <3>1. CASE s = id.segment
      <4> HIDE DEF old
      <4>1. h[s] \in Seq(Commits) /\ Len(h[s]) = id.offset + 1
        BY <1>3, <1>4, <3>1
      <4>2. id.offset + 1 > 0 /\ id.offset + 1 <= MaxLines
        BY <1>1, SetupsAssumption
      <4> QED
        BY <4>1, <4>2
    <3>2. CASE s # id.segment
      BY <1>3, <3>2 DEF Files
    <3> QED
      BY <3>1, <3>2
  <2>3. \A s \in DOMAIN h : s <= id.segment
    BY <1>1, <1>3
  <2> QED
    BY <1>1, <2>1, <2>2, <2>3 DEF Files
<1>6. id \in LinesOf(h) /\ LineOf(h, id) = c
  <2>1. id \in LinesOf(h)
    <3>1. id.segment \in DOMAIN h /\ id.offset < Len(h[id.segment])
      <4> HIDE DEF old
      <4> QED
        BY <1>1, <1>3, <1>4
    <3> QED
      BY <1>1, <1>5, <3>1, IsLine
  <2>2. LineOf(h, id) = c
    <3> HIDE DEF old
    <3> QED
      BY <1>3, <1>4 DEF LineOf
  <2> QED
    BY <2>1, <2>2
<1>7. ASSUME NEW l \in LinesOf(g)
      PROVE  l \in LinesOf(h) /\ LineOf(h, l) = LineOf(g, l) /\ After(id, l)
  <2>1. /\ l \in Ids /\ l.segment \in DOMAIN g
        /\ l.offset \in Nat /\ l.offset < Len(g[l.segment])
    BY LinesAreIds
  <2>2. l.segment \in Nat /\ l # Undefined
    BY <2>1, UndefinedAssumption DEF Ids
  <2>3. CASE l.segment # id.segment
    <3>1. After(id, l)
      BY <1>1, <2>1, <2>2, <2>3 DEF After
    <3>2. h[l.segment] = g[l.segment] /\ l.segment \in DOMAIN h
      BY <1>3, <2>1, <2>3
    <3> QED
      BY <1>5, <2>1, <3>1, <3>2, IsLine DEF LineOf
  <2>4. CASE l.segment = id.segment
    <3>1. old = g[l.segment] /\ l.offset < id.offset
      BY <1>2, <2>1, <2>4
    <3>2. After(id, l)
      BY <2>1, <2>2, <2>4, <3>1, <1>1 DEF After
    <3>3. h[l.segment] = Append(old, c) /\ l.segment \in DOMAIN h
      BY <1>3, <2>4
    <3>4. l.offset < Len(h[l.segment]) /\ h[l.segment][l.offset + 1] = g[l.segment][l.offset + 1]
      <4> HIDE DEF old
      <4> QED
        BY <1>1, <1>4, <2>1, <3>1, <3>3
    <3> QED
      BY <1>5, <2>1, <3>2, <3>3, <3>4, IsLine DEF LineOf
  <2> QED
    BY <2>3, <2>4
<1>8. ASSUME NEW l \in LinesOf(h), l # id
      PROVE  l \in LinesOf(g)
  <2>1. /\ l \in Ids /\ l.segment \in DOMAIN h
        /\ l.offset \in Nat /\ l.offset < Len(h[l.segment])
    BY <1>5, LinesAreIds
  <2>2. CASE l.segment # id.segment
    <3>1. h[l.segment] = g[l.segment] /\ l.segment \in DOMAIN g
      BY <1>3, <2>1, <2>2
    <3> QED
      BY <2>1, <3>1, IsLine
  <2>3. CASE l.segment = id.segment
    <3>1. l.offset # id.offset
      BY <1>1, <1>8, <2>1, <2>3 DEF Ids
    <3>2. l.offset < id.offset + 1
      <4> HIDE DEF old
      <4> QED
        BY <1>3, <1>4, <2>1, <2>3
    <3>3. l.offset < id.offset
      BY <1>1, <2>1, <3>1, <3>2
    <3>4. l.segment \in DOMAIN g /\ Len(g[l.segment]) = id.offset
      BY <1>1, <2>1, <2>3, <3>3 DEF EndOf
    <3> QED
      BY <2>1, <3>3, <3>4, IsLine
  <2> QED
    BY <2>2, <2>3
<1>9. LinesOf(h) = LinesOf(g) \cup {id}
  BY <1>6, <1>7, <1>8
<1> QED
  BY <1>5, <1>6, <1>7, <1>9 DEF h

\* The lines of the other segments stay.
LEMMA WithoutLines ==
    ASSUME NEW g, Files(g), NEW o \in DOMAIN g
    PROVE  /\ Files(Without(g, o))
           /\ LinesOf(Without(g, o)) = {l \in LinesOf(g) : l.segment # o}
           /\ \A l \in LinesOf(g) : l.segment # o => LineOf(Without(g, o), l) = LineOf(g, l)
<1> DEFINE h == Without(g, o)
<1>1. DOMAIN h = DOMAIN g \ {o} /\ \A s \in DOMAIN h : h[s] = g[s]
  BY DEF Without
<1> HIDE DEF h
<1>2. Files(h)
  BY <1>1 DEF Files
<1>3. ASSUME NEW l \in LinesOf(g), l.segment # o
      PROVE  l \in LinesOf(h) /\ LineOf(h, l) = LineOf(g, l)
  <2>1. l \in Ids /\ l.segment \in DOMAIN g /\ l.offset < Len(g[l.segment])
    BY LinesAreIds
  <2>2. l.segment \in DOMAIN h /\ h[l.segment] = g[l.segment]
    BY <1>1, <1>3, <2>1
  <2> QED
    BY <1>2, <2>1, <2>2, IsLine DEF LineOf
<1>4. ASSUME NEW l \in LinesOf(h)
      PROVE  l \in LinesOf(g) /\ l.segment # o
  <2>1. l \in Ids /\ l.segment \in DOMAIN h /\ l.offset < Len(h[l.segment])
    BY <1>2, LinesAreIds
  <2>2. l.segment \in DOMAIN g /\ l.segment # o /\ h[l.segment] = g[l.segment]
    BY <1>1, <2>1
  <2> QED
    BY <2>1, <2>2, IsLine
<1>5. LinesOf(h) = {l \in LinesOf(g) : l.segment # o}
  BY <1>3, <1>4
<1> QED
  BY <1>2, <1>3, <1>5 DEF h

\* The model's own operators in these terms.
LEMMA ModelLines ==
    ASSUME Files(log)
    PROVE  /\ \A id : Line(id) = LineOf(log, id)
           /\ \A x, segments : segments \subseteq DOMAIN log =>
                Lines(x, segments) = {l \in LinesOf(log) : l.segment \in segments /\ After(l, x)}
           /\ \A x : Lines(x, DOMAIN log) = {l \in LinesOf(log) : After(l, x)}
<1>1. \A id : Line(id) = LineOf(log, id)
  BY DEF Line, LineOf
<1>2. ASSUME NEW x, NEW segments, segments \subseteq DOMAIN log
      PROVE  Lines(x, segments) = {l \in LinesOf(log) : l.segment \in segments /\ After(l, x)}
  BY <1>2 DEF Lines, LinesOf
<1>3. ASSUME NEW x
      PROVE  Lines(x, DOMAIN log) = {l \in LinesOf(log) : After(l, x)}
  BY DEF Lines, LinesOf
<1> QED
  BY <1>1, <1>2, <1>3

-----------------------------------------------------------------------------
(***************************************************************************)
(* What the log tells.                                                     *)
(***************************************************************************)

\* A commit that is logged is the last one of its keys.
LEMMA TellsWith ==
    ASSUME NEW g, Files(g), NEW id, EndOf(id, g), NEW c \in Commits,
           NEW w \in Stores, Tells(g, w)
    PROVE  Tells(With(g, id, c), ApplyCommit(w, c))
<1> DEFINE h == With(g, id, c)
           v == ApplyCommit(w, c)
<1>1. /\ Files(h) /\ LinesOf(h) = LinesOf(g) \cup {id} /\ LineOf(h, id) = c
      /\ \A l \in LinesOf(g) : LineOf(h, l) = LineOf(g, l) /\ After(id, l)
  BY WithLines
<1>2. \A k \in Keys : v[k] = IF k \in c.keys THEN c.number ELSE w[k]
  BY DEF ApplyCommit
<1> HIDE DEF h, v
<1>3. id \in Ids /\ \A l \in LinesOf(g) : l \in Ids
  BY LinesAreIds DEF EndOf
<1>4. ASSUME NEW k \in Keys, Touching(k, h) # {}
      PROVE  \E m \in Touching(k, h) :
                LineOf(h, m).number = v[k] /\ \A l \in Touching(k, h) : ~After(l, m)
  <2>1. CASE k \in c.keys
    <3>1. id \in Touching(k, h) /\ LineOf(h, id).number = v[k]
      BY <1>1, <1>2, <2>1 DEF Touching
    <3>2. ~After(id, id)
      BY <1>3, AfterOrder
    <3>3. \A l \in Touching(k, h) : ~After(l, id)
      BY <1>1, <1>3, <3>2, AfterOrder DEF Touching
    <3> QED
      BY <3>1, <3>3
  <2>2. CASE k \notin c.keys
    <3>1. Touching(k, h) = Touching(k, g)
      BY <1>1, <2>2 DEF Touching
    <3>2. PICK m \in Touching(k, g) :
            LineOf(g, m).number = w[k] /\ \A l \in Touching(k, g) : ~After(l, m)
      BY <1>4, <3>1 DEF Tells
    <3>3. LineOf(h, m) = LineOf(g, m)
      BY <1>1 DEF Touching
    <3>4. LineOf(h, m).number = v[k]
      BY <1>2, <2>2, <3>2, <3>3
    <3> QED
      BY <3>1, <3>2, <3>4
  <2> QED
    BY <2>1, <2>2
<1>5. Tells(h, v)
  BY <1>4 DEF Tells
<1> QED
  BY <1>5 DEF h, v

\* What follows the deleted segment decides, if there is something.
LEMMA TellsWithout ==
    ASSUME NEW g, Files(g), NEW o \in DOMAIN g, \A s \in DOMAIN g : o <= s,
           NEW w, Tells(g, w)
    PROVE  Tells(Without(g, o), w)
<1> DEFINE h == Without(g, o)
<1>1. /\ LinesOf(h) = {l \in LinesOf(g) : l.segment # o}
      /\ \A l \in LinesOf(g) : l.segment # o => LineOf(h, l) = LineOf(g, l)
  BY WithoutLines
<1> HIDE DEF h
<1>2. ASSUME NEW k \in Keys, NEW l \in Touching(k, h)
      PROVE  \E m \in Touching(k, h) :
                LineOf(h, m).number = w[k] /\ \A i \in Touching(k, h) : ~After(i, m)
  <2>1. \A i \in Touching(k, h) : i \in Touching(k, g) /\ i.segment # o
    BY <1>1 DEF Touching
  <2>2. PICK m \in Touching(k, g) :
            LineOf(g, m).number = w[k] /\ \A i \in Touching(k, g) : ~After(i, m)
    BY <1>2, <2>1 DEF Tells
  <2>3. /\ l.segment \in DOMAIN g /\ m.segment \in DOMAIN g /\ m \in LinesOf(g)
        /\ m \in Ids /\ k \in LineOf(g, m).keys
    BY <1>2, <2>1, LinesAreIds DEF Touching
  <2>4. ~After(l, m) /\ l.segment # o
    BY <1>2, <2>1, <2>2
  <2>5. m.segment # o
    <3>1. l.segment \in Nat /\ m.segment \in Nat /\ o \in Nat /\ o <= l.segment /\ m # Undefined
      BY <2>3, UndefinedAssumption DEF Files
    <3> QED
      BY <2>4, <3>1 DEF After
  <2>6. m \in Touching(k, h) /\ LineOf(h, m) = LineOf(g, m)
    BY <1>1, <2>3, <2>5 DEF Touching
  <2> QED
    BY <2>1, <2>2, <2>6
<1>3. Tells(h, w)
  BY <1>2 DEF Tells
<1> QED
  BY <1>3 DEF h

\* A commit logged after a snapshot does not concern it.
LEMMA GoodWith ==
    ASSUME NEW g, Files(g), NEW id, EndOf(id, g), NEW c \in Commits,
           NEW w \in Stores, NEW x, Good(x, g, w), After(id, x.id)
    PROVE  Good(x, With(g, id, c), ApplyCommit(w, c))
<1> DEFINE h == With(g, id, c)
           v == ApplyCommit(w, c)
<1>1. /\ LinesOf(h) = LinesOf(g) \cup {id} /\ LineOf(h, id) = c
      /\ \A l \in LinesOf(g) : LineOf(h, l) = LineOf(g, l)
  BY WithLines
<1>2. \A k \in Keys : v[k] = IF k \in c.keys THEN c.number ELSE w[k]
  BY DEF ApplyCommit
<1> HIDE DEF h, v
<1>3. ASSUME NEW k \in Keys
      PROVE  x.data[k] = v[k] \/ \E l \in Touching(k, h) : After(l, x.id)
  <2>1. CASE k \in c.keys
    <3>1. id \in Touching(k, h)
      BY <1>1, <2>1 DEF Touching
    <3> QED
      BY <3>1
  <2>2. CASE k \notin c.keys
    <3>1. Touching(k, g) \subseteq Touching(k, h)
      BY <1>1 DEF Touching
    <3>2. v[k] = w[k]
      BY <1>2, <2>2
    <3> QED
      BY <3>1, <3>2 DEF Good
  <2> QED
    BY <2>1, <2>2
<1>4. Good(x, h, v)
  BY <1>3 DEF Good
<1> QED
  BY <1>4 DEF h, v

\* Nor does the end of a segment whose lines it knows.
LEMMA GoodWithout ==
    ASSUME NEW g, Files(g), NEW o \in DOMAIN g, NEW w, NEW x, Good(x, g, w),
           \A l \in LinesOf(g) : l.segment = o => ~After(l, x.id)
    PROVE  Good(x, Without(g, o), w)
<1> DEFINE h == Without(g, o)
<1>1. /\ LinesOf(h) = {l \in LinesOf(g) : l.segment # o}
      /\ \A l \in LinesOf(g) : l.segment # o => LineOf(h, l) = LineOf(g, l)
  BY WithoutLines
<1> HIDE DEF h
<1>2. \A k \in Keys : \A l \in Touching(k, g) : After(l, x.id) => l \in Touching(k, h)
  BY <1>1 DEF Touching
<1>3. Good(x, h, w)
  BY <1>2 DEF Good
<1> QED
  BY <1>3 DEF h

\* The end of the log is after every id that it reaches.
LEMMA EndIsAfter ==
    ASSUME NEW g, Files(g), NEW id, EndOf(id, g), NEW d, NEW x \in Ids \cup {Undefined},
           Reached(x, g, d)
    PROVE  After(id, x)
<1>1. CASE x = Undefined
  BY <1>1 DEF After
<1>2. CASE x \in Ids
  <2>1. x # Undefined /\ x.segment \in Nat /\ x.offset \in Nat
    BY <1>2, UndefinedAssumption DEF Ids
  <2>2. PICK s \in DOMAIN g \ d : s > x.segment \/ (s = x.segment /\ x.offset < Len(g[s]))
    BY <2>1 DEF Reached
  <2>3. s \in Nat /\ s <= id.segment /\ id.segment \in Nat /\ id.offset \in Nat
    BY DEF Files, EndOf, Ids
  <2>4. s = id.segment => id.offset = Len(g[s])
    BY DEF EndOf
  <2> QED
    BY <2>1, <2>2, <2>3, <2>4 DEF After
<1> QED
  BY <1>1, <1>2

\* Ids stay reached: by a line more,
LEMMA ReachedWith ==
    ASSUME NEW g, Files(g), NEW id, EndOf(id, g), NEW c \in Commits, NEW d,
           NEW x \in Ids \cup {Undefined}, Reached(x, g, d)
    PROVE  Reached(x, With(g, id, c), d)
<1> DEFINE h == With(g, id, c)
<1>1. /\ DOMAIN h = DOMAIN g \cup {id.segment}
      /\ \A s \in DOMAIN g : s # id.segment => h[s] = g[s]
      /\ id.segment \in DOMAIN g => h[id.segment] = Append(g[id.segment], c)
  BY DEF With
<1>2. id.segment \in DOMAIN g =>
        g[id.segment] \in Seq(Commits) /\ Len(Append(g[id.segment], c)) = Len(g[id.segment]) + 1
  BY AppendProperties DEF Files
<1> HIDE DEF h
<1>3. ASSUME x # Undefined
      PROVE  \E s \in DOMAIN h \ d : s > x.segment \/ (s = x.segment /\ x.offset < Len(h[s]))
  <2>1. PICK s \in DOMAIN g \ d : s > x.segment \/ (s = x.segment /\ x.offset < Len(g[s]))
    BY <1>3 DEF Reached
  <2>2. x.offset \in Nat /\ Len(g[s]) \in Nat
    BY <1>3 DEF Ids, Files
  <2>3. h[s] = g[s] \/ Len(h[s]) = Len(g[s]) + 1
    BY <1>1, <1>2
  <2>4. x.offset < Len(g[s]) => x.offset < Len(h[s])
    BY <2>2, <2>3
  <2> QED
    BY <1>1, <2>1, <2>4
<1>4. Reached(x, h, d)
  BY <1>3 DEF Reached
<1> QED
  BY <1>4 DEF h

\* by a segment less that was to be deleted,
LEMMA ReachedWithout ==
    ASSUME NEW g, NEW d, NEW o \in d, NEW x, Reached(x, g, d)
    PROVE  Reached(x, Without(g, o), d \ {o})
<1>1. \A s \in DOMAIN g \ d : s \in DOMAIN Without(g, o) \ (d \ {o}) /\ Without(g, o)[s] = g[s]
  BY DEF Without
<1> QED
  BY <1>1 DEF Reached

\* and when a cleaning gives up, or begins below a segment.
LEMMA ReachedAnyway ==
    ASSUME NEW g, NEW d, NEW x, Reached(x, g, d)
    PROVE  Reached(x, g, {})
  BY DEF Reached

LEMMA ReachedBelow ==
    ASSUME NEW g, Files(g), NEW y \in Ids, Reached(y, g, {}), NEW x \in Ids \cup {Undefined},
           Reached(x, g, {})
    PROVE  Reached(x, g, {s \in DOMAIN g : s < y.segment})
<1> DEFINE d == {s \in DOMAIN g : s < y.segment}
<1>1. y # Undefined /\ y.segment \in Nat
  BY UndefinedAssumption DEF Ids
<1>2. PICK t \in DOMAIN g : t > y.segment \/ t = y.segment
  BY <1>1 DEF Reached
<1>3. t \in Nat /\ t >= y.segment /\ t \in DOMAIN g \ d
  BY <1>1, <1>2 DEF Files
<1>4. ASSUME x # Undefined
      PROVE  \E s \in DOMAIN g \ d : s > x.segment \/ (s = x.segment /\ x.offset < Len(g[s]))
  <2>1. PICK s \in DOMAIN g : s > x.segment \/ (s = x.segment /\ x.offset < Len(g[s]))
    BY <1>4 DEF Reached
  <2>2. s \in Nat /\ x.segment \in Nat
    BY <1>4 DEF Files, Ids
  <2>3. CASE s \in d
    BY <1>1, <1>3, <2>1, <2>2, <2>3
  <2>4. CASE s \notin d
    BY <2>1, <2>4
  <2> QED
    BY <2>3, <2>4
<1> QED
  BY <1>4 DEF Reached

-----------------------------------------------------------------------------
(***************************************************************************)
(* What the model's operators compute.                                     *)
(***************************************************************************)

LEMMA ApplyCommitType ==
    ASSUME NEW store \in Stores, NEW c \in Commits
    PROVE  /\ ApplyCommit(store, c) \in Stores
           /\ \A k \in Keys : ApplyCommit(store, c)[k] = IF k \in c.keys THEN c.number ELSE store[k]
<1>1. c.number \in 1 .. MaxCommits /\ \A k \in Keys : store[k] \in 0 .. MaxCommits
  BY DEF Commits, Stores
<1>2. c.number \in 0 .. MaxCommits
  BY <1>1, SetupsAssumption
<1> QED
  BY <1>1, <1>2 DEF ApplyCommit, Stores

\* The numbers of commits grow.
LEMMA NumberIs ==
    ASSUME written \in Stores, Keys # {}
    PROVE  Number \in 0 .. MaxCommits /\ \A k \in Keys : written[k] <= Number
<1> DEFINE numbers == {written[k] : k \in Keys}
<1>1. numbers \in SUBSET Nat /\ numbers # {} /\ \A n \in numbers : n <= MaxCommits
  BY SetupsAssumption DEF Stores
<1>2. PICK n \in numbers : \A m \in numbers : m <= n
  <2> HIDE DEF numbers
  <2> QED
    BY <1>1, SetupsAssumption, GreatestNatural
<1>3. /\ n \in 0 .. MaxCommits
      /\ \E k \in Keys : written[k] = n
      /\ \A k \in Keys : written[k] <= n
  BY <1>2 DEF Stores
<1>4. \E i \in 0 .. MaxCommits : /\ \E k \in Keys : written[k] = i
                                 /\ \A k \in Keys : written[k] <= i
  BY <1>3
<1> QED
  BY <1>4 DEF Number

\* The last line that touches a key decides.
LEMMA ReplayIs ==
    ASSUME Files(log), NEW store \in Stores, NEW ids \in SUBSET LinesOf(log)
    PROVE  /\ Replay(store, ids) \in Stores
           /\ \A k \in Keys : (\A l \in ids : k \notin LineOf(log, l).keys) =>
                Replay(store, ids)[k] = store[k]
           /\ \A k \in Keys : \A l \in ids : k \in LineOf(log, l).keys =>
                \E m \in ids : /\ k \in LineOf(log, m).keys
                               /\ \A i \in ids : k \in LineOf(log, i).keys => ~After(i, m)
                               /\ Replay(store, ids)[k] = LineOf(log, m).number
<1> DEFINE touching(k) == {id \in ids : k \in LineOf(log, id).keys}
           value(k) == IF touching(k) = {} THEN store[k]
                       ELSE LineOf(log, LastOf(touching(k), Undefined)).number
<1>1. Replay(store, ids) = [k \in Keys |-> value(k)]
  BY ModelLines DEF Replay
<1>2. ASSUME NEW k \in Keys, touching(k) # {}
      PROVE  \E m \in touching(k) : /\ \A i \in touching(k) : ~After(i, m)
                                    /\ value(k) = LineOf(log, m).number
                                    /\ value(k) \in 0 .. MaxCommits
  <2> DEFINE S == touching(k)
             m == LastOf(S, Undefined)
  <2>1. S \in SUBSET LinesOf(log) /\ S # {}
    BY <1>2
  <2>2. m \in S /\ \A i \in S : ~After(i, m)
    <3> HIDE DEF S
    <3> QED
      BY <2>1, LastOfIs
  <2>3. value(k) = LineOf(log, m).number
    BY <1>2
  <2>4. LineOf(log, m) \in Commits
    BY <2>1, <2>2, LinesAreIds
  <2>5. LineOf(log, m).number \in 0 .. MaxCommits
    BY <2>4, SetupsAssumption DEF Commits
  <2> QED
    BY <2>2, <2>3, <2>5
<1>3. \A k \in Keys : touching(k) = {} => value(k) = store[k] /\ value(k) \in 0 .. MaxCommits
  BY DEF Stores
<1>4. \A k \in Keys : value(k) \in 0 .. MaxCommits
  <2> TAKE k \in Keys
  <2> QED
    BY <1>2, <1>3
<1>5. Replay(store, ids) \in Stores
  <2> HIDE DEF value
  <2> QED
    BY <1>1, <1>4 DEF Stores
<1>6. \A k \in Keys : Replay(store, ids)[k] = value(k)
  BY <1>1
<1>7. ASSUME NEW k \in Keys, \A l \in ids : k \notin LineOf(log, l).keys
      PROVE  Replay(store, ids)[k] = store[k]
  <2>1. touching(k) = {}
    BY <1>7
  <2> QED
    BY <1>6, <2>1
<1>8. ASSUME NEW k \in Keys, NEW l \in ids, k \in LineOf(log, l).keys
      PROVE  \E m \in ids : /\ k \in LineOf(log, m).keys
                            /\ \A i \in ids : k \in LineOf(log, i).keys => ~After(i, m)
                            /\ Replay(store, ids)[k] = LineOf(log, m).number
  <2>1. touching(k) # {}
    BY <1>8
  <2>2. PICK m \in touching(k) : /\ \A i \in touching(k) : ~After(i, m)
                                 /\ value(k) = LineOf(log, m).number
    <3> HIDE DEF value
    <3> QED
      BY <1>2, <2>1
  <2>3. Replay(store, ids)[k] = LineOf(log, m).number
    BY <1>6, <2>2
  <2>4. m \in ids /\ k \in LineOf(log, m).keys
    BY DEF touching
  <2>5. \A i \in ids : k \in LineOf(log, i).keys => ~After(i, m)
    BY <2>2
  <2> QED
    BY <2>3, <2>4, <2>5
<1> QED
  BY <1>5, <1>7, <1>8

\* From a good snapshot the whole log restores what was written.
LEMMA RestoredIs ==
    ASSUME Files(log), written \in Stores, Tells(log, written), NEW x \in Starts,
           Good(x, log, written)
    PROVE  Replay(x.data, Lines(x.id, DOMAIN log)) = written
<1> DEFINE ids == {l \in LinesOf(log) : After(l, x.id)}
           r == Replay(x.data, ids)
<1>1. Lines(x.id, DOMAIN log) = ids
  BY ModelLines
<1>2. x.data \in Stores /\ x.id \in Ids \cup {Undefined}
  BY DEF Starts
<1>3. /\ r \in Stores
      /\ \A k \in Keys : (\A l \in ids : k \notin LineOf(log, l).keys) => r[k] = x.data[k]
      /\ \A k \in Keys : \A l \in ids : k \in LineOf(log, l).keys =>
            \E m \in ids : /\ k \in LineOf(log, m).keys
                           /\ \A i \in ids : k \in LineOf(log, i).keys => ~After(i, m)
                           /\ r[k] = LineOf(log, m).number
  <2>1. ids \in SUBSET LinesOf(log)
    OBVIOUS
  <2> HIDE DEF ids
  <2> QED
    BY <1>2, <2>1, ReplayIs
<1> HIDE DEF r
<1>4. \A k \in Keys : r[k] = written[k]
  <2> TAKE k \in Keys
  <2>1. CASE \A l \in ids : k \notin LineOf(log, l).keys
    <3>1. ~\E l \in Touching(k, log) : After(l, x.id)
      BY <2>1 DEF Touching
    <3> QED
      BY <1>3, <2>1, <3>1 DEF Good
  <2>2. CASE \E l \in ids : k \in LineOf(log, l).keys
    <3>1. PICK m \in ids : /\ k \in LineOf(log, m).keys
                           /\ \A i \in ids : k \in LineOf(log, i).keys => ~After(i, m)
                           /\ r[k] = LineOf(log, m).number
      BY <1>3, <2>2
    <3>2. m \in Touching(k, log) /\ After(m, x.id) /\ m \in Ids
      BY <3>1, LinesAreIds DEF Touching
    <3>3. PICK n \in Touching(k, log) :
            LineOf(log, n).number = written[k] /\ \A l \in Touching(k, log) : ~After(l, n)
      BY <3>2 DEF Tells
    <3>4. n \in LinesOf(log) /\ n \in Ids /\ k \in LineOf(log, n).keys
      BY LinesAreIds DEF Touching
    <3>5. After(n, x.id)
      BY <1>2, <3>2, <3>3, <3>4, AfterMixed
    <3>6. ~After(n, m) /\ ~After(m, n)
      BY <3>1, <3>2, <3>3, <3>4, <3>5
    <3>7. n = m
      BY <3>2, <3>4, <3>6, AfterOrder
    <3> QED
      BY <3>1, <3>3, <3>7
  <2> QED
    BY <2>1, <2>2
<1>5. r = written
  BY <1>3, <1>4 DEF Stores
<1> QED
  BY <1>1, <1>5 DEF r

\* The last pending commit that touches a key decides.
LEMMA ApplyAllIs ==
    ASSUME NEW store \in Stores, NEW commits \in Seq(Commits)
    PROVE  /\ ApplyAll(store, commits) \in Stores
           /\ \A k \in Keys : (\A i \in DOMAIN commits : k \notin commits[i].keys) =>
                ApplyAll(store, commits)[k] = store[k]
           /\ \A k \in Keys : \A i \in DOMAIN commits :
                k \in commits[i].keys /\ (\A j \in DOMAIN commits : k \in commits[j].keys => j <= i)
                    => ApplyAll(store, commits)[k] = commits[i].number
<1> DEFINE touching(k) == {i \in DOMAIN commits : k \in commits[i].keys}
           last(k) == CHOOSE i \in touching(k) : \A j \in touching(k) : j <= i
           value(k) == IF touching(k) = {} THEN store[k] ELSE commits[last(k)].number
<1>1. ApplyAll(store, commits) = [k \in Keys |-> value(k)]
  BY DEF ApplyAll
<1>2. DOMAIN commits = 1 .. Len(commits) /\ Len(commits) \in Nat
      /\ \A i \in DOMAIN commits : commits[i] \in Commits /\ i \in Nat
  BY ElementOfSeq
<1>3. ASSUME NEW k \in Keys, touching(k) # {}
      PROVE  last(k) \in touching(k) /\ \A j \in touching(k) : j <= last(k)
  <2> DEFINE S == touching(k)
  <2>1. S \in SUBSET Nat /\ S # {} /\ \A j \in S : j <= Len(commits)
    BY <1>2, <1>3
  <2>2. \E i \in S : \A j \in S : j <= i
    <3> HIDE DEF S
    <3> QED
      BY <1>2, <2>1, GreatestNatural
  <2> QED
    BY <2>2
<1>4. \A k \in Keys : value(k) \in 0 .. MaxCommits
  <2> TAKE k \in Keys
  <2>1. CASE touching(k) = {}
    BY <2>1 DEF Stores
  <2>2. CASE touching(k) # {}
    <3>1. last(k) \in DOMAIN commits
      BY <1>3, <2>2
    <3>2. commits[last(k)] \in Commits
      <4> HIDE DEF last
      <4> QED
        BY <1>2, <3>1
    <3>3. commits[last(k)].number \in 0 .. MaxCommits
      <4> HIDE DEF last
      <4> QED
        BY <3>2, SetupsAssumption DEF Commits
    <3> QED
      BY <2>2, <3>3
  <2> QED
    BY <2>1, <2>2
<1>5. ApplyAll(store, commits) \in Stores
  <2> HIDE DEF value
  <2> QED
    BY <1>1, <1>4 DEF Stores
<1>6. ASSUME NEW k \in Keys, \A i \in DOMAIN commits : k \notin commits[i].keys
      PROVE  ApplyAll(store, commits)[k] = store[k]
  BY <1>1, <1>6
<1>7. ASSUME NEW k \in Keys, NEW i \in DOMAIN commits, k \in commits[i].keys,
             \A j \in DOMAIN commits : k \in commits[j].keys => j <= i
      PROVE  ApplyAll(store, commits)[k] = commits[i].number
  <2>1. i \in touching(k)
    BY <1>7
  <2>2. last(k) \in touching(k) /\ i <= last(k)
    BY <1>3, <2>1
  <2>3. last(k) <= i /\ last(k) \in Nat /\ i \in Nat
    <3> HIDE DEF last
    <3> QED
      BY <1>2, <1>7, <2>2
  <2>4. last(k) = i
    <3> HIDE DEF last
    <3> QED
      BY <2>2, <2>3
  <2> QED
    BY <1>1, <2>1, <2>4
<1> QED
  BY <1>5, <1>6, <1>7

\* Where the next line goes.
LEMMA EndFound ==
    ASSUME Files(log), writer \in Ids \cup {Undefined},
           writer # Undefined =>
                /\ writer.segment \in DOMAIN log
                /\ \A s \in DOMAIN log : s <= writer.segment
                /\ Len(log[writer.segment]) = writer.offset
    PROVE  EndOf(Rotated(IF writer = Undefined THEN OpenSegment ELSE writer), log)
<1>1. ASSUME NEW s \in DOMAIN log
      PROVE  s \in Nat \ {0} /\ Len(log[s]) \in Nat /\ Len(log[s]) <= MaxLines
  BY DEF Files
<1>2. MaxLines \in Nat \ {0} /\ Undefined \notin Ids
  BY SetupsAssumption, UndefinedAssumption
<1>3. CASE writer # Undefined
  <2>1. writer \in Ids /\ writer.segment \in Nat \ {0} /\ writer.offset \in Nat
    BY <1>3 DEF Ids
  <2>2. CASE writer.offset >= MaxLines
    <3>1. Rotated(writer) = [segment |-> writer.segment + 1, offset |-> 0]
      BY <2>2 DEF Rotated
    <3>2. \A s \in DOMAIN log : s < writer.segment + 1
      BY <1>1, <1>3, <2>1
    <3> QED
      BY <1>1, <1>2, <1>3, <2>1, <3>1, <3>2 DEF EndOf, Ids
  <2>3. CASE ~(writer.offset >= MaxLines)
    <3>1. Rotated(writer) = writer
      BY <2>3 DEF Rotated
    <3> QED
      BY <1>2, <1>3, <2>1, <2>3, <3>1 DEF EndOf
  <2> QED
    BY <1>3, <2>2, <2>3
<1>4. CASE writer = Undefined /\ DOMAIN log = {}
  <2>1. OpenSegment = [segment |-> 1, offset |-> 0]
    BY <1>4 DEF OpenSegment
  <2>2. Rotated(OpenSegment) = [segment |-> 1, offset |-> 0]
    BY <1>2, <2>1 DEF Rotated
  <2> QED
    BY <1>2, <1>4, <2>2 DEF EndOf, Ids
<1>5. CASE writer = Undefined /\ DOMAIN log # {}
  <2> DEFINE last == CHOOSE s \in DOMAIN log : \A other \in DOMAIN log : other <= s
  <2>1. last \in DOMAIN log /\ \A other \in DOMAIN log : other <= last
    <3>1. PICK b \in Nat : \A s \in DOMAIN log : s <= b
      BY DEF Files
    <3>2. DOMAIN log \in SUBSET Nat
      BY <1>1
    <3>3. \E s \in DOMAIN log : \A other \in DOMAIN log : other <= s
      BY <1>5, <3>1, <3>2, GreatestNatural
    <3> QED
      BY <3>3
  <2>2. OpenSegment = IF Len(log[last]) < MaxLines
                      THEN [segment |-> last, offset |-> Len(log[last])]
                      ELSE [segment |-> last + 1, offset |-> 0]
    BY <1>5 DEF OpenSegment
  <2> HIDE DEF last
  <2>3. last \in Nat \ {0} /\ Len(log[last]) \in Nat
    BY <1>1, <2>1
  <2>4. CASE Len(log[last]) < MaxLines
    <3>1. Rotated(OpenSegment) = [segment |-> last, offset |-> Len(log[last])]
      BY <1>2, <2>2, <2>3, <2>4 DEF Rotated
    <3> QED
      BY <1>5, <2>1, <2>3, <2>4, <3>1 DEF EndOf, Ids
  <2>5. CASE ~(Len(log[last]) < MaxLines)
    <3>1. Rotated(OpenSegment) = [segment |-> last + 1, offset |-> 0]
      BY <1>2, <2>2, <2>5 DEF Rotated
    <3>2. \A s \in DOMAIN log : s < last + 1
      BY <1>1, <2>1, <2>3
    <3> QED
      BY <1>1, <1>2, <1>5, <2>3, <3>1, <3>2 DEF EndOf, Ids
  <2> QED
    BY <2>4, <2>5
<1> QED
  BY <1>3, <1>4, <1>5

\* A segment that got a line.
LEMMA WithEnd ==
    ASSUME NEW g, Files(g), NEW id, EndOf(id, g), NEW c \in Commits
    PROVE  /\ DOMAIN With(g, id, c) = DOMAIN g \cup {id.segment}
           /\ \A s \in DOMAIN With(g, id, c) : s <= id.segment
           /\ Len(With(g, id, c)[id.segment]) = id.offset + 1
<1>1. /\ DOMAIN With(g, id, c) = DOMAIN g \cup {id.segment}
      /\ With(g, id, c)[id.segment] =
            Append(IF id.segment \in DOMAIN g THEN g[id.segment] ELSE <<>>, c)
  BY DEF With
<1>2. id.segment \in Nat /\ \A s \in DOMAIN g : s <= id.segment
  BY DEF EndOf, Ids
<1>3. Len(With(g, id, c)[id.segment]) = id.offset + 1
  <2>1. CASE id.segment \in DOMAIN g
    <3>1. g[id.segment] \in Seq(Commits) /\ id.offset = Len(g[id.segment])
      BY <2>1 DEF Files, EndOf
    <3> QED
      BY <1>1, <2>1, <3>1, AppendProperties
  <2>2. CASE id.segment \notin DOMAIN g
    <3>1. <<>> \in Seq(Commits) /\ Len(<<>>) = 0 /\ id.offset = 0
      BY <2>2 DEF EndOf
    <3>2. Len(Append(<<>>, c)) = Len(<<>>) + 1
      BY <3>1, AppendProperties
    <3> QED
      BY <1>1, <2>2, <3>1, <3>2
  <2> QED
    BY <2>1, <2>2
<1> QED
  BY <1>1, <1>2, <1>3

LEMMA LoadedType ==
    ASSUME NEW file \in Snapshots \cup {Undefined}
    PROVE  /\ Loaded(file) \in Starts
           /\ file = Undefined => Loaded(file) = [id |-> Undefined, data |-> EmptyStore]
           /\ file # Undefined => Loaded(file) = file /\ file.id \in Ids /\ file.id # Undefined
                                  /\ file.data \in Stores
<1>1. EmptyStore \in Stores
  BY SetupsAssumption DEF EmptyStore, Stores
<1>2. CASE file = Undefined
  BY <1>1, <1>2 DEF Loaded, Starts
<1>3. CASE file # Undefined
  <2>1. file \in [id : Ids, data : Stores]
    BY <1>3 DEF Snapshots
  <2>2. file \in Starts
    BY <2>1 DEF Starts
  <2>3. file.id \in Ids /\ file.data \in Stores
    BY <2>1
  <2> QED
    BY <1>3, <2>2, <2>3, UndefinedAssumption DEF Loaded
<1> QED
  BY <1>2, <1>3

\* A line is reached by itself.
LEMMA ReachedLine ==
    ASSUME NEW g, Files(g), NEW l \in LinesOf(g)
    PROVE  Reached(l, g, {})
  BY LinesAreIds DEF Reached

\* The head snapshot that is built knows the lines of the segments to delete, and is good
\* if the previous one was.
LEMMA HeadIs ==
    ASSUME Files(log), head \in Snapshots \cup {Undefined}, lastSnapshotCommitId \in Ids,
           Removable # {}
    PROVE  /\ Removable = {s \in DOMAIN log : s < lastSnapshotCommitId.segment}
           /\ BuildHeadSnapshot \in Snapshots
           /\ BuildHeadSnapshot.id \in LinesOf(log)
                \/ (head # Undefined /\ BuildHeadSnapshot.id = head.id)
           /\ \A l \in LinesOf(log) :
                l.segment \in Removable => ~After(l, BuildHeadSnapshot.id)
           /\ written \in Stores /\ Tells(log, written) /\ Good(Loaded(head), log, written) =>
                Good(BuildHeadSnapshot, log, written)
<1> DEFINE base == Loaded(head)
           removable == {s \in DOMAIN log : s < lastSnapshotCommitId.segment}
           ids == {l \in LinesOf(log) : l.segment \in removable /\ After(l, base.id)}
           last == LastOf(ids, base.id)
           r == Replay(base.data, ids)
<1>1. Removable = removable
  BY UndefinedAssumption DEF Removable
<1>2. /\ base \in Starts /\ base.id \in Ids \cup {Undefined} /\ base.data \in Stores
      /\ head # Undefined => base = head /\ base.id # Undefined
      /\ head = Undefined => base.id = Undefined
  BY LoadedType DEF Starts
<1>3. /\ Lines(base.id, Removable) = ids
      /\ ids \in SUBSET LinesOf(log)
  BY <1>1, ModelLines
<1> HIDE DEF base
<1>4. \A l \in LinesOf(log) : l \in Ids /\ l # Undefined /\ l.segment \in Nat
  BY LinesAreIds, UndefinedAssumption DEF Files
<1>5. /\ last = base.id /\ ids = {}
      \/ /\ ids # {} /\ last \in ids /\ \A l \in ids : ~After(l, last)
  <2>1. CASE ids = {}
    BY <2>1 DEF LastOf
  <2>2. CASE ids # {}
    <3> HIDE DEF ids
    <3> QED
      BY <1>3, <2>2, LastOfIs
  <2> QED
    BY <2>1, <2>2
<1>6. last \in Ids /\ last # Undefined
      /\ \A l \in LinesOf(log) : l.segment \in removable => ~After(l, last)
  <2>1. CASE ids # {}
    <3>1. last \in ids /\ \A l \in ids : ~After(l, last)
      BY <1>5, <2>1
    <3>2. last \in Ids /\ last # Undefined /\ After(last, base.id)
      BY <1>4, <3>1
    <3>3. ASSUME NEW l \in LinesOf(log), l.segment \in removable
          PROVE  ~After(l, last)
      <4>1. CASE l \in ids
        BY <3>1, <4>1
      <4>2. CASE l \notin ids
        <5>1. ~After(l, base.id)
          BY <3>3, <4>2
        <5> HIDE DEF last
        <5> QED
          BY <1>2, <1>4, <3>2, <5>1, AfterMixed
      <4> QED
        BY <4>1, <4>2
    <3> QED
      BY <3>2, <3>3
  <2>2. CASE ids = {}
    <3>1. last = base.id
      BY <1>5, <2>2
    <3>2. \A l \in LinesOf(log) : l.segment \in removable => ~After(l, base.id)
      BY <2>2
    <3>3. PICK s \in removable : TRUE
      BY <1>1
    <3>4. /\ [segment |-> s, offset |-> 0] \in LinesOf(log)
      <4>1. s \in DOMAIN log /\ s \in Nat \ {0} /\ 0 < Len(log[s])
        BY <3>3 DEF Files
      <4>2. [segment |-> s, offset |-> 0] \in Ids
        BY <4>1 DEF Ids
      <4> QED
        BY <4>1, <4>2, IsLine
    <3>5. base.id # Undefined
      BY <3>2, <3>3, <3>4 DEF After
    <3> QED
      BY <1>2, <3>1, <3>2, <3>5
  <2> QED
    BY <2>1, <2>2
<1>7. BuildHeadSnapshot = [id |-> last, data |-> r]
  <2> HIDE DEF ids
  <2> QED
    BY <1>3, <1>6 DEF BuildHeadSnapshot, base
<1>8. /\ r \in Stores
      /\ \A k \in Keys : (\A l \in ids : k \notin LineOf(log, l).keys) => r[k] = base.data[k]
      /\ \A k \in Keys : \A l \in ids : k \in LineOf(log, l).keys =>
            \E m \in ids : /\ k \in LineOf(log, m).keys
                           /\ \A i \in ids : k \in LineOf(log, i).keys => ~After(i, m)
                           /\ r[k] = LineOf(log, m).number
  <2> HIDE DEF ids
  <2> QED
    BY <1>2, <1>3, ReplayIs
<1> HIDE DEF r
<1>9. BuildHeadSnapshot \in Snapshots /\ BuildHeadSnapshot.id = last
      /\ BuildHeadSnapshot.data = r
  <2> HIDE DEF last
  <2> QED
    BY <1>6, <1>7, <1>8 DEF Snapshots
<1>10. last \in LinesOf(log) \/ (head # Undefined /\ last = head.id)
  <2>1. CASE ids # {}
    BY <1>3, <1>5, <2>1
  <2>2. CASE ids = {}
    <3>1. last = base.id /\ base.id # Undefined
      BY <1>5, <1>6, <2>2
    <3> HIDE DEF last
    <3> QED
      BY <1>2, <3>1
  <2> QED
    BY <2>1, <2>2
<1>11. ASSUME NEW n \in LinesOf(log), n.segment \notin removable, After(n, base.id)
       PROVE  After(n, last)
  <2>1. CASE ids # {}
    <3>1. last \in LinesOf(log) /\ last.segment \in removable
      BY <1>5, <2>1
    <3>2. n \in Ids /\ n.segment \in DOMAIN log /\ n.segment \in Nat
      BY <1>4, LinesAreIds
    <3>3. last.segment \in Nat /\ last.segment < lastSnapshotCommitId.segment
          /\ lastSnapshotCommitId.segment \in Nat
      BY <1>4, <3>1 DEF Ids
    <3>4. n.segment > last.segment
      <4> HIDE DEF last
      <4> QED
        BY <1>11, <3>2, <3>3
    <3> QED
      BY <3>4 DEF After
  <2>2. CASE ids = {}
    BY <1>5, <1>11, <2>2
  <2> QED
    BY <2>1, <2>2
<1> HIDE DEF last
<1>12. ASSUME Tells(log, written), Good(base, log, written), NEW k \in Keys
       PROVE  r[k] = written[k] \/ \E l \in Touching(k, log) : After(l, last)
  <2>1. CASE \A l \in ids : k \notin LineOf(log, l).keys
    <3>1. CASE base.data[k] = written[k]
      BY <1>8, <2>1, <3>1
    <3>2. CASE \E l \in Touching(k, log) : After(l, base.id)
      <4>1. PICK l \in Touching(k, log) : After(l, base.id)
        BY <3>2
      <4>2. l \in LinesOf(log) /\ l.segment \notin removable
        BY <2>1, <4>1 DEF Touching
      <4> HIDE DEF removable
      <4> QED
        BY <1>11, <4>1, <4>2
    <3> QED
      BY <1>12, <3>1, <3>2 DEF Good
  <2>2. CASE \E l \in ids : k \in LineOf(log, l).keys
    <3>1. PICK m \in ids : /\ k \in LineOf(log, m).keys
                           /\ \A i \in ids : k \in LineOf(log, i).keys => ~After(i, m)
                           /\ r[k] = LineOf(log, m).number
      BY <1>8, <2>2
    <3>2. m \in Touching(k, log) /\ After(m, base.id) /\ m \in Ids
      BY <1>4, <3>1 DEF Touching
    <3>3. PICK n \in Touching(k, log) :
            LineOf(log, n).number = written[k] /\ \A l \in Touching(k, log) : ~After(l, n)
      BY <1>12, <3>2 DEF Tells
    <3>4. n \in LinesOf(log) /\ n \in Ids /\ k \in LineOf(log, n).keys
      BY <1>4 DEF Touching
    <3>5. After(n, base.id)
      BY <1>2, <3>2, <3>3, <3>4, AfterMixed
    <3>6. CASE n.segment \in removable
      <4>1. ~After(n, m) /\ ~After(m, n)
        BY <3>1, <3>2, <3>3, <3>4, <3>5, <3>6
      <4>2. n = m
        BY <3>2, <3>4, <4>1, AfterOrder
      <4> QED
        BY <3>1, <3>3, <4>2
    <3>7. CASE n.segment \notin removable
      <4> HIDE DEF removable
      <4> QED
        BY <1>11, <3>4, <3>5, <3>7
    <3> QED
      BY <3>6, <3>7
  <2> QED
    BY <2>1, <2>2
<1>13. ASSUME Tells(log, written), Good(base, log, written)
       PROVE  Good(BuildHeadSnapshot, log, written)
  BY <1>9, <1>12, <1>13 DEF Good
<1> QED
  BY <1>1, <1>6, <1>9, <1>10, <1>13 DEF base

-----------------------------------------------------------------------------
(***************************************************************************)
(* The invariant, in two parts.  Base holds in every setup; Safe, which    *)
(* says that nothing is lost, in the sound ones.                           *)
(***************************************************************************)

\* What a call of #loadCache may know.
LoadStates == {Idle} \cup [at : {"snapshot"}] \cup [at : {"join"}, of : Processes]
                \cup [at : {"log", "lines", "finish"}, store : Stores, last : Ids \cup {Undefined}]

TypesInv ==
    /\ TypeOK
    /\ load \in [Processes -> LoadStates]
    /\ load["worker"] # Idle => lastCommitId # Undefined

\* Every id that a file or the memory holds is known to the part of the log that stays.
KnownInv ==
    /\ snapshot # Undefined => Reached(snapshot.id, log, doomed)
    /\ head # Undefined => Reached(head.id, log, doomed)
    /\ saving # Undefined => Reached(saving.id, log, doomed)
    /\ Reached(lastCommitId, log, doomed)
    /\ Reached(lastSnapshotCommitId, log, doomed)
    /\ \A p \in Processes : load[p].at \in {"log", "lines", "finish"} => Reached(load[p].last, log, doomed)

\* The writer stands at the end of the last segment.
WriterInv ==
    writer # Undefined =>
        /\ writer.segment \in DOMAIN log
        /\ \A s \in DOMAIN log : s <= writer.segment
        /\ Len(log[writer.segment]) =
              IF writing = Undefined THEN writer.offset ELSE writer.offset + 1

\* The commit whose line is written is what was logged and not yet told.
HistoryInv ==
    /\ \A k \in Keys : acked[k] <= written[k]
    /\ writing = Undefined => acked = written
    /\ writing # Undefined =>
          /\ phase = "open"
          /\ writer # Undefined /\ writing.id = writer
          /\ written = ApplyCommit(acked, writing.commit)
          /\ writing.id \in LinesOf(log) /\ LineOf(log, writing.id) = writing.commit

Base ==
    /\ TypesInv
    /\ Files(log) /\ Front(doomed, log)
    /\ KnownInv
    /\ WriterInv
    /\ HistoryInv
    /\ Tells(log, written)

-----------------------------------------------------------------------------
(***************************************************************************)
(* Every step preserves Base.                                              *)
(***************************************************************************)

LEMMA LoadShape ==
    ASSUME NEW x \in LoadStates
    PROVE  /\ x.at \in {"log", "lines", "finish"} => x.store \in Stores /\ x.last \in Ids \cup {Undefined}
           /\ x.at \in {"idle", "snapshot", "join", "log", "lines", "finish"}
           /\ x.at = "idle" <=> x = Idle
<1>1. CASE x = Idle
  BY <1>1 DEF Idle
<1>2. CASE x \in [at : {"snapshot"}]
  BY <1>2 DEF Idle
<1>3. CASE x \in [at : {"join"}, of : Processes]
  BY <1>3 DEF Idle
<1>4. CASE x \in [at : {"log", "lines", "finish"}, store : Stores, last : Ids \cup {Undefined}]
  BY <1>4 DEF Idle
<1> QED
  BY <1>1, <1>2, <1>3, <1>4 DEF LoadStates

LEMMA MadeLoads ==
           /\ Idle \in LoadStates /\ [at |-> "snapshot"] \in LoadStates
           /\ \A p \in Processes : [at |-> "join", of |-> p] \in LoadStates
           /\ \A a \in {"log", "lines", "finish"}, s \in Stores, x \in Ids \cup {Undefined} :
                [at |-> a, store |-> s, last |-> x] \in LoadStates
           /\ [at |-> "snapshot"] # Idle
           /\ \A p : [at |-> "join", of |-> p] # Idle
           /\ \A a \in {"log", "lines", "finish"} : \A s, x : [at |-> a, store |-> s, last |-> x] # Idle
<1>1. Idle.at = "idle"
  BY DEF Idle
<1>2. \A a \in {"log", "lines", "finish"}, s \in Stores, x \in Ids \cup {Undefined} :
                [at |-> a, store |-> s, last |-> x] \in LoadStates
  BY DEF LoadStates
<1>3. /\ Idle \in LoadStates /\ [at |-> "snapshot"] \in LoadStates
      /\ \A p \in Processes : [at |-> "join", of |-> p] \in LoadStates
  BY DEF LoadStates
<1>4. [at |-> "snapshot"] # Idle
  <2>1. [at |-> "snapshot"].at = "snapshot"
    OBVIOUS
  <2> QED
    BY <1>1, <2>1
<1>5. \A p : [at |-> "join", of |-> p] # Idle
  <2> TAKE p
  <2>1. [at |-> "join", of |-> p].at = "join"
    OBVIOUS
  <2> QED
    BY <1>1, <2>1
<1>6. \A a \in {"log", "lines", "finish"} : \A s, x : [at |-> a, store |-> s, last |-> x] # Idle
  <2> TAKE a \in {"log", "lines", "finish"}
  <2> TAKE s
  <2> TAKE x
  <2>1. [at |-> a, store |-> s, last |-> x].at = a
    OBVIOUS
  <2> QED
    BY <1>1, <2>1
<1> QED
  BY <1>2, <1>3, <1>4, <1>5, <1>6

\* The files stay whole when the process dies or ends.
LEMMA FreshBase ==
    ASSUME Base, Fresh, UNCHANGED <<setup, disk, written>>, acked' = written,
           sessions' \in 0 .. MaxSessions,
           phase' \in {"down", "open", "closing", "cleaning", "ending"}
    PROVE  Base'
<1>1. log' = log /\ snapshot' = snapshot /\ head' = head /\ setup' = setup /\ written' = written
  BY DEF disk
<1>2. TypesInv'
  <2>1. TypeOK'
    BY <1>1 DEF Base, TypesInv, TypeOK, Fresh
  <2>2. load' \in [Processes -> LoadStates]
    BY MadeLoads DEF Fresh
  <2>3. load'["worker"] = Idle
    BY DEF Fresh, Processes
  <2> QED
    BY <2>1, <2>2, <2>3 DEF TypesInv
<1>3. Files(log)' /\ Front(doomed, log)'
  BY <1>1 DEF Base, Front, Fresh
<1>4. KnownInv'
  <2>1. \A p \in Processes : load'[p] = Idle
    BY DEF Fresh
  <2>2. \A p \in Processes : load'[p].at = "idle"
    BY <2>1 DEF Idle
  <2>3. /\ snapshot # Undefined => Reached(snapshot.id, log, {})
        /\ head # Undefined => Reached(head.id, log, {})
    BY ReachedAnyway DEF Base, KnownInv
  <2>4. Reached(Undefined, log, {})
    BY DEF Reached
  <2> QED
    BY <1>1, <2>2, <2>3, <2>4 DEF KnownInv, Fresh
<1>5. WriterInv'
  BY DEF WriterInv, Fresh
<1>6. HistoryInv'
  <2>1. \A k \in Keys : written[k] <= written[k]
    BY SetupsAssumption DEF Base, TypesInv, TypeOK, Stores
  <2> QED
    BY <1>1, <2>1 DEF HistoryInv, Fresh
<1>7. Tells(log, written)'
  BY <1>1 DEF Base
<1> QED
  BY <1>2, <1>3, <1>4, <1>5, <1>6, <1>7 DEF Base

LEMMA InitializeBase ==
    ASSUME Base, Initialize
    PROVE  Base'
<1>1. sessions \in 0 .. MaxSessions /\ MaxSessions \in Nat
  BY SetupsAssumption DEF Base, TypesInv, TypeOK
<1>2. sessions' \in 0 .. MaxSessions
  BY <1>1 DEF Initialize
<1>3. writing = Undefined /\ acked = written
  BY DEF Base, HistoryInv, Initialize
<1> QED
  BY <1>2, <1>3, FreshBase DEF Initialize, history

LEMMA EndCloseBase ==
    ASSUME Base, EndClose
    PROVE  Base'
<1>1. sessions \in 0 .. MaxSessions
  BY DEF Base, TypesInv, TypeOK
<1>2. writing = Undefined /\ acked = written
  BY DEF Base, HistoryInv, EndClose
<1> QED
  BY <1>1, <1>2, FreshBase DEF EndClose, history

LEMMA CrashBase ==
    ASSUME Base, Crash
    PROVE  Base'
<1>1. sessions \in 0 .. MaxSessions
  BY DEF Base, TypesInv, TypeOK
<1> QED
  BY <1>1, FreshBase DEF Crash, history

LEMMA BeginCloseBase ==
    ASSUME Base, BeginClose
    PROVE  Base'
<1>1. UNCHANGED <<setup, sessions, log, snapshot, head, writer, writing, cache, cacheLoading,
                  pendingOps, lastCommitId, lastSnapshotCommitId, load, saving, doomed, written,
                  acked>>
  BY DEF BeginClose, disk, memory, history
<1>2. phase' \in {"ending", "closing"} /\ writing = Undefined
  BY DEF BeginClose
<1>3. TypesInv'
  BY <1>1, <1>2 DEF Base, TypesInv, TypeOK
<1>4. KnownInv' /\ WriterInv'
  BY <1>1 DEF Base, KnownInv, WriterInv
<1>5. HistoryInv'
  BY <1>1, <1>2 DEF Base, HistoryInv
<1> QED
  BY <1>1, <1>3, <1>4, <1>5 DEF Base

LEMMA InitBase ==
    ASSUME Init
    PROVE  Base
<1>1. DOMAIN log = {}
  BY DEF Init
<1>2. EmptyStore \in Stores
  BY SetupsAssumption DEF EmptyStore, Stores
<1>3. TypesInv
  <2>1. TypeOK
    BY <1>1, <1>2, SetupsAssumption DEF Init, TypeOK
  <2>2. load \in [Processes -> LoadStates] /\ load["worker"] = Idle
    BY MadeLoads DEF Init, Processes
  <2> QED
    BY <2>1, <2>2 DEF TypesInv
<1>4. Files(log) /\ Front(doomed, log)
  BY <1>1 DEF Files, Front, Init
<1>5. KnownInv
  <2>1. \A p \in Processes : load[p].at = "idle"
    BY DEF Init, Idle
  <2> QED
    BY <2>1 DEF KnownInv, Reached, Init
<1>6. WriterInv /\ HistoryInv
  <2>1. \A k \in Keys : EmptyStore[k] <= EmptyStore[k]
    BY DEF EmptyStore
  <2> QED
    BY <2>1 DEF WriterInv, HistoryInv, Init
<1>7. Tells(log, written)
  BY <1>1 DEF Tells, Touching, LinesOf
<1> QED
  BY <1>3, <1>4, <1>5, <1>6, <1>7 DEF Base

\* A commit is logged, at the end, with a number above those of its keys.
Logged(id, c) ==
    /\ EndOf(id, log) /\ c \in Commits
    /\ \A k \in Keys : written[k] <= c.number
    /\ writer' = id /\ writing' = [id |-> id, commit |-> c]
    /\ log' = With(log, id, c) /\ written' = ApplyCommit(written, c)
    /\ phase = "open" /\ writing = Undefined
    /\ setup.overlap \/ \A p \in Processes : load[p] = Idle
    /\ UNCHANGED <<setup, sessions, phase, snapshot, head, cache, cacheLoading, pendingOps,
                   lastCommitId, lastSnapshotCommitId, load, saving, doomed, acked>>

LEMMA WriteIs ==
    ASSUME Base, NEW keys \in (SUBSET Keys) \ {{}}, Write(keys)
    PROVE  \E id, c : Logged(id, c)
<1> DEFINE id == Rotated(IF writer = Undefined THEN OpenSegment ELSE writer)
           c == [keys |-> keys, number |-> Number + 1]
<1>1. EndOf(id, log)
  <2>1. Files(log) /\ writer \in Ids \cup {Undefined}
    BY DEF Base, TypesInv, TypeOK
  <2>2. writer # Undefined =>
                /\ writer.segment \in DOMAIN log
                /\ \A s \in DOMAIN log : s <= writer.segment
                /\ Len(log[writer.segment]) = writer.offset
    BY DEF Base, WriterInv, Write
  <2> QED
    BY <2>1, <2>2, EndFound
<1> HIDE DEF id
<1>2. /\ Number \in 0 .. MaxCommits /\ \A k \in Keys : written[k] <= Number
      /\ written \in Stores
  <2>1. written \in Stores
    BY DEF Base, TypesInv, TypeOK
  <2>2. Keys # {}
    OBVIOUS
  <2> QED
    BY <2>1, <2>2, NumberIs
<1>3. Number < MaxCommits /\ MaxCommits \in Nat
  BY SetupsAssumption DEF Write
<1>4. Number + 1 \in 1 .. MaxCommits
  BY <1>2, <1>3
<1>5. c \in Commits
  BY <1>4 DEF Commits
<1>6. \A k \in Keys : written[k] <= c.number
  <2>1. \A k \in Keys : written[k] \in 0 .. MaxCommits
    BY <1>2 DEF Stores
  <2> QED
    BY <1>2, <1>3, <2>1
<1>7. /\ writer' = id /\ writing' = [id |-> id, commit |-> c]
      /\ log' = [s \in DOMAIN log \cup {id.segment} |->
                    IF s # id.segment THEN log[s]
                    ELSE Append(IF s \in DOMAIN log THEN log[s] ELSE <<>>, c)]
      /\ written' = ApplyCommit(written, c)
  BY DEF Write, id
<1> HIDE DEF c
<1>8. log' = With(log, id, c)
  BY <1>7 DEF With
<1>9. /\ phase = "open" /\ writing = Undefined
      /\ setup.overlap \/ \A p \in Processes : load[p] = Idle
      /\ UNCHANGED <<setup, sessions, phase, snapshot, head, cache, cacheLoading, pendingOps,
                   lastCommitId, lastSnapshotCommitId, load, saving, doomed, acked>>
  BY DEF Write
<1>10. Logged(id, c)
  BY <1>1, <1>5, <1>6, <1>7, <1>8, <1>9 DEF Logged
<1> QED
  BY <1>10

LEMMA LoggedBase ==
    ASSUME Base, NEW id, NEW c, Logged(id, c)
    PROVE  Base'
<1>1. /\ EndOf(id, log) /\ c \in Commits /\ Files(log) /\ id \in Ids /\ id # Undefined
      /\ log' = With(log, id, c) /\ writer' = id /\ writing' = [id |-> id, commit |-> c]
      /\ written' = ApplyCommit(written, c) /\ written \in Stores
  BY UndefinedAssumption DEF Logged, Base, TypesInv, TypeOK, EndOf
<1>2. UNCHANGED <<setup, sessions, phase, snapshot, head, cache, cacheLoading, pendingOps,
                  lastCommitId, lastSnapshotCommitId, load, saving, doomed, acked>>
  BY DEF Logged
<1>3. /\ Files(log') /\ LinesOf(log') = LinesOf(log) \cup {id} /\ LineOf(log', id) = c
  BY <1>1, WithLines
<1>4. /\ DOMAIN log' = DOMAIN log \cup {id.segment}
      /\ \A s \in DOMAIN log' : s <= id.segment
      /\ Len(log'[id.segment]) = id.offset + 1
  BY <1>1, WithEnd
<1>5. TypesInv'
  <2>1. \A s \in DOMAIN log' : log'[s] \in Seq(Commits) /\ Len(log'[s]) <= MaxLines
    BY <1>3 DEF Files
  <2>2. DOMAIN log' \subseteq Nat \ {0} /\ DOMAIN log \subseteq DOMAIN log'
    BY <1>3, <1>4 DEF Files
  <2>3. writing' \in [id : Ids, commit : Commits] /\ written' \in Stores
    BY <1>1, ApplyCommitType
  <2>4. TypeOK'
    BY <1>1, <1>2, <2>1, <2>2, <2>3 DEF Base, TypesInv, TypeOK
  <2> QED
    BY <1>2, <2>4 DEF Base, TypesInv
<1>6. Front(doomed', log')
  <2>1. \A s \in doomed, t \in DOMAIN log' : t <= s => t \in doomed
    <3> TAKE s \in doomed, t \in DOMAIN log'
    <3>1. CASE t \in DOMAIN log
      BY <3>1 DEF Base, Front
    <3>2. CASE t = id.segment
      <4>1. s \in DOMAIN log' /\ s <= t /\ s \in Nat /\ t \in Nat
        BY <1>3, <1>4, <3>2 DEF Base, Front, Files
      <4> QED
        BY <4>1
    <3> QED
      BY <1>4, <3>1, <3>2
  <2>2. DOMAIN log' \ doomed # {}
    BY <1>4 DEF Base, Front
  <2> QED
    BY <1>2, <1>4, <2>1, <2>2 DEF Base, Front
<1>7. KnownInv'
  <2>1. ASSUME NEW x \in Ids \cup {Undefined}, Reached(x, log, doomed)
        PROVE  Reached(x, log', doomed)
    BY <1>1, <2>1, ReachedWith
  <2>2. /\ snapshot # Undefined => snapshot.id \in Ids
        /\ head # Undefined => head.id \in Ids
        /\ saving # Undefined => saving.id \in Ids
        /\ lastCommitId \in Ids \cup {Undefined} /\ lastSnapshotCommitId \in Ids \cup {Undefined}
    BY DEF Base, TypesInv, TypeOK, Snapshots
  <2>3. \A p \in Processes : load[p].at \in {"log", "lines", "finish"} => load[p].last \in Ids \cup {Undefined}
    BY LoadShape DEF Base, TypesInv
  <2> QED
    BY <1>2, <2>1, <2>2, <2>3 DEF Base, KnownInv
<1>8. WriterInv'
  <2>1. writing' # Undefined
    BY <1>1, UndefinedAssumption
  <2> QED
    BY <1>1, <1>4, <2>1 DEF WriterInv
<1>9. HistoryInv'
  <2>1. writing' # Undefined /\ writing'.id = id /\ writing'.commit = c
    BY <1>1, UndefinedAssumption
  <2>2. acked = written /\ phase' = "open"
    BY DEF Base, HistoryInv, Logged
  <2>3. \A k \in Keys : acked[k] <= written'[k]
    <3> TAKE k \in Keys
    <3>1. written'[k] = IF k \in c.keys THEN c.number ELSE written[k]
      BY <1>1, ApplyCommitType
    <3>2. written[k] <= c.number /\ written[k] \in Nat
      BY <1>1, SetupsAssumption DEF Logged, Stores
    <3> QED
      BY <2>2, <3>1, <3>2
  <2> QED
    BY <1>1, <1>2, <1>3, <2>1, <2>2, <2>3 DEF HistoryInv
<1>10. Tells(log', written')
  <2>1. Tells(log, written)
    BY DEF Base
  <2> QED
    BY <1>1, <2>1, TellsWith
<1> QED
  BY <1>3, <1>5, <1>6, <1>7, <1>8, <1>9, <1>10 DEF Base

LEMMA OnCommitBase ==
    ASSUME Base, OnCommit
    PROVE  Base'
<1>1. /\ writing # Undefined /\ writing.id = writer /\ writing.commit \in Commits
      /\ writer \in Ids /\ writer # Undefined
      /\ written = ApplyCommit(acked, writing.commit)
      /\ writing.id \in LinesOf(log)
      /\ acked \in Stores
  BY DEF Base, TypesInv, TypeOK, HistoryInv, OnCommit
<1>2. UNCHANGED <<setup, sessions, phase, log, snapshot, head, lastSnapshotCommitId, load,
                  saving, doomed, written>>
  BY DEF OnCommit, disk
<1>3. /\ writer' = [writer EXCEPT !.offset = @ + 1] /\ lastCommitId' = writing.id
      /\ writing' = Undefined /\ acked' = ApplyCommit(acked, writing.commit)
      /\ cacheLoading' = Undefined
  BY DEF OnCommit
<1>4. /\ writer' \in Ids /\ writer'.segment = writer.segment
      /\ writer'.offset = writer.offset + 1
  BY <1>1, <1>3 DEF Ids
<1>5. cache' \in Stores \cup {Undefined}
  <2>1. cache \in Stores \cup {Undefined}
    BY DEF Base, TypesInv, TypeOK
  <2> QED
    BY <1>1, <2>1, ApplyCommitType DEF OnCommit
<1>6. pendingOps' \in Seq(Commits) \cup {Undefined}
  <2>1. pendingOps \in Seq(Commits) \cup {Undefined}
    BY DEF Base, TypesInv, TypeOK
  <2>2. <<>> \in Seq(Commits)
    OBVIOUS
  <2>3. \A q \in Seq(Commits) : Append(q, writing.commit) \in Seq(Commits)
    BY <1>1, AppendProperties
  <2> QED
    BY <2>1, <2>2, <2>3 DEF OnCommit
<1>7. TypesInv'
  <2>1. TypeOK'
    BY <1>1, <1>2, <1>3, <1>4, <1>5, <1>6, ApplyCommitType DEF Base, TypesInv, TypeOK
  <2> QED
    BY <1>1, <1>2, <1>3, <2>1 DEF Base, TypesInv
<1>8. KnownInv'
  <2>1. Reached(writer, log, doomed)
    <3>1. Len(log[writer.segment]) = writer.offset + 1 /\ writer.segment \in DOMAIN log
      BY <1>1 DEF Base, WriterInv
    <3>2. writer.segment \notin doomed
      <4>1. PICK s \in DOMAIN log \ doomed : TRUE
        BY <3>1 DEF Base, Front
      <4>2. s <= writer.segment
        BY <1>1, <4>1 DEF Base, WriterInv
      <4> QED
        BY <4>1, <4>2 DEF Base, Front
    <3>3. writer.offset < Len(log[writer.segment])
      BY <1>1, <3>1 DEF Ids
    <3> QED
      BY <3>1, <3>2, <3>3 DEF Reached
  <2> QED
    BY <1>1, <1>2, <1>3, <2>1 DEF Base, KnownInv
<1>9. WriterInv'
  BY <1>1, <1>2, <1>3, <1>4 DEF Base, WriterInv
<1>10. HistoryInv'
  <2>1. \A k \in Keys : written[k] <= written[k]
    BY SetupsAssumption DEF Base, TypesInv, TypeOK, Stores
  <2> QED
    BY <1>1, <1>2, <1>3, <2>1 DEF HistoryInv
<1> QED
  BY <1>2, <1>7, <1>8, <1>9, <1>10 DEF Base

\* A call that loads: what changes, and that it stays within the types and the log.
LEMMA LoadBase ==
    ASSUME Base, NEW p \in Processes, NEW x \in LoadStates, load' = [load EXCEPT ![p] = x],
           x.at \in {"log", "lines", "finish"} => Reached(x.last, log, doomed),
           p = "worker" => lastCommitId # Undefined,
           cacheLoading' \in Processes \cup {Undefined},
           lastSnapshotCommitId' \in Ids \cup {Undefined},
           Reached(lastSnapshotCommitId', log, doomed),
           \/ lastCommitId' = lastCommitId
           \/ lastCommitId' \in Ids /\ Reached(lastCommitId', log, doomed),
           UNCHANGED <<setup, sessions, phase, log, snapshot, head, writer, writing, cache,
                       pendingOps, saving, doomed, written, acked>>
    PROVE  Base'
<1>1. load \in [Processes -> LoadStates] /\ "worker" \in Processes
  BY DEF Base, TypesInv, Processes
<1>2. /\ load' \in [Processes -> LoadStates] /\ load'[p] = x
      /\ \A q \in Processes : q # p => load'[q] = load[q]
  BY <1>1
<1>3. /\ lastCommitId' \in Ids \cup {Undefined} /\ Reached(lastCommitId', log, doomed)
      /\ lastCommitId # Undefined => lastCommitId' # Undefined
  BY UndefinedAssumption DEF Base, TypesInv, TypeOK, KnownInv
<1>4. TypesInv'
  <2>1. TypeOK'
    BY <1>3, <1>2 DEF Base, TypesInv, TypeOK
  <2>2. load'["worker"] # Idle => lastCommitId' # Undefined
    BY <1>3, <1>1, <1>2 DEF Base, TypesInv
  <2> QED
    BY <1>2, <2>1, <2>2 DEF TypesInv
<1>5. KnownInv'
  <2>1. \A q \in Processes : load'[q].at \in {"log", "lines", "finish"} => Reached(load'[q].last, log, doomed)
    BY <1>2 DEF Base, KnownInv
  <2> QED
    BY <1>3, <2>1 DEF Base, KnownInv
<1>6. WriterInv' /\ HistoryInv'
  BY DEF Base, WriterInv, HistoryInv
<1> QED
  BY <1>4, <1>5, <1>6 DEF Base

LEMMA StartLoadBase ==
    ASSUME Base, NEW p \in Processes, StartLoad(p), p = "worker" => lastCommitId # Undefined
    PROVE  Base'
<1>1. /\ cacheLoading \in Processes \cup {Undefined}
      /\ lastSnapshotCommitId \in Ids \cup {Undefined}
      /\ Reached(lastSnapshotCommitId, log, doomed)
  BY DEF Base, TypesInv, TypeOK, KnownInv
<1>2. UNCHANGED <<setup, sessions, phase, log, snapshot, head, writer, writing, cache,
                  pendingOps, lastCommitId, lastSnapshotCommitId, saving, doomed, written, acked>>
  BY DEF StartLoad, disk, history
<1>3. PICK x \in LoadStates : /\ load' = [load EXCEPT ![p] = x]
                              /\ x.at \in {"join", "snapshot"}
  <2>1. CASE cacheLoading # Undefined
    <3>1. [at |-> "join", of |-> cacheLoading] \in LoadStates
      BY <1>1, <2>1, MadeLoads
    <3> QED
      BY <2>1, <3>1 DEF StartLoad
  <2>2. CASE cacheLoading = Undefined
    BY <2>2, MadeLoads DEF StartLoad
  <2> QED
    BY <2>1, <2>2
<1>4. cacheLoading' \in Processes \cup {Undefined}
  BY <1>1 DEF StartLoad
<1> QED
  BY <1>1, <1>2, <1>3, <1>4, LoadBase

LEMMA GetBase ==
    ASSUME Base, NEW r \in Readers, Get(r)
    PROVE  Base'
<1>1. r \in Processes /\ r # "worker"
  BY SetupsAssumption DEF Processes
<1> QED
  BY <1>1, StartLoadBase DEF Get

\* Who loads is not idle.
LEMMA LoaderKnows ==
    ASSUME Base, NEW p \in Processes, load[p].at # "idle"
    PROVE  p = "worker" => lastCommitId # Undefined
  BY DEF Base, TypesInv, Idle

LEMMA LoadSnapshotBase ==
    ASSUME Base, NEW p \in Processes, LoadSnapshot(p)
    PROVE  Base'
<1> DEFINE x == [at |-> "log", store |-> Loaded(snapshot).data, last |-> Loaded(snapshot).id]
<1>1. /\ snapshot \in Snapshots \cup {Undefined}
      /\ lastSnapshotCommitId \in Ids \cup {Undefined}
      /\ Reached(lastSnapshotCommitId, log, doomed)
      /\ cacheLoading \in Processes \cup {Undefined}
      /\ snapshot # Undefined => Reached(snapshot.id, log, doomed)
  BY DEF Base, TypesInv, TypeOK, KnownInv
<1>2. UNCHANGED <<setup, sessions, phase, log, snapshot, head, writer, writing, cache,
                  cacheLoading, pendingOps, lastCommitId, saving, doomed, written, acked>>
  BY DEF LoadSnapshot, disk, history
<1>3. /\ Loaded(snapshot).data \in Stores /\ Loaded(snapshot).id \in Ids \cup {Undefined}
      /\ snapshot # Undefined => Loaded(snapshot).id = snapshot.id /\ snapshot.id \in Ids
      /\ snapshot = Undefined => Loaded(snapshot).id = Undefined
  BY <1>1, LoadedType DEF Starts
<1>4. x \in LoadStates /\ load' = [load EXCEPT ![p] = x] /\ x.last = Loaded(snapshot).id
  BY <1>3, MadeLoads DEF LoadSnapshot
<1>5. Reached(x.last, log, doomed)
  BY <1>1, <1>3, <1>4 DEF Reached
<1>6. lastSnapshotCommitId' \in Ids \cup {Undefined} /\ Reached(lastSnapshotCommitId', log, doomed)
  BY <1>1, <1>3 DEF LoadSnapshot
<1>7. p = "worker" => lastCommitId # Undefined
  BY LoaderKnows DEF LoadSnapshot
<1> HIDE DEF x
<1> QED
  BY <1>1, <1>2, <1>4, <1>5, <1>6, <1>7, LoadBase

\* What the log says after an id: nothing, or a last line.
LEMMA LastRead ==
    ASSUME Base, NEW x \in Ids \cup {Undefined}, Reached(x, log, doomed)
    PROVE  LET last == LastOf(Lines(x, DOMAIN log), x) IN
           /\ last \in Ids \cup {Undefined}
           /\ Reached(last, log, doomed)
           /\ last = x \/ (last \in Ids /\ After(last, x))
<1> DEFINE ids == {l \in LinesOf(log) : After(l, x)}
           last == LastOf(ids, x)
<1>1. Files(log) /\ Front(doomed, log)
  BY DEF Base
<1>2. Lines(x, DOMAIN log) = ids
  BY <1>1, ModelLines
<1>3. CASE ids = {}
  <2>1. last = x
    BY <1>3 DEF LastOf
  <2> QED
    BY <1>2, <2>1
<1>4. CASE ids # {}
  <2>1. ids \in SUBSET LinesOf(log)
    OBVIOUS
  <2>2. last \in ids
    <3> HIDE DEF ids
    <3> QED
      BY <1>1, <1>4, <2>1, LastOfIs
  <2>3. last \in LinesOf(log) /\ After(last, x)
    BY <2>2
  <2> HIDE DEF last
  <2>4. /\ last \in Ids /\ last.segment \in DOMAIN log
        /\ last.offset < Len(log[last.segment])
    BY <1>1, <2>3, LinesAreIds
  <2>5. Reached(last, log, doomed)
    <3>1. CASE last.segment \in doomed
      <4>1. PICK s \in DOMAIN log \ doomed : TRUE
        BY <1>1, <2>4 DEF Front
      <4>2. ~(s <= last.segment) /\ s \in Nat /\ last.segment \in Nat
        BY <1>1, <2>4, <3>1, <4>1 DEF Front, Files
      <4> QED
        BY <4>1, <4>2 DEF Reached
    <3>2. CASE last.segment \notin doomed
      BY <2>4, <3>2 DEF Reached
    <3> QED
      BY <3>1, <3>2
  <2> QED
    BY <1>2, <2>3, <2>4, <2>5 DEF last
<1> QED
  BY <1>3, <1>4

LEMMA ReadLogBase ==
    ASSUME Base, NEW p \in Processes, ReadLog(p)
    PROVE  Base'
<1> DEFINE ids == Lines(load[p].last, DOMAIN log)
           store == Replay(load[p].store, ids)
           last == LastOf(ids, load[p].last)
           x == [at |-> "lines", store |-> store, last |-> last]
<1>1. /\ lastSnapshotCommitId \in Ids \cup {Undefined}
      /\ Reached(lastSnapshotCommitId, log, doomed)
      /\ cacheLoading \in Processes \cup {Undefined}
      /\ Files(log)
  BY DEF Base, TypesInv, TypeOK, KnownInv
<1>2. UNCHANGED <<setup, sessions, phase, log, snapshot, head, writer, writing, cache,
                  cacheLoading, pendingOps, lastCommitId, lastSnapshotCommitId, saving, doomed,
                  written, acked>>
  BY DEF ReadLog, disk, history
<1>3. /\ load[p].store \in Stores /\ load[p].last \in Ids \cup {Undefined}
      /\ Reached(load[p].last, log, doomed)
  BY LoadShape DEF ReadLog, Base, TypesInv, KnownInv
<1>4. last \in Ids \cup {Undefined} /\ Reached(last, log, doomed)
  BY <1>3, LastRead
<1>5. store \in Stores
  <2>1. ids \in SUBSET LinesOf(log)
    BY <1>1, ModelLines
  <2> HIDE DEF ids
  <2> QED
    BY <1>1, <1>3, <2>1, ReplayIs
<1>6. load' = [load EXCEPT ![p] = x]
  BY DEF ReadLog
<1> HIDE DEF store, last
<1>7. x \in LoadStates /\ x.last = last
  BY <1>4, <1>5, MadeLoads
<1>8. p = "worker" => lastCommitId # Undefined
  BY LoaderKnows DEF ReadLog
<1> HIDE DEF x
<1> QED
  BY <1>1, <1>2, <1>4, <1>6, <1>7, <1>8, LoadBase

LEMMA ApplyLinesBase ==
    ASSUME Base, NEW p \in Processes, ApplyLines(p)
    PROVE  Base'
<1> DEFINE x == [at |-> "finish", store |-> load[p].store, last |-> load[p].last]
<1>1. /\ lastSnapshotCommitId \in Ids \cup {Undefined}
      /\ Reached(lastSnapshotCommitId, log, doomed)
      /\ cacheLoading \in Processes \cup {Undefined}
  BY DEF Base, TypesInv, TypeOK, KnownInv
<1>2. UNCHANGED <<setup, sessions, phase, log, snapshot, head, writer, writing, cache,
                  cacheLoading, pendingOps, lastSnapshotCommitId, saving, doomed, written, acked>>
  BY DEF ApplyLines, disk, history
<1>3. /\ load[p].store \in Stores /\ load[p].last \in Ids \cup {Undefined}
      /\ Reached(load[p].last, log, doomed)
  BY LoadShape DEF ApplyLines, Base, TypesInv, KnownInv
<1>4. /\ x \in LoadStates /\ x.last = load[p].last
      /\ load' = [load EXCEPT ![p] = x]
  BY <1>3, MadeLoads DEF ApplyLines
<1>5. \/ lastCommitId' = lastCommitId
      \/ lastCommitId' \in Ids /\ Reached(lastCommitId', log, doomed)
  BY <1>3 DEF ApplyLines
<1>6. p = "worker" => lastCommitId # Undefined
  BY LoaderKnows DEF ApplyLines
<1> HIDE DEF x
<1> QED
  BY <1>1, <1>2, <1>3, <1>4, <1>5, <1>6, LoadBase

LEMMA FinishLoadBase ==
    ASSUME Base, NEW p \in Processes, FinishLoad(p)
    PROVE  Base'
<1> DEFINE pending == IF pendingOps = Undefined THEN <<>> ELSE pendingOps
           store == ApplyAll(load[p].store, pending)
           done == {q \in Processes : q = p \/ load[q] = [at |-> "join", of |-> p]}
<1>1. /\ cache' = store
      /\ load' = [q \in Processes |-> IF q \in done THEN Idle ELSE load[q]]
      /\ lastCommitId' = lastCommitId
      /\ saving' = IF "worker" \in done
                   THEN [id |-> lastCommitId', data |-> store] ELSE saving
      /\ pendingOps' = Undefined /\ cacheLoading' = Undefined
  BY DEF FinishLoad
<1>2. UNCHANGED <<setup, sessions, phase, log, snapshot, head, writer, writing,
                  lastSnapshotCommitId, doomed, written, acked>>
  BY DEF FinishLoad, disk, history
<1>3. /\ load[p].store \in Stores /\ load[p].last \in Ids \cup {Undefined}
      /\ Reached(load[p].last, log, doomed)
      /\ load[p].at = "finish"
  BY LoadShape DEF FinishLoad, Base, TypesInv, KnownInv
<1>4. store \in Stores
  <2>1. pending \in Seq(Commits)
    BY DEF Base, TypesInv, TypeOK
  <2> HIDE DEF pending
  <2> QED
    BY <1>3, <2>1, ApplyAllIs
<1> HIDE DEF store
<1>5. /\ lastCommitId \in Ids \cup {Undefined} /\ Reached(lastCommitId, log, doomed)
      /\ load \in [Processes -> LoadStates]
      /\ saving # Undefined => Reached(saving.id, log, doomed)
      /\ load["worker"] # Idle => lastCommitId # Undefined
      /\ saving \in Snapshots \cup {Undefined}
  BY DEF Base, TypesInv, TypeOK, KnownInv
<1>6. lastCommitId' \in Ids \cup {Undefined} /\ Reached(lastCommitId', log, doomed)
  BY <1>1, <1>3, <1>5
<1>7. "worker" \in done => lastCommitId' \in Ids /\ lastCommitId' # Undefined
  <2>1. ASSUME "worker" \in done
        PROVE  load["worker"] # Idle
    <3>1. load["worker"].at \in {"finish", "join"}
      BY <1>3, <2>1
    <3> QED
      BY <3>1 DEF Idle
  <2>2. "worker" \in done => lastCommitId # Undefined
    BY <1>5, <2>1
  <2> QED
    BY <1>1, <1>6, <2>2
<1>8. load' \in [Processes -> LoadStates]
  <2> HIDE DEF done
  <2> QED
    BY <1>1, <1>5, MadeLoads
<1>9. \A q \in Processes : load'[q] = Idle \/ load'[q] = load[q]
  BY <1>1
<1>10. /\ saving' \in Snapshots \cup {Undefined}
       /\ saving' # Undefined => Reached(saving'.id, log, doomed)
  <2>1. CASE "worker" \in done
    <3>1. saving' = [id |-> lastCommitId', data |-> store]
      BY <1>1, <2>1
    <3> QED
      BY <1>4, <1>6, <1>7, <2>1, <3>1 DEF Snapshots
  <2>2. CASE "worker" \notin done
    BY <1>1, <1>5, <2>2
  <2> QED
    BY <2>1, <2>2
<1>11. TypesInv'
  <2>1. TypeOK'
    BY <1>1, <1>2, <1>4, <1>6, <1>8, <1>10 DEF Base, TypesInv, TypeOK
  <2>2. load'["worker"] # Idle => lastCommitId' # Undefined
    <3>1. load'["worker"] # Idle => load["worker"] # Idle
      BY <1>9 DEF Processes
    <3> QED
      BY <1>1, <1>5, <3>1
  <2> QED
    BY <1>8, <2>1, <2>2 DEF TypesInv
<1>12. KnownInv'
  <2>1. \A q \in Processes : load'[q].at \in {"log", "lines", "finish"} => Reached(load'[q].last, log, doomed)
    <3> TAKE q \in Processes
    <3>1. CASE load'[q] = Idle
      BY <3>1 DEF Idle
    <3>2. CASE load'[q] = load[q]
      BY <3>2 DEF Base, KnownInv
    <3> QED
      BY <1>9, <3>1, <3>2
  <2> QED
    BY <1>2, <1>6, <1>10, <2>1 DEF Base, KnownInv
<1>13. WriterInv' /\ HistoryInv'
  BY <1>2 DEF Base, WriterInv, HistoryInv
<1> QED
  BY <1>2, <1>11, <1>12, <1>13 DEF Base

LEMMA RunSnapshotBase ==
    ASSUME Base, RunSnapshot
    PROVE  Base'
<1>1. lastCommitId # Undefined /\ lastCommitId \in Ids \cup {Undefined}
      /\ cache \in Stores \cup {Undefined}
  BY DEF RunSnapshot, Base, TypesInv, TypeOK
<1>2. CASE StartLoad("worker")
  <2>1. "worker" \in Processes
    BY DEF Processes
  <2> QED
    BY <1>1, <1>2, <2>1, StartLoadBase
<1>3. CASE /\ cache # Undefined
           /\ saving' = [id |-> lastCommitId, data |-> cache]
           /\ UNCHANGED <<setup, sessions, phase, disk, writer, writing, cache, cacheLoading,
                         pendingOps, lastCommitId, lastSnapshotCommitId, load, doomed,
                         history>>
  <2>1. UNCHANGED <<setup, sessions, phase, log, snapshot, head, writer, writing, cache,
                    cacheLoading, pendingOps, lastCommitId, lastSnapshotCommitId, load, doomed,
                    written, acked>>
    BY <1>3 DEF disk, history
  <2>2. saving' \in Snapshots /\ saving'.id = lastCommitId
    BY <1>1, <1>3 DEF Snapshots
  <2>3. TypesInv'
    BY <2>1, <2>2 DEF Base, TypesInv, TypeOK
  <2>4. KnownInv'
    BY <2>1, <2>2 DEF Base, KnownInv
  <2>5. WriterInv' /\ HistoryInv'
    BY <2>1 DEF Base, WriterInv, HistoryInv
  <2> QED
    BY <2>1, <2>3, <2>4, <2>5 DEF Base
<1> QED
  BY <1>2, <1>3 DEF RunSnapshot

LEMMA SaveSnapshotBase ==
    ASSUME Base, SaveSnapshot
    PROVE  Base'
<1>1. /\ saving # Undefined /\ snapshot' = saving /\ lastSnapshotCommitId' = lastCommitId
      /\ saving' = Undefined
      /\ UNCHANGED <<setup, sessions, log, head, writer, writing, cache, cacheLoading,
                     pendingOps, lastCommitId, load, doomed, written, acked>>
  BY DEF SaveSnapshot, history
<1>2. /\ phase' \in {"down", "open", "closing", "cleaning", "ending"}
      /\ phase = "open" => phase' = "open"
  BY DEF SaveSnapshot, AfterSnapshot, Base, TypesInv, TypeOK
<1>3. TypesInv'
  BY <1>1, <1>2 DEF Base, TypesInv, TypeOK
<1>4. KnownInv'
  BY <1>1 DEF Base, KnownInv
<1>5. WriterInv' /\ HistoryInv'
  BY <1>1, <1>2 DEF Base, WriterInv, HistoryInv
<1> QED
  BY <1>1, <1>3, <1>4, <1>5 DEF Base

LEMMA SaveFailsBase ==
    ASSUME Base, SaveFails
    PROVE  Base'
<1>1. /\ saving' = Undefined
      /\ UNCHANGED <<setup, sessions, log, snapshot, head, writer, writing, cache, cacheLoading,
                     pendingOps, lastCommitId, lastSnapshotCommitId, load, doomed, written, acked>>
  BY DEF SaveFails, disk, history
<1>2. /\ phase' \in {"down", "open", "closing", "cleaning", "ending"}
      /\ phase = "open" => phase' = "open"
  BY DEF SaveFails, AfterSnapshot, Base, TypesInv, TypeOK
<1>3. TypesInv'
  BY <1>1, <1>2 DEF Base, TypesInv, TypeOK
<1>4. KnownInv'
  BY <1>1 DEF Base, KnownInv
<1>5. WriterInv' /\ HistoryInv'
  BY <1>1, <1>2 DEF Base, WriterInv, HistoryInv
<1> QED
  BY <1>1, <1>3, <1>4, <1>5 DEF Base

\* What a cleaning sets out from.
LEMMA RunCleanIs ==
    ASSUME Base, RunClean
    PROVE  /\ lastSnapshotCommitId \in Ids /\ doomed = {} /\ Removable # {}
           /\ Files(log) /\ head \in Snapshots \cup {Undefined}
           /\ doomed' = {s \in DOMAIN log : s < lastSnapshotCommitId.segment}
           /\ head' \in Snapshots /\ head' = BuildHeadSnapshot
           /\ head'.id \in LinesOf(log) \/ (head # Undefined /\ head'.id = head.id)
           /\ \A d \in doomed' : \A l \in LinesOf(log) : l.segment = d => ~After(l, head'.id)
           /\ Good(Loaded(head), log, written) => Good(head', log, written)
           /\ UNCHANGED <<setup, sessions, log, snapshot, writer, writing, cache, cacheLoading,
                          pendingOps, lastCommitId, lastSnapshotCommitId, load, saving, written,
                          acked>>
<1>1. /\ doomed = {} /\ Removable # {} /\ doomed' = Removable /\ head' = BuildHeadSnapshot
      /\ UNCHANGED <<setup, sessions, log, snapshot, writer, writing, cache, cacheLoading,
                     pendingOps, lastCommitId, lastSnapshotCommitId, load, saving, written, acked>>
  BY DEF RunClean, history
<1>2. lastSnapshotCommitId \in Ids
  BY <1>1 DEF Removable, Base, TypesInv, TypeOK
<1>3. /\ Files(log) /\ head \in Snapshots \cup {Undefined} /\ written \in Stores
      /\ Tells(log, written)
  BY DEF Base, TypesInv, TypeOK
<1>4. /\ Removable = {s \in DOMAIN log : s < lastSnapshotCommitId.segment}
      /\ BuildHeadSnapshot \in Snapshots
      /\ BuildHeadSnapshot.id \in LinesOf(log)
                \/ (head # Undefined /\ BuildHeadSnapshot.id = head.id)
      /\ \A l \in LinesOf(log) : l.segment \in Removable => ~After(l, BuildHeadSnapshot.id)
      /\ Good(Loaded(head), log, written) => Good(BuildHeadSnapshot, log, written)
  BY <1>1, <1>2, <1>3, HeadIs
<1> QED
  BY <1>1, <1>2, <1>3, <1>4

LEMMA RunCleanBase ==
    ASSUME Base, RunClean
    PROVE  Base'
<1>1. /\ lastSnapshotCommitId \in Ids /\ doomed = {}
      /\ Files(log) /\ head \in Snapshots \cup {Undefined}
      /\ doomed' = {s \in DOMAIN log : s < lastSnapshotCommitId.segment}
      /\ head' \in Snapshots
      /\ head'.id \in LinesOf(log) \/ (head # Undefined /\ head'.id = head.id)
      /\ UNCHANGED <<setup, sessions, log, snapshot, writer, writing, cache, cacheLoading,
                     pendingOps, lastCommitId, lastSnapshotCommitId, load, saving, written, acked>>
  BY RunCleanIs
<1>2. /\ phase' \in {"down", "open", "closing", "cleaning", "ending"}
      /\ phase = "open" => phase' = "open"
  BY DEF RunClean, Base, TypesInv, TypeOK
<1>3. TypesInv'
  BY <1>1, <1>2 DEF Base, TypesInv, TypeOK
<1>4. ASSUME NEW x \in Ids \cup {Undefined}, Reached(x, log, {})
      PROVE  Reached(x, log, doomed')
  <2>1. Reached(lastSnapshotCommitId, log, {})
    BY <1>1 DEF Base, KnownInv
  <2> QED
    BY <1>1, <1>4, <2>1, ReachedBelow
<1>5. Front(doomed', log')
  <2>1. lastSnapshotCommitId # Undefined /\ lastSnapshotCommitId.segment \in Nat
    BY <1>1, UndefinedAssumption DEF Ids
  <2>2. \A s \in DOMAIN log : s \in Nat
    BY <1>1 DEF Files
  <2>3. Reached(lastSnapshotCommitId, log, doomed')
    BY <1>1, <1>4 DEF Base, KnownInv
  <2>4. DOMAIN log \ doomed' # {}
    BY <2>1, <2>3 DEF Reached
  <2>5. \A s \in doomed', t \in DOMAIN log : t <= s => t \in doomed'
    BY <1>1, <2>1, <2>2
  <2> QED
    BY <1>1, <2>4, <2>5 DEF Front
<1>6. KnownInv'
  <2>1. Reached(head'.id, log, doomed')
    <3>1. Reached(head'.id, log, {}) /\ head'.id \in Ids
      BY <1>1, ReachedLine DEF Base, KnownInv, Snapshots
    <3> QED
      BY <1>4, <3>1
  <2>2. /\ snapshot # Undefined => snapshot.id \in Ids
        /\ saving # Undefined => saving.id \in Ids
        /\ lastCommitId \in Ids \cup {Undefined} /\ lastSnapshotCommitId \in Ids \cup {Undefined}
    BY DEF Base, TypesInv, TypeOK, Snapshots
  <2>3. \A p \in Processes : load[p].at \in {"log", "lines", "finish"} => load[p].last \in Ids \cup {Undefined}
    BY LoadShape DEF Base, TypesInv
  <2> QED
    BY <1>1, <1>4, <2>1, <2>2, <2>3 DEF Base, KnownInv
<1>7. WriterInv' /\ HistoryInv'
  BY <1>1, <1>2 DEF Base, WriterInv, HistoryInv
<1> QED
  BY <1>1, <1>3, <1>5, <1>6, <1>7 DEF Base

\* The segment that goes is the first of the log.
LEMMA DeleteIs ==
    ASSUME Base, DeleteSegment
    PROVE  \E o \in doomed : /\ o \in DOMAIN log /\ \A s \in DOMAIN log : o <= s
                             /\ log' = Without(log, o) /\ doomed' = doomed \ {o}
                             /\ UNCHANGED <<setup, sessions, phase, snapshot, head, writer, writing,
                                   cache, cacheLoading, pendingOps, lastCommitId,
                                   lastSnapshotCommitId, load, saving, written, acked>>
<1> DEFINE oldest == CHOOSE s \in doomed : \A other \in doomed : s <= other
<1>1. /\ Front(doomed, log) /\ Files(log) /\ doomed # {}
      /\ doomed \in SUBSET Nat /\ DOMAIN log \in SUBSET Nat /\ doomed \subseteq DOMAIN log
  BY DEF Base, DeleteSegment, Front, Files
<1>2. oldest \in doomed /\ \A other \in doomed : oldest <= other
  <2>1. \E s \in doomed : \A other \in doomed : s <= other
    BY <1>1, LeastNatural
  <2> QED
    BY <2>1
<1>3. /\ log' = [s \in DOMAIN log \ {oldest} |-> log[s]] /\ doomed' = doomed \ {oldest}
      /\ UNCHANGED <<setup, sessions, phase, snapshot, head, writer, writing,
                     cache, cacheLoading, pendingOps, lastCommitId,
                     lastSnapshotCommitId, load, saving, written, acked>>
  BY DEF DeleteSegment, history
<1> HIDE DEF oldest
<1>4. \A s \in DOMAIN log : oldest <= s
  <2> TAKE s \in DOMAIN log
  <2>1. s \in Nat /\ oldest \in Nat
    BY <1>1, <1>2
  <2>2. s <= oldest => s \in doomed
    BY <1>1, <1>2 DEF Front
  <2> QED
    BY <1>2, <2>1, <2>2
<1> QED
  BY <1>1, <1>2, <1>3, <1>4 DEF Without

LEMMA DeleteSegmentBase ==
    ASSUME Base, DeleteSegment
    PROVE  Base'
<1>1. PICK o \in doomed :
         /\ o \in DOMAIN log /\ \A s \in DOMAIN log : o <= s
         /\ log' = Without(log, o) /\ doomed' = doomed \ {o}
         /\ UNCHANGED <<setup, sessions, phase, snapshot, head, writer, writing,
                        cache, cacheLoading, pendingOps, lastCommitId,
                        lastSnapshotCommitId, load, saving, written, acked>>
  BY DeleteIs
<1>2. Files(log) /\ Front(doomed, log) /\ Tells(log, written)
  BY DEF Base
<1>3. /\ Files(log') /\ LinesOf(log') = {l \in LinesOf(log) : l.segment # o}
      /\ \A l \in LinesOf(log) : l.segment # o => LineOf(log', l) = LineOf(log, l)
  BY <1>1, <1>2, WithoutLines
<1>4. DOMAIN log' = DOMAIN log \ {o} /\ \A s \in DOMAIN log' : log'[s] = log[s]
  BY <1>1 DEF Without
<1>5. doomed' \subseteq DOMAIN log'
  BY <1>1, <1>2, <1>4 DEF Front
<1>6. TypesInv'
  <2>1. TypeOK'
    BY <1>1, <1>4, <1>5 DEF Base, TypesInv, TypeOK
  <2> QED
    BY <1>1, <2>1 DEF Base, TypesInv
<1>7. Front(doomed', log')
  <2>1. \A s \in doomed', t \in DOMAIN log' : t <= s => t \in doomed'
    BY <1>1, <1>2, <1>4 DEF Front
  <2>2. DOMAIN log' \ doomed' # {}
    BY <1>1, <1>2, <1>4 DEF Front
  <2> QED
    BY <1>5, <2>1, <2>2 DEF Front
<1>8. KnownInv'
  <2>1. ASSUME NEW x, Reached(x, log, doomed)
        PROVE  Reached(x, log', doomed')
    BY <1>1, <2>1, ReachedWithout
  <2> QED
    BY <1>1, <2>1 DEF Base, KnownInv
<1>9. writer # Undefined => writer.segment # o
  <2> SUFFICES ASSUME writer # Undefined
               PROVE  writer.segment # o
    OBVIOUS
  <2>1. PICK s \in DOMAIN log \ doomed : TRUE
    BY <1>1, <1>2 DEF Front
  <2>2. s <= writer.segment
    BY DEF Base, WriterInv
  <2> QED
    BY <1>1, <1>2, <2>1, <2>2 DEF Front
<1>10. WriterInv'
  BY <1>1, <1>4, <1>9 DEF Base, WriterInv
<1>11. HistoryInv'
  BY <1>1, <1>3, <1>9 DEF Base, HistoryInv
<1>12. Tells(log', written')
  BY <1>1, <1>2, TellsWithout
<1> QED
  BY <1>3, <1>6, <1>7, <1>8, <1>10, <1>11, <1>12 DEF Base

\* Base is inductive, in every setup.
LEMMA BaseStep ==
    ASSUME Base, [Next]_vars
    PROVE  Base'
<1>1. CASE \E keys \in (SUBSET Keys) \ {{}} : Write(keys)
  <2>1. PICK keys \in (SUBSET Keys) \ {{}} : Write(keys)
    BY <1>1
  <2>2. PICK id, c : Logged(id, c)
    BY <2>1, WriteIs
  <2> QED
    BY <2>2, LoggedBase
<1>2. CASE OnCommit
  BY <1>2, OnCommitBase
<1>3. CASE \E r \in Readers : Get(r)
  BY <1>3, GetBase
<1>4. CASE \E p \in Processes : LoadSnapshot(p) \/ ReadLog(p) \/ ApplyLines(p) \/ FinishLoad(p)
  BY <1>4, LoadSnapshotBase, ReadLogBase, ApplyLinesBase, FinishLoadBase
<1>5. CASE RunSnapshot \/ SaveSnapshot \/ SaveFails
  BY <1>5, RunSnapshotBase, SaveSnapshotBase, SaveFailsBase
<1>6. CASE RunClean \/ DeleteSegment
  BY <1>6, RunCleanBase, DeleteSegmentBase
<1>7. CASE Initialize \/ BeginClose \/ EndClose \/ Crash
  BY <1>7, InitializeBase, BeginCloseBase, EndCloseBase, CrashBase
<1>8. CASE UNCHANGED vars
  <2>1. UNCHANGED <<setup, sessions, phase, log, snapshot, head, writer, writing, cache,
                    cacheLoading, pendingOps, lastCommitId, lastSnapshotCommitId, load, saving,
                    doomed, written, acked>>
    BY <1>8 DEF vars, disk, memory, history
  <2>2. TypesInv'
    BY <2>1 DEF Base, TypesInv, TypeOK
  <2>3. KnownInv' /\ WriterInv' /\ HistoryInv'
    BY <2>1 DEF Base, KnownInv, WriterInv, HistoryInv
  <2> QED
    BY <2>1, <2>2, <2>3 DEF Base
<1> QED
  BY <1>1, <1>2, <1>3, <1>4, <1>5, <1>6, <1>7, <1>8 DEF Next

\* In every setup the driver, the writer, the loads, the snapshots and the cleaner keep to
\* their types: no segment is longer than the maximum, a snapshot that is saved has an id,
\* and the segments to delete are files of the log.
THEOREM TypeCorrect == Spec => []TypeOK
<1>1. Init => Base
  BY InitBase
<1>2. Base /\ [Next]_vars => Base'
  BY BaseStep
<1>3. Base => TypeOK
  BY DEF Base, TypesInv
<1> QED
  BY <1>1, <1>2, <1>3, PTL DEF Spec

-----------------------------------------------------------------------------
(***************************************************************************)
(* In a sound setup nothing is lost.                                       *)
(***************************************************************************)

\* The snapshots, each with the log, know every commit.
SnapshotInv ==
    /\ Good(Loaded(snapshot), log, written)
    /\ Good(Loaded(head), log, written)
    /\ saving # Undefined => Good(saving, log, written)

\* What is under way in which phase.
PhaseInv ==
    /\ saving # Undefined => phase = "closing" \/ (phase = "open" /\ setup.snapshots)
    /\ doomed # {} => phase = "ending" \/ (phase = "open" /\ setup.cleans)
    /\ load["worker"] # Idle =>
          /\ saving = Undefined
          /\ phase = "closing" \/ (phase = "open" /\ setup.snapshots)
    /\ \A r \in Readers : load[r] # Idle => phase = "open" /\ r \in setup.readers
    /\ phase = "closing" /\ saving # Undefined => saving.id = lastCommitId

\* The cleaner goes by the snapshot on disk, and deletes what both snapshots know.
CleanInv ==
    /\ (phase = "cleaning" \/ ~setup.snapshots) /\ lastSnapshotCommitId # Undefined =>
          snapshot # Undefined /\ lastSnapshotCommitId = snapshot.id
    /\ \A d \in doomed :
          /\ snapshot # Undefined /\ d < snapshot.id.segment
          /\ head # Undefined /\ \A l \in LinesOf(log) : l.segment = d => ~After(l, head.id)

Loader(p) == load[p].at \in {"snapshot", "log", "lines", "finish"}

\* A key is assigned by the commit whose line is written, or by a pending one.
Under(k) == writing # Undefined /\ k \in writing.commit.keys
Touched(k) == pendingOps # Undefined /\ \E i \in DOMAIN pendingOps : k \in pendingOps[i].keys

\* One load at a time is under way,
OneLoader ==
    /\ \A p, q \in Processes : Loader(p) /\ Loader(q) => p = q
    /\ \A p \in Processes : Loader(p) =>
          /\ cache = Undefined
          /\ cacheLoading = p \/ (setup.overlap /\ cacheLoading = Undefined /\ pendingOps # Undefined)
          /\ setup.overlap \/ writing = Undefined
    /\ cacheLoading # Undefined => Loader(cacheLoading)
    /\ pendingOps # Undefined => \E p \in Processes : Loader(p)

\* it has read what the snapshot on disk and the log said,
LoadInv ==
    \A p \in Processes :
        /\ load[p].at = "log" =>
              load[p].store = Loaded(snapshot).data /\ load[p].last = Loaded(snapshot).id
        /\ load[p].at \in {"lines", "finish"} =>
              /\ \A k \in Keys : Touched(k) \/ load[p].store[k] = written[k] \/ Under(k)
              /\ snapshot # Undefined =>
                    load[p].last # Undefined /\ ~After(snapshot.id, load[p].last)

\* and the last pending commit of a key is the last one told.
PendingInv ==
    \A k \in Keys : Touched(k) =>
        \E i \in DOMAIN pendingOps :
            /\ k \in pendingOps[i].keys /\ pendingOps[i].number = acked[k]
            /\ \A j \in DOMAIN pendingOps : k \in pendingOps[j].keys => j <= i

\* The cache lacks the commit under way at most.
CacheInv ==
    /\ cache # Undefined => \A k \in Keys : cache[k] = written[k] \/ Under(k)
    /\ saving # Undefined => cache # Undefined

\* The ids in memory are not before those on disk.
OrderInv ==
    /\ snapshot # Undefined =>
          /\ lastCommitId # Undefined => ~After(snapshot.id, lastCommitId)
          /\ saving # Undefined => ~After(snapshot.id, saving.id)
          /\ writing # Undefined => After(writing.id, snapshot.id)
    /\ saving # Undefined => lastCommitId # Undefined /\ ~After(saving.id, lastCommitId)
    /\ writing # Undefined /\ ~setup.overlap => After(writing.id, lastCommitId)

Safe ==
    /\ SnapshotInv /\ PhaseInv /\ CleanInv
    /\ OneLoader /\ LoadInv /\ PendingInv
    /\ CacheInv /\ OrderInv

Inv == Base /\ Sound(setup) /\ Safe

\* A setup, its parts as truth values.
LEMMA SetupIs ==
    ASSUME Inv
    PROVE  /\ setup.overlap \in BOOLEAN /\ setup.snapshots \in BOOLEAN
           /\ setup.overlap => ~setup.snapshots /\ \A p, q \in setup.readers : p = q
           /\ setup.snapshots => ~setup.cleans /\ ~setup.fails
<1>1. setup \in [readers : SUBSET Readers, overlap : BOOLEAN, snapshots : BOOLEAN,
                 cleans : BOOLEAN, fails : BOOLEAN]
  BY SetupsAssumption DEF Inv, Base, TypesInv, TypeOK
<1> QED
  BY <1>1 DEF Inv, Sound

LEMMA FreshSafe ==
    ASSUME Inv, Fresh, UNCHANGED <<setup, disk, written>>
    PROVE  Safe'
<1>1. /\ log' = log /\ snapshot' = snapshot /\ head' = head /\ written' = written
      /\ setup' = setup
  BY DEF disk
<1>2. \A p \in Processes : load'[p] = Idle /\ load'[p].at = "idle"
  BY DEF Fresh, Idle
<1>3. "worker" \in Processes /\ \A r \in Readers : r \in Processes
  BY DEF Processes
<1>4. SnapshotInv'
  BY <1>1 DEF Inv, Safe, SnapshotInv, Fresh
<1>5. PhaseInv' /\ CleanInv'
  BY <1>2, <1>3 DEF PhaseInv, CleanInv, Fresh
<1>6. OneLoader' /\ LoadInv' /\ PendingInv'
  BY <1>2 DEF OneLoader, LoadInv, PendingInv, Loader, Touched, Fresh
<1>7. CacheInv' /\ OrderInv'
  BY DEF CacheInv, OrderInv, Fresh
<1> QED
  BY <1>4, <1>5, <1>6, <1>7 DEF Safe

LEMMA BeginCloseSafe ==
    ASSUME Inv, BeginClose
    PROVE  Safe'
<1>1. UNCHANGED <<setup, sessions, log, snapshot, head, writer, writing, cache, cacheLoading,
                  pendingOps, lastCommitId, lastSnapshotCommitId, load, saving, doomed, written,
                  acked>>
  BY DEF BeginClose, disk, memory, history
<1>2. /\ phase' \in {"ending", "closing"} /\ phase = "open" /\ writing = Undefined
      /\ saving = Undefined /\ doomed = {} /\ \A p \in Processes : load[p] = Idle
  BY DEF BeginClose
<1>3. "worker" \in Processes /\ \A r \in Readers : r \in Processes
  BY DEF Processes
<1>4. SnapshotInv'
  BY <1>1 DEF Inv, Safe, SnapshotInv
<1>5. PhaseInv' /\ CleanInv'
  BY <1>1, <1>2, <1>3 DEF Inv, Safe, PhaseInv, CleanInv
<1>6. OneLoader' /\ LoadInv' /\ PendingInv'
  BY <1>1 DEF Inv, Safe, OneLoader, LoadInv, PendingInv, Loader, Touched, Under
<1>7. CacheInv' /\ OrderInv'
  BY <1>1 DEF Inv, Safe, CacheInv, OrderInv, Under
<1> QED
  BY <1>4, <1>5, <1>6, <1>7 DEF Safe

LEMMA LoggedSafe ==
    ASSUME Inv, NEW id, NEW c, Logged(id, c)
    PROVE  Safe'
<1>1. /\ EndOf(id, log) /\ c \in Commits /\ Files(log) /\ id \in Ids /\ id # Undefined
      /\ log' = With(log, id, c) /\ writing' = [id |-> id, commit |-> c]
      /\ written' = ApplyCommit(written, c) /\ written \in Stores /\ writing = Undefined
      /\ setup.overlap \/ \A p \in Processes : load[p] = Idle
  BY UndefinedAssumption DEF Logged, Inv, Base, TypesInv, TypeOK, EndOf
<1>2. UNCHANGED <<setup, sessions, phase, snapshot, head, cache, cacheLoading, pendingOps,
                  lastCommitId, lastSnapshotCommitId, load, saving, doomed, acked>>
  BY DEF Logged
<1>3. LinesOf(log') = LinesOf(log) \cup {id}
  BY <1>1, WithLines
<1>4. \A k \in Keys : written'[k] = IF k \in c.keys THEN c.number ELSE written[k]
  BY <1>1, ApplyCommitType
<1>5. writing' # Undefined /\ writing'.id = id /\ writing'.commit = c
  BY <1>1, UndefinedAssumption
<1>6. \A k \in Keys : Under(k)' <=> k \in c.keys
  BY <1>5 DEF Under
<1>7. \A k \in Keys : ~Under(k)
  BY <1>1 DEF Under
<1>8. ASSUME NEW x \in Ids \cup {Undefined}, Reached(x, log, doomed)
      PROVE  After(id, x)
  BY <1>1, <1>8, EndIsAfter
<1>9. /\ snapshot \in Snapshots \cup {Undefined} /\ head \in Snapshots \cup {Undefined}
      /\ saving \in Snapshots \cup {Undefined} /\ lastCommitId \in Ids \cup {Undefined}
      /\ KnownInv
  BY DEF Inv, Base, TypesInv, TypeOK
<1>10. /\ After(id, Loaded(snapshot).id) /\ After(id, Loaded(head).id)
       /\ saving # Undefined => After(id, saving.id)
       /\ After(id, lastCommitId)
  <2>1. ASSUME NEW f \in Snapshots \cup {Undefined}, f # Undefined => Reached(f.id, log, doomed)
        PROVE  After(id, Loaded(f).id) /\ (f # Undefined => After(id, f.id))
    <3>1. CASE f = Undefined
      <4>1. Loaded(f).id = Undefined
        BY <3>1, LoadedType
      <4> QED
        BY <3>1, <4>1 DEF After
    <3>2. CASE f # Undefined
      <4>1. Loaded(f) = f /\ f.id \in Ids
        BY <3>2, LoadedType
      <4> QED
        BY <1>8, <2>1, <3>2, <4>1
    <3> QED
      BY <3>1, <3>2
  <2> QED
    BY <1>8, <1>9, <2>1 DEF KnownInv
<1>11. SnapshotInv'
  <2>1. ASSUME NEW x, Good(x, log, written), After(id, x.id)
        PROVE  Good(x, log', written')
    BY <1>1, <2>1, GoodWith
  <2> QED
    BY <1>2, <1>10, <2>1 DEF Inv, Safe, SnapshotInv
<1>12. PhaseInv'
  BY <1>2 DEF Inv, Safe, PhaseInv
<1>13. CleanInv'
  <2>1. id.segment \notin doomed
    <3> SUFFICES ASSUME id.segment \in doomed
                 PROVE  FALSE
      OBVIOUS
    <3>1. Front(doomed, log)
      BY DEF Inv, Base
    <3>2. PICK s \in DOMAIN log \ doomed : TRUE
      BY <3>1 DEF Front
    <3>3. s <= id.segment
      BY <1>1, <3>2 DEF EndOf
    <3> QED
      BY <3>1, <3>2, <3>3 DEF Front
  <2> QED
    BY <1>2, <1>3, <2>1 DEF Inv, Safe, CleanInv
<1>14. OneLoader'
  <2>1. \A p \in Processes : Loader(p) => setup.overlap
    BY <1>1 DEF Loader, Idle
  <2> QED
    BY <1>2, <2>1 DEF Inv, Safe, OneLoader, Loader
<1>15. LoadInv'
  <2>1. \A k \in Keys : Touched(k)' <=> Touched(k)
    BY <1>2 DEF Touched
  <2> QED
    BY <1>2, <1>4, <1>6, <1>7, <2>1 DEF Inv, Safe, LoadInv
<1>16. PendingInv'
  BY <1>2 DEF Inv, Safe, PendingInv, Touched
<1>17. CacheInv'
  BY <1>2, <1>4, <1>6, <1>7 DEF Inv, Safe, CacheInv
<1>18. OrderInv'
  <2>1. snapshot # Undefined => After(id, snapshot.id)
    BY <1>9, <1>10, LoadedType
  <2> QED
    BY <1>2, <1>5, <1>10, <2>1 DEF Inv, Safe, OrderInv
<1> QED
  BY <1>11, <1>12, <1>13, <1>14, <1>15, <1>16, <1>17, <1>18 DEF Safe

\* A commit that is told while a load is under way becomes pending.
LEMMA OnCommitPending ==
    ASSUME Inv, OnCommit
    PROVE  /\ (\E p \in Processes : Loader(p)) =>
                  /\ pendingOps' # Undefined
                  /\ \A k \in Keys : Touched(k) \/ Under(k) => Touched(k)'
           /\ PendingInv'
<1> DEFINE c == writing.commit
           before == IF pendingOps = Undefined THEN <<>> ELSE pendingOps
           n == Len(before)
<1>1. /\ writing # Undefined /\ c \in Commits /\ acked \in Stores
      /\ acked' = ApplyCommit(acked, c)
      /\ pendingOps \in Seq(Commits) \cup {Undefined}
  BY DEF Inv, Base, TypesInv, TypeOK, OnCommit
<1>2. \A k \in Keys : acked'[k] = IF k \in c.keys THEN c.number ELSE acked[k]
  BY <1>1, ApplyCommitType
<1>3. /\ before \in Seq(Commits) /\ n \in Nat /\ DOMAIN before = 1 .. n
      /\ \A i \in DOMAIN before : pendingOps # Undefined /\ before = pendingOps
      /\ pendingOps # Undefined => before = pendingOps
  <2>1. before \in Seq(Commits)
    BY <1>1
  <2>2. pendingOps = Undefined => DOMAIN before = {}
    OBVIOUS
  <2> QED
    BY <2>1, <2>2
<1>4. \A k \in Keys : Under(k) <=> k \in c.keys
  BY <1>1 DEF Under
<1>5. \A k \in Keys : Touched(k) <=> \E i \in DOMAIN before : k \in before[i].keys
  BY <1>3 DEF Touched
<1>6. CASE cache = Undefined /\ (cacheLoading # Undefined \/ pendingOps # Undefined)
  <2>1. pendingOps' = Append(before, c)
    BY <1>6 DEF OnCommit
  <2> HIDE DEF before, c
  <2>2. /\ pendingOps' \in Seq(Commits) /\ Len(pendingOps') = n + 1
        /\ DOMAIN pendingOps' = 1 .. (n + 1)
        /\ pendingOps'[n + 1] = c
        /\ \A i \in 1 .. n : pendingOps'[i] = before[i]
    BY <1>1, <1>3, <2>1, AppendProperties
  <2>3. pendingOps' # Undefined
    BY <2>2, UndefinedAssumption
  <2> HIDE DEF n
  <2>4. \A k \in Keys : Touched(k)' <=> (Touched(k) \/ k \in c.keys)
    <3> TAKE k \in Keys
    <3>1. ASSUME Touched(k) \/ k \in c.keys
          PROVE  \E i \in DOMAIN pendingOps' : k \in pendingOps'[i].keys
      <4>1. CASE k \in c.keys
        BY <1>3, <2>2, <4>1
      <4>2. CASE Touched(k)
        <5>1. PICK i \in 1 .. n : k \in before[i].keys
          BY <1>3, <1>5, <4>2
        <5>2. i \in 1 .. (n + 1) /\ pendingOps'[i] = before[i]
          BY <1>3, <2>2
        <5> QED
          BY <2>2, <5>1, <5>2
      <4> QED
        BY <3>1, <4>1, <4>2
    <3>2. ASSUME NEW i \in DOMAIN pendingOps', k \in pendingOps'[i].keys, k \notin c.keys
          PROVE  Touched(k)
      <4>1. i \in 1 .. n
        BY <1>3, <2>2, <3>2
      <4> QED
        BY <1>3, <1>5, <2>2, <3>2, <4>1
    <3> QED
      BY <2>3, <3>1, <3>2 DEF Touched
  <2>5. ASSUME NEW k \in Keys, Touched(k)'
        PROVE  \E i \in DOMAIN pendingOps' :
                  /\ k \in pendingOps'[i].keys /\ pendingOps'[i].number = acked'[k]
                  /\ \A j \in DOMAIN pendingOps' : k \in pendingOps'[j].keys => j <= i
    <3>1. CASE k \in c.keys
      <4>1. \A j \in DOMAIN pendingOps' : j <= n + 1
        BY <1>3, <2>2
      <4>2. n + 1 \in DOMAIN pendingOps'
        BY <1>3, <2>2
      <4> QED
        BY <1>2, <2>2, <3>1, <4>1, <4>2
    <3>2. CASE k \notin c.keys
      <4>1. Touched(k)
        BY <2>4, <2>5, <3>2
      <4>2. pendingOps # Undefined /\ before = pendingOps
        BY <1>3, <4>1 DEF Touched
      <4>3. PICK i \in DOMAIN before :
                /\ k \in before[i].keys /\ before[i].number = acked[k]
                /\ \A j \in DOMAIN before : k \in before[j].keys => j <= i
        BY <4>1, <4>2 DEF Inv, Safe, PendingInv
      <4>4. i \in DOMAIN pendingOps' /\ pendingOps'[i] = before[i]
        BY <1>3, <2>2
      <4>5. \A j \in DOMAIN pendingOps' : k \in pendingOps'[j].keys => j \in DOMAIN before
        BY <1>3, <2>2, <3>2
      <4>6. \A j \in DOMAIN pendingOps' : k \in pendingOps'[j].keys => j <= i
        BY <1>3, <2>2, <4>3, <4>5
      <4>7. acked'[k] = acked[k]
        BY <1>2, <3>2
      <4> QED
        BY <4>3, <4>4, <4>6, <4>7
    <3> QED
      BY <3>1, <3>2
  <2>6. PendingInv'
    BY <2>5 DEF PendingInv
  <2> QED
    BY <1>4, <2>3, <2>4, <2>6
<1>7. CASE ~(cache = Undefined /\ (cacheLoading # Undefined \/ pendingOps # Undefined))
  <2>1. pendingOps' = pendingOps
    BY <1>7 DEF OnCommit
  <2>2. ~\E p \in Processes : Loader(p)
    <3> SUFFICES ASSUME NEW p \in Processes, Loader(p)
                 PROVE  FALSE
      OBVIOUS
    <3>1. cache = Undefined /\ (cacheLoading = p \/ pendingOps # Undefined)
      BY DEF Inv, Safe, OneLoader
    <3>2. p # Undefined
      BY UndefinedAssumption
    <3> QED
      BY <1>7, <3>1, <3>2
  <2>3. pendingOps' = Undefined
    BY <2>1, <2>2 DEF Inv, Safe, OneLoader
  <2>4. PendingInv'
    BY <2>3 DEF PendingInv, Touched
  <2> QED
    BY <2>2, <2>4
<1> QED
  BY <1>6, <1>7

LEMMA OnCommitSafe ==
    ASSUME Inv, OnCommit
    PROVE  Safe'
<1>1. /\ writing # Undefined /\ writing.id = writer /\ writing.commit \in Commits
      /\ writing.id \in Ids /\ writing.id # Undefined
      /\ written = ApplyCommit(acked, writing.commit)
      /\ acked \in Stores /\ phase = "open" /\ cache \in Stores \cup {Undefined}
  BY UndefinedAssumption DEF Inv, Base, TypesInv, TypeOK, HistoryInv, OnCommit
<1>2. UNCHANGED <<setup, sessions, phase, log, snapshot, head, lastSnapshotCommitId, load,
                  saving, doomed, written>>
  BY DEF OnCommit, disk
<1>3. /\ lastCommitId' = writing.id /\ writing' = Undefined /\ cacheLoading' = Undefined
      /\ cache' = IF cache = Undefined THEN Undefined ELSE ApplyCommit(cache, writing.commit)
      /\ pendingOps' # pendingOps => cacheLoading # Undefined \/ pendingOps # Undefined
  BY DEF OnCommit
<1>4. /\ (\E p \in Processes : Loader(p)) =>
                  /\ pendingOps' # Undefined
                  /\ \A k \in Keys : Touched(k) \/ Under(k) => Touched(k)'
      /\ PendingInv'
  BY OnCommitPending
<1>5. SnapshotInv' /\ CleanInv'
  BY <1>2 DEF Inv, Safe, SnapshotInv, CleanInv
<1>6. PhaseInv'
  BY <1>1, <1>2 DEF Inv, Safe, PhaseInv
<1>7. OneLoader'
  <2>1. \A p \in Processes : Loader(p)' <=> Loader(p)
    BY <1>2 DEF Loader
  <2>2. \A p \in Processes : Loader(p) => cache = Undefined /\ setup.overlap
    BY <1>1 DEF Inv, Safe, OneLoader
  <2>3. pendingOps' # Undefined => \E p \in Processes : Loader(p)
    <3> SUFFICES ASSUME pendingOps' # Undefined
                 PROVE  \E p \in Processes : Loader(p)
      OBVIOUS
    <3>1. cacheLoading # Undefined \/ pendingOps # Undefined
      BY <1>3
    <3>2. cacheLoading \in Processes \cup {Undefined}
      BY DEF Inv, Base, TypesInv, TypeOK
    <3> QED
      BY <3>1, <3>2 DEF Inv, Safe, OneLoader
  <2> QED
    BY <1>2, <1>3, <1>4, <2>1, <2>2, <2>3 DEF Inv, Safe, OneLoader
<1>8. LoadInv'
  <2>1. \A p \in Processes : load[p].at \in {"lines", "finish"} => Loader(p)
    BY DEF Loader
  <2> QED
    BY <1>2, <1>4, <2>1 DEF Inv, Safe, LoadInv
<1>9. CacheInv'
  <2>1. ASSUME cache # Undefined, NEW k \in Keys
        PROVE  cache'[k] = written[k]
    <3>1. cache'[k] = IF k \in writing.commit.keys THEN writing.commit.number ELSE cache[k]
      BY <1>1, <1>3, <2>1, ApplyCommitType
    <3>2. written[k] = IF k \in writing.commit.keys THEN writing.commit.number ELSE acked[k]
      BY <1>1, ApplyCommitType
    <3>3. k \notin writing.commit.keys => cache[k] = written[k]
      BY <2>1 DEF Inv, Safe, CacheInv, Under
    <3> QED
      BY <3>1, <3>2, <3>3
  <2>2. cache # Undefined => cache' # Undefined
    BY <1>1, <1>3, ApplyCommitType, UndefinedAssumption
  <2>3. cache' # Undefined => cache # Undefined
    BY <1>3
  <2> QED
    BY <1>2, <2>1, <2>2, <2>3 DEF Inv, Safe, CacheInv
<1>10. OrderInv'
  <2>1. snapshot # Undefined => ~After(snapshot.id, writing.id)
    <3>1. snapshot # Undefined => snapshot.id \in Ids /\ After(writing.id, snapshot.id)
      BY <1>1 DEF Inv, Base, TypesInv, TypeOK, Snapshots, Safe, OrderInv
    <3> QED
      BY <1>1, <3>1, AfterOrder
  <2>2. saving # Undefined => ~After(saving.id, writing.id)
    <3> SUFFICES ASSUME saving # Undefined
                 PROVE  ~After(saving.id, writing.id)
      OBVIOUS
    <3>1. setup.snapshots
      BY <1>1 DEF Inv, Safe, PhaseInv
    <3>2. ~setup.overlap
      BY <3>1, SetupIs
    <3>3. After(writing.id, lastCommitId) /\ ~After(saving.id, lastCommitId)
      BY <1>1, <3>2 DEF Inv, Safe, OrderInv
    <3>4. saving.id \in Ids /\ lastCommitId \in Ids \cup {Undefined}
      BY DEF Inv, Base, TypesInv, TypeOK, Snapshots
    <3> QED
      BY <1>1, <3>3, <3>4, AfterMixed
  <2> QED
    BY <1>1, <1>2, <1>3, <2>1, <2>2 DEF Inv, Safe, OrderInv
<1> QED
  BY <1>4, <1>5, <1>6, <1>7, <1>8, <1>9, <1>10 DEF Safe

LEMMA StartLoadSafe ==
    ASSUME Inv, NEW p \in Processes, StartLoad(p),
           p = "worker" =>
              saving = Undefined /\ (phase = "closing" \/ (phase = "open" /\ setup.snapshots)),
           p \in Readers => phase = "open" /\ p \in setup.readers
    PROVE  Safe'
<1>1. /\ UNCHANGED <<setup, sessions, phase, log, snapshot, head, writer, writing, cache,
                     pendingOps, lastCommitId, lastSnapshotCommitId, saving, doomed, written,
                     acked>>
      /\ load[p] = Idle /\ cache = Undefined
      /\ setup.overlap \/ writing = Undefined
  BY DEF StartLoad, disk, history
<1>2. load \in [Processes -> LoadStates] /\ cacheLoading \in Processes \cup {Undefined}
  BY DEF Inv, Base, TypesInv, TypeOK
<1>3. \A q \in Processes : q # p => load'[q] = load[q]
  BY <1>2 DEF StartLoad
<1>4. \/ cacheLoading # Undefined /\ load'[p].at = "join" /\ cacheLoading' = cacheLoading
      \/ cacheLoading = Undefined /\ load'[p].at = "snapshot" /\ cacheLoading' = p
  BY <1>2 DEF StartLoad
<1>5. SnapshotInv' /\ CleanInv'
  BY <1>1 DEF Inv, Safe, SnapshotInv, CleanInv
<1>6. PhaseInv'
  <2>1. "worker" \in Processes /\ \A r \in Readers : r \in Processes
    BY DEF Processes
  <2>2. load'["worker"] # Idle =>
          /\ saving = Undefined
          /\ phase = "closing" \/ (phase = "open" /\ setup.snapshots)
    BY <1>3, <2>1 DEF Inv, Safe, PhaseInv
  <2>3. \A r \in Readers : load'[r] # Idle => phase = "open" /\ r \in setup.readers
    BY <1>3, <2>1 DEF Inv, Safe, PhaseInv
  <2> QED
    BY <1>1, <2>2, <2>3 DEF Inv, Safe, PhaseInv
<1>7. ~Loader(p)
  BY <1>1 DEF Loader, Idle
<1>8. ASSUME cacheLoading # Undefined
      PROVE  OneLoader'
  <2>1. \A q \in Processes : Loader(q)' <=> Loader(q)
    <3> TAKE q \in Processes
    <3>1. CASE q = p
      BY <1>4, <1>7, <1>8, <3>1 DEF Loader
    <3>2. CASE q # p
      BY <1>3, <3>2 DEF Loader
    <3> QED
      BY <3>1, <3>2
  <2> QED
    BY <1>1, <1>2, <1>4, <1>8, <2>1 DEF Inv, Safe, OneLoader
<1>9. ASSUME cacheLoading = Undefined
      PROVE  OneLoader'
  <2>1. ASSUME NEW q \in Processes, Loader(q)
        PROVE  FALSE
    <3>1. setup.overlap /\ q # p /\ load[q] # Idle
      BY <1>7, <1>9, <2>1, UndefinedAssumption DEF Inv, Safe, OneLoader, Loader, Idle
    <3>2. ~setup.snapshots /\ \A a, b \in setup.readers : a = b
      BY <3>1, SetupIs
    <3>3. CASE p = "worker"
      <4>1. q \in Readers
        BY <3>1, <3>3 DEF Processes
      <4>2. phase = "open"
        BY <3>1, <4>1 DEF Inv, Safe, PhaseInv
      <4> QED
        BY <3>2, <3>3, <4>2
    <3>4. CASE p # "worker"
      <4>1. p \in Readers /\ phase = "open" /\ p \in setup.readers
        BY <3>4 DEF Processes
      <4>2. q # "worker"
        BY <3>1, <3>2, <4>1 DEF Inv, Safe, PhaseInv
      <4>3. q \in setup.readers
        BY <3>1, <4>2 DEF Inv, Safe, PhaseInv, Processes
      <4> QED
        BY <3>1, <3>2, <4>1, <4>3
    <3> QED
      BY <3>3, <3>4
  <2>2. \A q \in Processes : Loader(q)' <=> q = p
    <3> TAKE q \in Processes
    <3>1. CASE q = p
      BY <1>4, <1>9, <3>1 DEF Loader
    <3>2. CASE q # p
      BY <1>3, <2>1, <3>2 DEF Loader
    <3> QED
      BY <3>1, <3>2
  <2>3. pendingOps = Undefined
    BY <2>1 DEF Inv, Safe, OneLoader
  <2> QED
    BY <1>1, <1>4, <1>9, <2>2, <2>3 DEF OneLoader
<1>10. LoadInv'
  <2>1. \A q \in Processes : load'[q].at \in {"log", "lines", "finish"} => q # p /\ load'[q] = load[q]
    BY <1>3, <1>4
  <2>2. \A k \in Keys : (Touched(k)' <=> Touched(k)) /\ (Under(k)' <=> Under(k))
    BY <1>1 DEF Touched, Under
  <2> QED
    BY <1>1, <2>1, <2>2 DEF Inv, Safe, LoadInv
<1>11. PendingInv'
  BY <1>1 DEF Inv, Safe, PendingInv, Touched
<1>12. CacheInv' /\ OrderInv'
  BY <1>1 DEF Inv, Safe, CacheInv, OrderInv, Under
<1> QED
  BY <1>5, <1>6, <1>8, <1>9, <1>10, <1>11, <1>12 DEF Safe

LEMMA GetSafe ==
    ASSUME Inv, NEW r \in Readers, Get(r)
    PROVE  Safe'
<1>1. r \in Processes /\ r # "worker"
  BY SetupsAssumption DEF Processes
<1> QED
  BY <1>1, StartLoadSafe DEF Get

\* A load goes on: nobody begins or ends one.
LEMMA GoesOn ==
    ASSUME Inv, NEW p \in Processes, Loader(p), NEW x \in LoadStates,
           load' = [load EXCEPT ![p] = x], x.at \in {"log", "lines", "finish"},
           \/ lastCommitId' = lastCommitId
           \/ snapshot # Undefined => ~After(snapshot.id, lastCommitId'),
           UNCHANGED <<setup, sessions, phase, log, snapshot, head, writer, writing, cache,
                       cacheLoading, pendingOps, saving, doomed, written, acked>>
    PROVE  /\ SnapshotInv' /\ PhaseInv' /\ OneLoader' /\ PendingInv' /\ CacheInv' /\ OrderInv'
           /\ load'[p] = x /\ \A q \in Processes : q # p => load'[q] = load[q]
<1>1. load \in [Processes -> LoadStates]
  BY DEF Inv, Base, TypesInv
<1>2. load'[p] = x /\ \A q \in Processes : q # p => load'[q] = load[q]
  BY <1>1
<1>3. \A q \in Processes : Loader(q)' <=> Loader(q)
  BY <1>2 DEF Loader
<1>4. load[p] # Idle
  BY DEF Loader, Idle
<1>5. \A q \in Processes : load'[q] # Idle => load[q] # Idle
  BY <1>2, <1>4
<1>6. "worker" \in Processes /\ \A r \in Readers : r \in Processes
  BY DEF Processes
<1>7. SnapshotInv'
  BY DEF Inv, Safe, SnapshotInv
<1>8. saving = Undefined /\ (setup.overlap \/ writing = Undefined)
  BY DEF Inv, Safe, OneLoader, CacheInv
<1>9. PhaseInv'
  BY <1>8, <1>5, <1>6 DEF Inv, Safe, PhaseInv
<1>10. OneLoader'
  <2>1. cacheLoading \in Processes \cup {Undefined}
    BY DEF Inv, Base, TypesInv, TypeOK
  <2> QED
    BY <1>3, <2>1 DEF Inv, Safe, OneLoader
<1>11. PendingInv' /\ CacheInv'
  BY DEF Inv, Safe, PendingInv, CacheInv, Touched, Under
<1>12. OrderInv'
  BY <1>8 DEF Inv, Safe, OrderInv
<1> QED
  BY <1>2, <1>7, <1>9, <1>10, <1>11, <1>12

LEMMA LoadSnapshotSafe ==
    ASSUME Inv, NEW p \in Processes, LoadSnapshot(p)
    PROVE  Safe'
<1> DEFINE x == [at |-> "log", store |-> Loaded(snapshot).data, last |-> Loaded(snapshot).id]
<1>1. snapshot \in Snapshots \cup {Undefined}
  BY DEF Inv, Base, TypesInv, TypeOK
<1>2. /\ UNCHANGED <<setup, sessions, phase, log, snapshot, head, writer, writing, cache,
                     cacheLoading, pendingOps, lastCommitId, saving, doomed, written, acked>>
      /\ Loader(p)
      /\ lastSnapshotCommitId' = IF snapshot = Undefined THEN lastSnapshotCommitId ELSE snapshot.id
  BY DEF LoadSnapshot, disk, history, Loader
<1>3. Loaded(snapshot).data \in Stores /\ Loaded(snapshot).id \in Ids \cup {Undefined}
  BY <1>1, LoadedType DEF Starts
<1>4. /\ x \in LoadStates /\ load' = [load EXCEPT ![p] = x]
      /\ x.at = "log" /\ x.store = Loaded(snapshot).data /\ x.last = Loaded(snapshot).id
  BY <1>3, MadeLoads DEF LoadSnapshot
<1> HIDE DEF x
<1>5. /\ SnapshotInv' /\ PhaseInv' /\ OneLoader' /\ PendingInv' /\ CacheInv' /\ OrderInv'
      /\ load'[p] = x /\ \A q \in Processes : q # p => load'[q] = load[q]
  BY <1>2, <1>4, GoesOn
<1>6. CleanInv'
  BY <1>2 DEF Inv, Safe, CleanInv
<1>7. LoadInv'
  <2>1. \A k \in Keys : (Touched(k)' <=> Touched(k)) /\ (Under(k)' <=> Under(k))
    BY <1>2 DEF Touched, Under
  <2> QED
    BY <1>2, <1>4, <1>5, <2>1 DEF Inv, Safe, LoadInv
<1> QED
  BY <1>5, <1>6, <1>7 DEF Safe

LEMMA ReadLogSafe ==
    ASSUME Inv, NEW p \in Processes, ReadLog(p)
    PROVE  Safe'
<1> DEFINE ids == Lines(load[p].last, DOMAIN log)
           store == Replay(load[p].store, ids)
           last == LastOf(ids, load[p].last)
           x == [at |-> "lines", store |-> store, last |-> last]
<1>1. /\ snapshot \in Snapshots \cup {Undefined} /\ Files(log) /\ written \in Stores
      /\ Tells(log, written) /\ Base
  BY DEF Inv, Base, TypesInv, TypeOK
<1>2. /\ UNCHANGED <<setup, sessions, phase, log, snapshot, head, writer, writing, cache,
                     cacheLoading, pendingOps, lastCommitId, lastSnapshotCommitId, saving, doomed,
                     written, acked>>
      /\ Loader(p) /\ load[p].at = "log"
  BY DEF ReadLog, disk, history, Loader
<1>3. load[p].store = Loaded(snapshot).data /\ load[p].last = Loaded(snapshot).id
  BY <1>2 DEF Inv, Safe, LoadInv
<1>4. /\ Loaded(snapshot) \in Starts
      /\ snapshot # Undefined => Loaded(snapshot).id = snapshot.id /\ snapshot.id \in Ids
  BY <1>1, LoadedType
<1>5. store = written
  <2>1. Good(Loaded(snapshot), log, written)
    BY DEF Inv, Safe, SnapshotInv
  <2>2. Replay(Loaded(snapshot).data, Lines(Loaded(snapshot).id, DOMAIN log)) = written
    BY <1>1, <1>4, <2>1, RestoredIs
  <2> QED
    BY <1>3, <2>2
<1>6. /\ last \in Ids \cup {Undefined}
      /\ last = load[p].last \/ (last \in Ids /\ After(last, load[p].last))
  <2>1. load[p].last \in Ids \cup {Undefined} /\ Reached(load[p].last, log, doomed)
    BY <1>2, LoadShape DEF Inv, Base, TypesInv, KnownInv
  <2> QED
    BY <1>1, <2>1, LastRead
<1>7. load' = [load EXCEPT ![p] = x]
  BY DEF ReadLog
<1> HIDE DEF store, last
<1>8. x \in LoadStates /\ x.last = last /\ x.store = written /\ x.at = "lines"
  BY <1>1, <1>5, <1>6, MadeLoads
<1>9. snapshot # Undefined => last # Undefined /\ ~After(snapshot.id, last)
  <2> SUFFICES ASSUME snapshot # Undefined
               PROVE  last # Undefined /\ ~After(snapshot.id, last)
    OBVIOUS
  <2>1. snapshot.id \in Ids /\ load[p].last = snapshot.id
    BY <1>3, <1>4
  <2>2. last \in Ids /\ last # Undefined /\ (last = snapshot.id \/ After(last, snapshot.id))
    BY <1>6, <2>1, UndefinedAssumption
  <2> QED
    BY <2>1, <2>2, AfterOrder
<1> HIDE DEF x
<1>10. /\ SnapshotInv' /\ PhaseInv' /\ OneLoader' /\ PendingInv' /\ CacheInv' /\ OrderInv'
       /\ load'[p] = x /\ \A q \in Processes : q # p => load'[q] = load[q]
  BY <1>2, <1>7, <1>8, GoesOn
<1>11. CleanInv'
  BY <1>2 DEF Inv, Safe, CleanInv
<1>12. LoadInv'
  <2>1. \A k \in Keys : (Touched(k)' <=> Touched(k)) /\ (Under(k)' <=> Under(k))
    BY <1>2 DEF Touched, Under
  <2> QED
    BY <1>2, <1>8, <1>9, <1>10, <2>1 DEF Inv, Safe, LoadInv
<1> QED
  BY <1>10, <1>11, <1>12 DEF Safe

LEMMA ApplyLinesSafe ==
    ASSUME Inv, NEW p \in Processes, ApplyLines(p)
    PROVE  Safe'
<1> DEFINE x == [at |-> "finish", store |-> load[p].store, last |-> load[p].last]
<1>1. /\ UNCHANGED <<setup, sessions, phase, log, snapshot, head, writer, writing, cache,
                     cacheLoading, pendingOps, lastSnapshotCommitId, saving, doomed,
                     written, acked>>
      /\ Loader(p) /\ load[p].at = "lines"
      /\ lastCommitId' = IF load[p].last = Undefined THEN lastCommitId ELSE load[p].last
  BY DEF ApplyLines, disk, history, Loader
<1>2. load[p].store \in Stores /\ load[p].last \in Ids \cup {Undefined}
  BY <1>1, LoadShape DEF Inv, Base, TypesInv
<1>3. /\ x \in LoadStates /\ x.at = "finish"
      /\ x.last = load[p].last /\ x.store = load[p].store
      /\ load' = [load EXCEPT ![p] = x]
  BY <1>2, MadeLoads DEF ApplyLines
<1> HIDE DEF x
<1>4. /\ \A k \in Keys : Touched(k) \/ load[p].store[k] = written[k] \/ Under(k)
      /\ snapshot # Undefined => load[p].last # Undefined /\ ~After(snapshot.id, load[p].last)
  BY <1>1 DEF Inv, Safe, LoadInv
<1>5. \/ lastCommitId' = lastCommitId
      \/ snapshot # Undefined => ~After(snapshot.id, lastCommitId')
  BY <1>1, <1>4
<1>6. /\ SnapshotInv' /\ PhaseInv' /\ OneLoader' /\ PendingInv' /\ CacheInv' /\ OrderInv'
      /\ load'[p] = x /\ \A q \in Processes : q # p => load'[q] = load[q]
  BY <1>1, <1>3, <1>5, GoesOn
<1>7. CleanInv'
  BY <1>1 DEF Inv, Safe, CleanInv
<1>8. LoadInv'
  <2>1. \A k \in Keys : (Touched(k)' <=> Touched(k)) /\ (Under(k)' <=> Under(k))
    BY <1>1 DEF Touched, Under
  <2> QED
    BY <1>1, <1>3, <1>4, <1>6, <2>1 DEF Inv, Safe, LoadInv
<1> QED
  BY <1>6, <1>7, <1>8 DEF Safe

LEMMA FinishLoadSafe ==
    ASSUME Inv, NEW p \in Processes, FinishLoad(p)
    PROVE  Safe'
<1> DEFINE pending == IF pendingOps = Undefined THEN <<>> ELSE pendingOps
           store == ApplyAll(load[p].store, pending)
           done == {q \in Processes : q = p \/ load[q] = [at |-> "join", of |-> p]}
<1>1. /\ cache' = store
      /\ load' = [q \in Processes |-> IF q \in done THEN Idle ELSE load[q]]
      /\ lastCommitId' = lastCommitId
      /\ saving' = IF "worker" \in done
                   THEN [id |-> lastCommitId', data |-> store] ELSE saving
      /\ pendingOps' = Undefined /\ cacheLoading' = Undefined
      /\ load[p].at = "finish"
  BY DEF FinishLoad
<1>2. UNCHANGED <<setup, sessions, phase, log, snapshot, head, writer, writing,
                  lastSnapshotCommitId, doomed, written, acked>>
  BY DEF FinishLoad, disk, history
<1>3. /\ load[p].store \in Stores /\ load[p].last \in Ids \cup {Undefined}
      /\ pendingOps \in Seq(Commits) \cup {Undefined} /\ written \in Stores
  BY <1>1, LoadShape DEF Inv, Base, TypesInv, TypeOK
<1>4. Loader(p) /\ load[p] # Idle
  BY <1>1 DEF Loader, Idle
<1>5. cache = Undefined /\ saving = Undefined /\ (setup.overlap \/ writing = Undefined)
  BY <1>4 DEF Inv, Safe, OneLoader, CacheInv
<1>6. /\ store \in Stores /\ store # Undefined
      /\ \A k \in Keys : store[k] = written[k] \/ Under(k)
  <2>1. pending \in Seq(Commits)
    BY <1>3
  <2>2. \A k \in Keys : Touched(k) <=> \E i \in DOMAIN pending : k \in pending[i].keys
    BY DEF Touched
  <2>3. ASSUME NEW k \in Keys, Touched(k)
        PROVE  \E i \in DOMAIN pending :
                  /\ k \in pending[i].keys /\ pending[i].number = acked[k]
                  /\ \A j \in DOMAIN pending : k \in pending[j].keys => j <= i
    <3>1. pending = pendingOps
      BY <2>3 DEF Touched
    <3> HIDE DEF pending
    <3> QED
      BY <2>3, <3>1 DEF Inv, Safe, PendingInv
  <2> HIDE DEF pending
  <2>4. /\ store \in Stores
        /\ \A k \in Keys : (\A i \in DOMAIN pending : k \notin pending[i].keys) =>
                store[k] = load[p].store[k]
        /\ \A k \in Keys : \A i \in DOMAIN pending :
                k \in pending[i].keys /\ (\A j \in DOMAIN pending : k \in pending[j].keys => j <= i)
                    => store[k] = pending[i].number
    BY <1>3, <2>1, ApplyAllIs
  <2> HIDE DEF store
  <2>5. ASSUME NEW k \in Keys
        PROVE  store[k] = written[k] \/ Under(k)
    <3>1. CASE Touched(k)
      <4>1. store[k] = acked[k]
        BY <2>3, <2>4, <3>1
      <4>2. writing = Undefined => acked[k] = written[k]
        BY DEF Inv, Base, HistoryInv
      <4>3. writing # Undefined /\ ~Under(k) => written[k] = acked[k]
        <5>1. writing # Undefined =>
                /\ written = ApplyCommit(acked, writing.commit)
                /\ acked \in Stores /\ writing.commit \in Commits
          BY DEF Inv, Base, HistoryInv, TypesInv, TypeOK
        <5> QED
          BY <5>1, ApplyCommitType DEF Under
      <4> QED
        BY <4>1, <4>2, <4>3
    <3>2. CASE ~Touched(k)
      <4>1. store[k] = load[p].store[k]
        BY <2>2, <2>4, <3>2
      <4> QED
        BY <1>1, <3>2, <4>1 DEF Inv, Safe, LoadInv
    <3> QED
      BY <3>1, <3>2
  <2> QED
    BY <2>4, <2>5, UndefinedAssumption
<1> HIDE DEF store
<1>7. /\ p \in done /\ load'[p] = Idle
      /\ \A q \in Processes : load'[q] = Idle \/ (load'[q] = load[q] /\ q # p)
  BY <1>1
<1>8. \A q \in Processes : ~Loader(q)'
  <2> TAKE q \in Processes
  <2>1. CASE load'[q] = Idle
    BY <2>1 DEF Loader, Idle
  <2>2. CASE load'[q] = load[q] /\ q # p
    BY <1>4, <2>2 DEF Loader, Inv, Safe, OneLoader
  <2> QED
    BY <1>7, <2>1, <2>2
<1>9. "worker" \in Processes /\ \A r \in Readers : r \in Processes
  BY DEF Processes
<1>10. "worker" \in done =>
          /\ load["worker"] # Idle
          /\ phase = "closing" \/ (phase = "open" /\ setup.snapshots)
          /\ load'["worker"] = Idle
  <2>1. ASSUME "worker" \in done
        PROVE  load["worker"] # Idle
    <3>1. load["worker"].at \in {"finish", "join"}
      BY <1>1, <2>1
    <3> QED
      BY <3>1 DEF Idle
  <2>2. "worker" \in done => load'["worker"] = Idle
    BY <1>1
  <2> QED
    BY <2>1, <2>2 DEF Inv, Safe, PhaseInv
<1>11. "worker" \in done => writing = Undefined /\ store = written
  <2> SUFFICES ASSUME "worker" \in done
               PROVE  writing = Undefined /\ store = written
    OBVIOUS
  <2>1. writing = Undefined
    <3>1. CASE phase = "closing"
      BY <3>1 DEF Inv, Base, HistoryInv
    <3>2. CASE setup.snapshots
      BY <1>5, <3>2, SetupIs
    <3> QED
      BY <1>10, <3>1, <3>2
  <2>2. \A k \in Keys : store[k] = written[k]
    BY <1>6, <2>1 DEF Under
  <2> QED
    BY <1>3, <1>6, <2>1, <2>2 DEF Stores
<1>12. lastCommitId' \in Ids \cup {Undefined}
       /\ ("worker" \in done => lastCommitId' # Undefined)
  BY <1>1, <1>3, <1>10 DEF Inv, Base, TypesInv, TypeOK
<1>13. saving' # Undefined =>
          "worker" \in done /\ saving'.id = lastCommitId' /\ saving'.data = store
  BY <1>1, <1>5
<1>14. SnapshotInv'
  <2>1. saving' # Undefined => Good(saving', log, written)
    BY <1>11, <1>13 DEF Good
  <2> QED
    BY <1>2, <2>1 DEF Inv, Safe, SnapshotInv
<1>15. PhaseInv'
  <2>1. load'["worker"] # Idle => load["worker"] # Idle /\ "worker" \notin done
    BY <1>7, <1>9, <1>10
  <2>2. \A r \in Readers : load'[r] # Idle => load[r] # Idle
    BY <1>7, <1>9
  <2>3. load'["worker"] # Idle => saving' = Undefined
    BY <1>13, <2>1
  <2> HIDE DEF done
  <2> QED
    BY <1>2, <1>10, <1>13, <2>1, <2>2, <2>3 DEF Inv, Safe, PhaseInv
<1>16. CleanInv'
  BY <1>2 DEF Inv, Safe, CleanInv
<1>17. OneLoader' /\ PendingInv'
  BY <1>1, <1>8 DEF OneLoader, PendingInv, Touched
<1>18. LoadInv'
  BY <1>8 DEF LoadInv, Loader
<1>19. CacheInv'
  <2>1. \A k \in Keys : Under(k)' <=> Under(k)
    BY <1>2 DEF Under
  <2> QED
    BY <1>1, <1>2, <1>6, <2>1 DEF CacheInv
<1>20. OrderInv'
  <2>1. snapshot # Undefined /\ lastCommitId' # Undefined => ~After(snapshot.id, lastCommitId')
    BY <1>1 DEF Inv, Safe, OrderInv
  <2>2. saving' # Undefined => lastCommitId' # Undefined /\ ~After(saving'.id, lastCommitId')
    <3>1. lastCommitId' \in Ids => ~After(lastCommitId', lastCommitId')
      BY AfterOrder
    <3> QED
      BY <1>12, <1>13, <3>1
  <2>3. snapshot # Undefined /\ saving' # Undefined => ~After(snapshot.id, saving'.id)
    BY <1>13, <2>1, <2>2
  <2>4. writing # Undefined => setup.overlap
    BY <1>5
  <2> QED
    BY <1>2, <2>1, <2>2, <2>3, <2>4 DEF Inv, Safe, OrderInv
<1> QED
  BY <1>14, <1>15, <1>16, <1>17, <1>18, <1>19, <1>20 DEF Safe

LEMMA RunSnapshotSafe ==
    ASSUME Inv, RunSnapshot
    PROVE  Safe'
<1>1. /\ phase = "closing" \/ (phase = "open" /\ setup.snapshots)
      /\ saving = Undefined /\ load["worker"] = Idle /\ lastCommitId # Undefined
      /\ lastCommitId \in Ids
  BY DEF RunSnapshot, Inv, Base, TypesInv, TypeOK
<1>2. CASE StartLoad("worker")
  <2>1. "worker" \in Processes /\ "worker" \notin Readers
    BY SetupsAssumption DEF Processes
  <2> QED
    BY <1>1, <1>2, <2>1, StartLoadSafe
<1>3. CASE /\ cache # Undefined
           /\ saving' = [id |-> lastCommitId, data |-> cache]
           /\ UNCHANGED <<setup, sessions, phase, disk, writer, writing, cache, cacheLoading,
                         pendingOps, lastCommitId, lastSnapshotCommitId, load, doomed,
                         history>>
  <2>1. UNCHANGED <<setup, sessions, phase, log, snapshot, head, writer, writing, cache,
                    cacheLoading, pendingOps, lastCommitId, lastSnapshotCommitId, load, doomed,
                    written, acked>>
    BY <1>3 DEF disk, history
  <2>2. saving'.id = lastCommitId /\ saving'.data = cache /\ cache # Undefined
    BY <1>3
  <2>3. Good(saving', log, written)
    <3>1. ASSUME NEW k \in Keys
          PROVE  cache[k] = written[k] \/ \E l \in Touching(k, log) : After(l, lastCommitId)
      <4>1. CASE cache[k] = written[k]
        BY <4>1
      <4>2. CASE cache[k] # written[k]
        <5>1. writing # Undefined /\ k \in writing.commit.keys
          BY <2>2, <4>2 DEF Inv, Safe, CacheInv, Under
        <5>2. writing.id \in Touching(k, log) /\ phase = "open"
          BY <5>1 DEF Inv, Base, HistoryInv, Touching
        <5>3. ~setup.overlap
          BY <1>1, <5>2, SetupIs
        <5>4. After(writing.id, lastCommitId)
          BY <5>1, <5>3 DEF Inv, Safe, OrderInv
        <5> QED
          BY <5>2, <5>4
      <4> QED
        BY <4>1, <4>2
    <3> QED
      BY <2>2, <3>1 DEF Good
  <2>4. SnapshotInv'
    BY <2>1, <2>3 DEF Inv, Safe, SnapshotInv
  <2>5. PhaseInv'
    BY <1>1, <2>1, <2>2 DEF Inv, Safe, PhaseInv
  <2>6. CleanInv' /\ OneLoader' /\ PendingInv' /\ LoadInv'
    BY <2>1 DEF Inv, Safe, CleanInv, OneLoader, PendingInv, LoadInv, Loader, Touched, Under
  <2>7. CacheInv'
    BY <2>1, <2>2 DEF Inv, Safe, CacheInv, Under
  <2>8. OrderInv'
    <3>1. ~After(lastCommitId, lastCommitId)
      BY <1>1, AfterOrder
    <3> QED
      BY <1>1, <2>1, <2>2, <3>1 DEF Inv, Safe, OrderInv
  <2> QED
    BY <2>4, <2>5, <2>6, <2>7, <2>8 DEF Safe
<1> QED
  BY <1>2, <1>3 DEF RunSnapshot

LEMMA SaveSnapshotSafe ==
    ASSUME Inv, SaveSnapshot
    PROVE  Safe'
<1>1. /\ saving # Undefined /\ snapshot' = saving /\ lastSnapshotCommitId' = lastCommitId
      /\ saving' = Undefined /\ phase' = (IF phase = "closing" THEN "cleaning" ELSE phase)
      /\ UNCHANGED <<setup, sessions, log, head, writer, writing, cache, cacheLoading,
                     pendingOps, lastCommitId, load, doomed, written, acked>>
  BY DEF SaveSnapshot, AfterSnapshot, history
<1>2. /\ phase = "closing" \/ (phase = "open" /\ setup.snapshots)
      /\ cache # Undefined /\ load["worker"] = Idle /\ Good(saving, log, written)
      /\ lastCommitId # Undefined /\ ~After(saving.id, lastCommitId)
      /\ phase = "closing" => saving.id = lastCommitId
  BY <1>1 DEF Inv, Safe, PhaseInv, CacheInv, SnapshotInv, OrderInv
<1>3. /\ saving \in Snapshots /\ saving.id \in Ids /\ Loaded(saving) = saving
      /\ lastCommitId \in Ids
  BY <1>1, <1>2, LoadedType DEF Inv, Base, TypesInv, TypeOK
<1>4. \A p \in Processes : ~Loader(p)
  BY <1>2 DEF Inv, Safe, OneLoader
<1>5. doomed = {}
  <2> SUFFICES ASSUME doomed # {}
               PROVE  FALSE
    OBVIOUS
  <2>1. phase = "open" /\ setup.cleans /\ setup.snapshots
    BY <1>2 DEF Inv, Safe, PhaseInv
  <2> QED
    BY <2>1, SetupIs
<1>6. SnapshotInv'
  BY <1>1, <1>2, <1>3 DEF Inv, Safe, SnapshotInv
<1>7. \A r \in Readers : load[r] # Idle => phase = "open" /\ r \in setup.readers
  BY DEF Inv, Safe, PhaseInv
<1>8. PhaseInv'
  BY <1>1, <1>2, <1>5, <1>7 DEF PhaseInv
<1>9. CleanInv'
  BY <1>1, <1>2, <1>5 DEF CleanInv
<1>10. OneLoader' /\ PendingInv'
  BY <1>1 DEF Inv, Safe, OneLoader, PendingInv, Loader, Touched
<1>11. LoadInv'
  BY <1>1, <1>4 DEF LoadInv, Loader
<1>12. CacheInv'
  BY <1>1 DEF Inv, Safe, CacheInv, Under
<1>13. OrderInv'
  <2>1. ASSUME writing # Undefined
        PROVE  After(writing.id, saving.id)
    <3>1. phase = "open" /\ writing.id \in Ids
      BY <2>1 DEF Inv, Base, HistoryInv, TypesInv, TypeOK
    <3>2. ~setup.overlap
      BY <1>2, <3>1, SetupIs
    <3>3. After(writing.id, lastCommitId)
      BY <2>1, <3>2 DEF Inv, Safe, OrderInv
    <3>4. saving.id = lastCommitId \/ After(lastCommitId, saving.id)
      BY <1>2, <1>3, AfterOrder
    <3> QED
      BY <1>3, <3>1, <3>3, <3>4, AfterOrder
  <2> QED
    BY <1>1, <1>2, <2>1 DEF Inv, Safe, OrderInv
<1> QED
  BY <1>6, <1>8, <1>9, <1>10, <1>11, <1>12, <1>13 DEF Safe

LEMMA SaveFailsSafe ==
    ASSUME Inv, SaveFails
    PROVE  Safe'
<1>1. /\ setup.fails /\ saving # Undefined /\ saving' = Undefined
      /\ phase' = (IF phase = "closing" THEN "cleaning" ELSE phase)
      /\ UNCHANGED <<setup, sessions, log, snapshot, head, writer, writing, cache, cacheLoading,
                     pendingOps, lastCommitId, lastSnapshotCommitId, load, doomed, written, acked>>
  BY DEF SaveFails, AfterSnapshot, disk, history
<1>2. ~setup.snapshots
  BY <1>1, SetupIs
<1>3. phase = "closing" /\ load["worker"] = Idle
  BY <1>1, <1>2 DEF Inv, Safe, PhaseInv
<1>4. SnapshotInv'
  BY <1>1 DEF Inv, Safe, SnapshotInv
<1>5. PhaseInv'
  BY <1>1, <1>3 DEF Inv, Safe, PhaseInv
<1>6. CleanInv'
  BY <1>1, <1>2 DEF Inv, Safe, CleanInv
<1>7. OneLoader' /\ PendingInv' /\ LoadInv'
  BY <1>1 DEF Inv, Safe, OneLoader, PendingInv, LoadInv, Loader, Touched, Under
<1>8. CacheInv' /\ OrderInv'
  BY <1>1 DEF Inv, Safe, CacheInv, OrderInv, Under
<1> QED
  BY <1>4, <1>5, <1>6, <1>7, <1>8 DEF Safe

LEMMA RunCleanSafe ==
    ASSUME Inv, RunClean
    PROVE  Safe'
<1>1. /\ lastSnapshotCommitId \in Ids /\ doomed = {}
      /\ doomed' = {s \in DOMAIN log : s < lastSnapshotCommitId.segment}
      /\ head' \in Snapshots
      /\ \A d \in doomed' : \A l \in LinesOf(log) : l.segment = d => ~After(l, head'.id)
      /\ Good(Loaded(head), log, written) => Good(head', log, written)
      /\ UNCHANGED <<setup, sessions, log, snapshot, writer, writing, cache, cacheLoading,
                     pendingOps, lastCommitId, lastSnapshotCommitId, load, saving, written, acked>>
  BY RunCleanIs DEF Inv
<1>2. \/ phase = "open" /\ setup.cleans /\ phase' = phase
      \/ phase = "cleaning" /\ phase' = "ending"
  BY DEF RunClean
<1>3. snapshot # Undefined /\ lastSnapshotCommitId = snapshot.id
  <2>1. phase = "cleaning" \/ ~setup.snapshots
    BY <1>2, SetupIs
  <2>2. lastSnapshotCommitId # Undefined
    BY <1>1, UndefinedAssumption
  <2> QED
    BY <2>1, <2>2 DEF Inv, Safe, CleanInv
<1>4. head' # Undefined /\ Loaded(head') = head'
  BY <1>1, UndefinedAssumption, LoadedType
<1>5. SnapshotInv'
  BY <1>1, <1>4 DEF Inv, Safe, SnapshotInv
<1>6. PhaseInv'
  BY <1>1, <1>2 DEF Inv, Safe, PhaseInv
<1>7. CleanInv'
  BY <1>1, <1>3, <1>4 DEF CleanInv
<1>8. OneLoader' /\ PendingInv' /\ LoadInv'
  BY <1>1 DEF Inv, Safe, OneLoader, PendingInv, LoadInv, Loader, Touched, Under
<1>9. CacheInv' /\ OrderInv'
  BY <1>1 DEF Inv, Safe, CacheInv, OrderInv, Under
<1> QED
  BY <1>5, <1>6, <1>7, <1>8, <1>9 DEF Safe

LEMMA DeleteSegmentSafe ==
    ASSUME Inv, DeleteSegment
    PROVE  Safe'
<1>1. PICK o \in doomed :
         /\ o \in DOMAIN log
         /\ log' = Without(log, o) /\ doomed' = doomed \ {o}
         /\ UNCHANGED <<setup, sessions, phase, snapshot, head, writer, writing,
                        cache, cacheLoading, pendingOps, lastCommitId,
                        lastSnapshotCommitId, load, saving, written, acked>>
  BY DeleteIs DEF Inv
<1>2. /\ Files(log) /\ snapshot \in Snapshots \cup {Undefined}
      /\ head \in Snapshots \cup {Undefined}
  BY DEF Inv, Base, TypesInv, TypeOK
<1>3. /\ snapshot # Undefined /\ o < snapshot.id.segment
      /\ head # Undefined /\ \A l \in LinesOf(log) : l.segment = o => ~After(l, head.id)
  BY <1>1 DEF Inv, Safe, CleanInv
<1>4. Loaded(snapshot) = snapshot /\ Loaded(head) = head /\ snapshot.id \in Ids
      /\ snapshot.id # Undefined
  BY <1>2, <1>3, LoadedType
<1>5. \A l \in LinesOf(log) : l.segment = o => ~After(l, snapshot.id)
  <2>1. o \in Nat /\ snapshot.id.segment \in Nat
    BY <1>1, <1>2, <1>4 DEF Files, Ids
  <2> QED
    BY <1>3, <1>4, <2>1 DEF After
<1>6. saving = Undefined
  <2> SUFFICES ASSUME saving # Undefined
               PROVE  FALSE
    OBVIOUS
  <2>1. phase = "open" /\ setup.cleans /\ setup.snapshots
    BY <1>1 DEF Inv, Safe, PhaseInv
  <2> QED
    BY <2>1, SetupIs
<1>7. SnapshotInv'
  <2>1. Good(snapshot, log', written) /\ Good(head, log', written)
    <3>1. Good(snapshot, log, written) /\ Good(head, log, written)
      BY <1>4 DEF Inv, Safe, SnapshotInv
    <3> QED
      BY <1>1, <1>2, <1>3, <1>5, <3>1, GoodWithout
  <2> QED
    BY <1>1, <1>4, <1>6, <2>1 DEF SnapshotInv
<1>8. PhaseInv'
  BY <1>1 DEF Inv, Safe, PhaseInv
<1>9. CleanInv'
  <2>1. LinesOf(log') \subseteq LinesOf(log)
    BY <1>1, <1>2, WithoutLines
  <2> QED
    BY <1>1, <2>1 DEF Inv, Safe, CleanInv
<1>10. OneLoader' /\ PendingInv' /\ LoadInv'
  BY <1>1 DEF Inv, Safe, OneLoader, PendingInv, LoadInv, Loader, Touched, Under
<1>11. CacheInv' /\ OrderInv'
  BY <1>1 DEF Inv, Safe, CacheInv, OrderInv, Under
<1> QED
  BY <1>7, <1>8, <1>9, <1>10, <1>11 DEF Safe

LEMMA InitSafe ==
    ASSUME Init, Base
    PROVE  Safe
<1>1. \A p \in Processes : load[p] = Idle /\ load[p].at = "idle"
  BY DEF Init, Idle
<1>2. "worker" \in Processes /\ \A r \in Readers : r \in Processes
  BY DEF Processes
<1>3. SnapshotInv
  <2>1. Loaded(Undefined).data = EmptyStore
    BY DEF Loaded
  <2> QED
    BY <2>1 DEF SnapshotInv, Good, Init
<1>4. PhaseInv /\ CleanInv
  BY <1>1, <1>2 DEF PhaseInv, CleanInv, Init
<1>5. OneLoader /\ LoadInv /\ PendingInv
  BY <1>1 DEF OneLoader, LoadInv, PendingInv, Loader, Touched, Init
<1>6. CacheInv /\ OrderInv
  BY DEF CacheInv, OrderInv, Init
<1> QED
  BY <1>3, <1>4, <1>5, <1>6 DEF Safe

\* A setup stays what it is.
LEMMA SetupStays ==
    ASSUME [Next]_vars
    PROVE  setup' = setup
  BY DEF Next, vars, Write, OnCommit, Get, StartLoad, LoadSnapshot, ReadLog, ApplyLines, FinishLoad,
         RunSnapshot, SaveSnapshot, SaveFails, RunClean, DeleteSegment, Initialize, BeginClose,
         EndClose, Crash

LEMMA SafeStep ==
    ASSUME Inv, [Next]_vars
    PROVE  Safe'
<1>1. CASE \E keys \in (SUBSET Keys) \ {{}} : Write(keys)
  <2>1. PICK keys \in (SUBSET Keys) \ {{}} : Write(keys)
    BY <1>1
  <2>2. PICK id, c : Logged(id, c)
    BY <2>1, WriteIs DEF Inv
  <2> QED
    BY <2>2, LoggedSafe
<1>2. CASE OnCommit
  BY <1>2, OnCommitSafe
<1>3. CASE \E r \in Readers : Get(r)
  BY <1>3, GetSafe
<1>4. CASE \E p \in Processes : LoadSnapshot(p) \/ ReadLog(p) \/ ApplyLines(p) \/ FinishLoad(p)
  BY <1>4, LoadSnapshotSafe, ReadLogSafe, ApplyLinesSafe, FinishLoadSafe
<1>5. CASE RunSnapshot \/ SaveSnapshot \/ SaveFails
  BY <1>5, RunSnapshotSafe, SaveSnapshotSafe, SaveFailsSafe
<1>6. CASE RunClean \/ DeleteSegment
  BY <1>6, RunCleanSafe, DeleteSegmentSafe
<1>7. CASE BeginClose
  BY <1>7, BeginCloseSafe
<1>8. CASE Initialize \/ EndClose \/ Crash
  <2>1. Fresh /\ UNCHANGED <<setup, disk, written>>
    BY <1>8 DEF Initialize, EndClose, Crash, history
  <2> QED
    BY <2>1, FreshSafe
<1>9. CASE UNCHANGED vars
  <2>1. UNCHANGED <<setup, sessions, phase, log, snapshot, head, writer, writing, cache,
                    cacheLoading, pendingOps, lastCommitId, lastSnapshotCommitId, load, saving,
                    doomed, written, acked>>
    BY <1>9 DEF vars, disk, memory, history
  <2>2. SnapshotInv' /\ PhaseInv' /\ CleanInv'
    BY <2>1 DEF Inv, Safe, SnapshotInv, PhaseInv, CleanInv
  <2>3. OneLoader' /\ PendingInv' /\ LoadInv'
    BY <2>1 DEF Inv, Safe, OneLoader, PendingInv, LoadInv, Loader, Touched, Under
  <2>4. CacheInv' /\ OrderInv'
    BY <2>1 DEF Inv, Safe, CacheInv, OrderInv, Under
  <2> QED
    BY <2>2, <2>3, <2>4 DEF Safe
<1> QED
  BY <1>1, <1>2, <1>3, <1>4, <1>5, <1>6, <1>7, <1>8, <1>9 DEF Next

\* The invariant of the sound setups.
LEMMA Invariance == Spec /\ Sound(setup) => []Inv
<1>1. Init /\ Sound(setup) => Inv
  BY InitBase, InitSafe DEF Inv
<1>2. Inv /\ [Next]_vars => Inv'
  <2> SUFFICES ASSUME Inv, [Next]_vars
               PROVE  Inv'
    OBVIOUS
  <2>1. Base' /\ Safe'
    BY BaseStep, SafeStep DEF Inv
  <2>2. Sound(setup)'
    BY SetupStays DEF Inv, Sound
  <2> QED
    BY <2>1, <2>2 DEF Inv
<1> QED
  BY <1>1, <1>2, PTL DEF Spec

\* What a good snapshot restores is complete.
LEMMA CompleteFrom ==
    ASSUME Inv, NEW file \in Snapshots \cup {Undefined}, Good(Loaded(file), log, written)
    PROVE  Complete(Restored(file))
<1>1. /\ Files(log) /\ written \in Stores /\ acked \in Stores /\ Tells(log, written)
      /\ \A k \in Keys : acked[k] <= written[k]
  BY DEF Inv, Base, TypesInv, TypeOK, HistoryInv
<1>2. Restored(file) = written
  BY <1>1, LoadedType, RestoredIs DEF Restored
<1>3. \A k \in Keys : acked[k] \in Nat /\ written[k] \in Nat
  BY <1>1, SetupsAssumption DEF Stores
<1>4. \A k \in Keys : written[k] \in acked[k] .. written[k]
  BY <1>1, <1>3
<1> QED
  BY <1>2, <1>4 DEF Complete

\* In a sound setup the snapshot on disk and the log restore every acknowledged commit,
\* whenever the process dies: rotation, snapshots that fail or are saved, cleanings cut short
\* and restarts lose none (WalWriter.write, #doLoadCache, WalSnapshot.save, WalCleaner.run).
THEOREM DurableTheorem == Spec /\ Sound(setup) => []Durable
<1>1. Inv => Durable
  <2> SUFFICES ASSUME Inv
               PROVE  Durable
    OBVIOUS
  <2>1. snapshot \in Snapshots \cup {Undefined} /\ Good(Loaded(snapshot), log, written)
    BY DEF Inv, Base, TypesInv, TypeOK, Safe, SnapshotInv
  <2> QED
    BY <2>1, CompleteFrom DEF Durable
<1> QED
  BY <1>1, Invariance, PTL

\* In a sound setup a cache holds, with no commit under way, exactly what was acknowledged,
\* the commits that arrived while #doLoadCache read the files included.
THEOREM CacheTheorem == Spec /\ Sound(setup) => []CacheIsCurrent
<1>1. Inv => CacheIsCurrent
  <2> SUFFICES ASSUME Inv, cache # Undefined, writing = Undefined
               PROVE  cache = acked
    BY DEF CacheIsCurrent
  <2>1. cache \in Stores /\ written \in Stores /\ acked = written
    BY DEF Inv, Base, TypesInv, TypeOK, HistoryInv
  <2>2. \A k \in Keys : cache[k] = written[k]
    BY DEF Inv, Safe, CacheInv, Under
  <2> QED
    BY <2>1, <2>2 DEF Stores
<1> QED
  BY <1>1, Invariance, PTL

\* In a sound setup the head snapshot of WalCleaner.run and the segments that are left are a
\* complete history, also between its save and the last deletion.
THEOREM HeadTheorem == Spec /\ Sound(setup) => []HeadCompletesLog
<1>1. Inv => HeadCompletesLog
  <2> SUFFICES ASSUME Inv, head # Undefined
               PROVE  Complete(Restored(head))
    BY DEF HeadCompletesLog
  <2>1. head \in Snapshots \cup {Undefined} /\ Good(Loaded(head), log, written)
    BY DEF Inv, Base, TypesInv, TypeOK, Safe, SnapshotInv
  <2> QED
    BY <2>1, CompleteFrom
<1> QED
  BY <1>1, Invariance, PTL

\* In a sound setup no save replaces the snapshot on disk by an older one.
THEOREM AdvancesTheorem == Spec /\ Sound(setup) => SnapshotAdvances
<1>1. ASSUME Inv, [Next]_vars
      PROVE  [snapshot # Undefined /\ snapshot' # snapshot =>
                ~After(snapshot.id, snapshot'.id)]_vars
  <2>1. CASE SaveSnapshot
    BY <1>1, <2>1 DEF Inv, Safe, OrderInv, SaveSnapshot
  <2>2. CASE ~SaveSnapshot
    <3>1. snapshot' = snapshot
      BY <1>1, <2>2 DEF Next, vars, disk, Write, OnCommit, Get, StartLoad, LoadSnapshot, ReadLog,
             ApplyLines, FinishLoad, RunSnapshot, SaveFails, RunClean, DeleteSegment, Initialize, BeginClose,
             EndClose, Crash
    <3> QED
      BY <3>1
  <2> QED
    BY <2>1, <2>2
<1> QED
  BY <1>1, Invariance, PTL DEF Spec, SnapshotAdvances
=============================================================================
