----------------------- MODULE AgnSessionFilesProofs -----------------------
(***************************************************************************)
(* Facts about the tables of session files: what the binary search returns *)
(* and what each operation leaves in a table whose clients are distinct.   *)
(***************************************************************************)
EXTENDS AgnSessionFiles, SequenceTheorems, FiniteSetTheorems, TLAPS

\* One round of the binary search of table t for id in the interval i, whose
\* further rounds have the results f.
Round(t, id, f, i) ==
  LET l == i[1]
      r == i[2]
      m == (l + r) \div 2 IN
  IF l >= r                THEN [found |-> FALSE, at |-> r]
  ELSE IF id = t[m + 1].id THEN [found |-> TRUE, at |-> m]
  ELSE IF id > t[m + 1].id THEN f[<<m + 1, r>>]
  ELSE f[<<l, m>>]

LEMMA MiddleIsBetween ==
  ASSUME NEW l \in Nat, NEW r \in Nat, l < r
  PROVE  /\ (l + r) \div 2 \in Nat
         /\ l <= (l + r) \div 2 /\ (l + r) \div 2 < r
  OBVIOUS

\* A nonempty set of naturals has a least element.
LEMMA LeastNatural ==
  ASSUME NEW U, U \subseteq Nat, U # {}
  PROVE  \E k \in U : \A j \in U : ~(j < k)
  <1>1. IsWellFoundedOn(OpToRel(<, Nat), Nat)
    BY NatLessThanWellFounded
  <1>2. PICK k \in U : \A j \in U : ~(<<j, k>> \in OpToRel(<, Nat))
    BY <1>1, WFMin
  <1> QED
    BY <1>2 DEF OpToRel

\* The search is well defined: by induction over the length of the interval.
LEMMA RoundsExist ==
  ASSUME NEW t, Len(t) \in Nat, NEW id
  PROVE  \E f : f = [i \in (0..Len(t)) \X (0..Len(t)) |-> Round(t, id, f, i)]
  <1> DEFINE D == (0..Len(t)) \X (0..Len(t))
             Ok(f, k) == /\ f = [i \in D |-> f[i]]
                         /\ \A i \in D : i[2] - i[1] <= k => f[i] = Round(t, id, f, i)
             U == {k \in Nat : ~\E f : Ok(f, k)}
  <1>1. \E f : Ok(f, 0)
    <2> DEFINE f == [i \in D |-> [found |-> FALSE, at |-> i[2]]]
    <2>1. Ok(f, 0)
      BY DEF Round
    <2> QED
      BY <2>1
  <1>2. ASSUME NEW k \in Nat, k # 0, \E f : Ok(f, k - 1)
        PROVE  \E f : Ok(f, k)
    <2>1. PICK f : Ok(f, k - 1)
      BY <1>2
    <2> DEFINE g == [i \in D |-> Round(t, id, f, i)]
    <2>2. ASSUME NEW i \in D, i[2] - i[1] <= k - 1
          PROVE  g[i] = f[i]
      BY <2>1, <2>2
    <2>3. ASSUME NEW i \in D, i[2] - i[1] <= k
          PROVE  g[i] = Round(t, id, g, i)
      <3> DEFINE l == i[1]
                 r == i[2]
                 m == (l + r) \div 2
      <3>1. CASE l >= r
        BY <3>1 DEF Round
      <3>2. CASE l < r
        <4>1. m \in Nat /\ l <= m /\ m < r
          BY <3>2, MiddleIsBetween
        <4>2. <<m + 1, r>> \in D /\ <<l, m>> \in D /\ r - (m + 1) <= k - 1 /\ m - l <= k - 1
          BY <2>3, <3>2, <4>1
        <4>3. g[<<m + 1, r>>] = f[<<m + 1, r>>] /\ g[<<l, m>>] = f[<<l, m>>]
          BY <2>2, <4>2
        <4>4. g[i] = Round(t, id, f, i)
          OBVIOUS
        <4> HIDE DEF g
        <4> QED
          BY <4>3, <4>4 DEF Round
      <3> QED
        BY <3>1, <3>2
    <2>4. Ok(g, k)
      BY <2>3
    <2> QED
      BY <2>4
  <1>3. U = {}
    <2>1. U # {} => \E k \in U : \A j \in U : ~(j < k)
      BY LeastNatural
    <2>2. 0 \notin U
      BY <1>1
    <2>3. ASSUME NEW k \in U, \A j \in U : ~(j < k)
          PROVE  FALSE
      <3>1. k \in Nat /\ k # 0
        BY <2>2
      <3>2. k - 1 \in Nat /\ k - 1 < k
        BY <3>1
      <3>3. \E f : Ok(f, k - 1)
        BY <2>3, <3>2
      <3>4. ~\E f : Ok(f, k)
        OBVIOUS
      <3> HIDE DEF Ok
      <3> QED
        BY <1>2, <3>1, <3>3, <3>4
    <2> QED
      BY <2>1, <2>3
  <1>4. PICK f : Ok(f, Len(t))
    BY <1>3
  <1>5. ASSUME NEW i \in D
        PROVE  f[i] = Round(t, id, f, i)
    <2>1. i[2] - i[1] <= Len(t)
      OBVIOUS
    <2> QED
      BY <1>4, <2>1
  <1> QED
    BY <1>4, <1>5

LEMMA SearchByRounds ==
  ASSUME NEW t, Len(t) \in Nat, NEW id
  PROVE  \E f : /\ f = [i \in (0..Len(t)) \X (0..Len(t)) |-> Round(t, id, f, i)]
                /\ BinarySearch(t, id) = f[<<0, Len(t)>>]
  <1> DEFINE f == CHOOSE f : f = [i \in (0..Len(t)) \X (0..Len(t)) |-> Round(t, id, f, i)]
  <1>1. f = [i \in (0..Len(t)) \X (0..Len(t)) |-> Round(t, id, f, i)]
    BY RoundsExist
  <1>2. BinarySearch(t, id) = f[<<0, Len(t)>>]
    BY DEF BinarySearch, Round
  <1> QED
    BY <1>1, <1>2

SortedById(t) == \A i, j \in Positions(t) : i < j => t[i].id < t[j].id

\* What a search of the interval i may return.
SearchedIn(t, id, i, res) ==
  /\ res.found \in BOOLEAN /\ res.at \in i[1]..i[2]
  /\ res.found => res.at < i[2] /\ t[res.at + 1].id = id
  /\ ~res.found /\ SortedById(t) =>
       /\ \A j \in (i[1] + 1)..res.at : t[j].id < id
       /\ \A j \in (res.at + 1)..i[2] : id < t[j].id

LEMMA IdsAreNumbers ==
  \A id \in Ids : id \in Nat /\ id # KNullFileId
  BY IdsAssumption DEF KNullFileId

LEMMA TableType ==
  ASSUME NEW t \in Seq(SessionFile)
  PROVE  /\ Len(t) \in Nat
         /\ \A i \in Positions(t) : t[i] \in SessionFile /\ t[i].id \in Nat
  <1>1. Len(t) \in Nat /\ \A i \in Positions(t) : t[i] \in SessionFile
    BY LenProperties, ElementOfSeq DEF Positions
  <1>2. ASSUME NEW e \in SessionFile
        PROVE  e.id \in Nat
    <2>1. e.id \in Ids \/ e.id = 0
      BY DEF SessionFile, KNullFileId
    <2> QED
      BY <2>1, IdsAreNumbers
  <1> QED
    BY <1>1, <1>2

LEMMA RoundSearches ==
  ASSUME NEW t \in Seq(SessionFile), NEW id \in Nat, NEW f,
         NEW i \in (0..Len(t)) \X (0..Len(t)), i[1] < i[2],
         \A j \in (0..Len(t)) \X (0..Len(t)) :
           j[1] <= j[2] /\ j[2] - j[1] < i[2] - i[1] => SearchedIn(t, id, j, f[j])
  PROVE  SearchedIn(t, id, i, Round(t, id, f, i))
  <1> DEFINE l == i[1]
             r == i[2]
             m == (l + r) \div 2
  <1>1. m \in Nat /\ l <= m /\ m < r /\ l \in Nat /\ r \in Nat /\ r <= Len(t)
    BY MiddleIsBetween, TableType
  <1> HIDE DEF m
  <1>2. m + 1 \in Positions(t) /\ t[m + 1].id \in Nat
    BY <1>1, TableType DEF Positions
  <1>3. CASE id = t[m + 1].id
    <2>1. Round(t, id, f, i) = [found |-> TRUE, at |-> m]
      BY <1>1, <1>3 DEF Round, m
    <2> QED
      BY <1>1, <1>3, <2>1 DEF SearchedIn
  <1>4. CASE id > t[m + 1].id
    <2>1. Round(t, id, f, i) = f[<<m + 1, r>>]
      BY <1>1, <1>2, <1>4 DEF Round, m
    <2>2. SearchedIn(t, id, <<m + 1, r>>, f[<<m + 1, r>>])
      BY <1>1, TableType
    <2>3. ASSUME SortedById(t), NEW j \in (l + 1)..(m + 1)
          PROVE  t[j].id < id
      <3>1. j \in Positions(t) /\ (j = m + 1 \/ j < m + 1) /\ t[j].id \in Nat
        BY <1>1, TableType DEF Positions
      <3> QED
        BY <1>1, <1>2, <1>4, <2>3, <3>1 DEF SortedById
    <2> DEFINE res == f[<<m + 1, r>>]
    <2>4. /\ res.found \in BOOLEAN /\ res.at \in (m + 1)..r
          /\ res.found => res.at < r /\ t[res.at + 1].id = id
          /\ ~res.found /\ SortedById(t) =>
               /\ \A j \in ((m + 1) + 1)..res.at : t[j].id < id
               /\ \A j \in (res.at + 1)..r : id < t[j].id
      BY <1>1, <2>2 DEF SearchedIn
    <2> HIDE DEF res
    <2>5. \A j \in (l + 1)..res.at : j \in (l + 1)..(m + 1) \/ j \in ((m + 1) + 1)..res.at
      BY <1>1, <2>4
    <2> HIDE DEF l, r
    <2>6. SearchedIn(t, id, i, res)
      BY <1>1, <2>3, <2>4, <2>5 DEF SearchedIn, l, r
    <2> QED
      BY <2>1, <2>6 DEF res
  <1>5. CASE id < t[m + 1].id
    <2>1. Round(t, id, f, i) = f[<<l, m>>]
      BY <1>1, <1>2, <1>5 DEF Round, m
    <2>2. SearchedIn(t, id, <<l, m>>, f[<<l, m>>])
      BY <1>1, TableType
    <2>3. ASSUME SortedById(t), NEW j \in (m + 1)..r
          PROVE  id < t[j].id
      <3>1. j \in Positions(t) /\ (j = m + 1 \/ m + 1 < j) /\ t[j].id \in Nat
        BY <1>1, TableType DEF Positions
      <3> QED
        BY <1>1, <1>2, <1>5, <2>3, <3>1 DEF SortedById
    <2> DEFINE res == f[<<l, m>>]
    <2>4. /\ res.found \in BOOLEAN /\ res.at \in l..m
          /\ res.found => res.at < m /\ t[res.at + 1].id = id
          /\ ~res.found /\ SortedById(t) =>
               /\ \A j \in (l + 1)..res.at : t[j].id < id
               /\ \A j \in (res.at + 1)..m : id < t[j].id
      BY <1>1, <2>2 DEF SearchedIn
    <2> HIDE DEF res
    <2>5. \A j \in (res.at + 1)..r : j \in (m + 1)..r \/ j \in (res.at + 1)..m
      BY <1>1, <2>4
    <2> HIDE DEF l, r
    <2>6. SearchedIn(t, id, i, res)
      BY <1>1, <2>3, <2>4, <2>5 DEF SearchedIn, l, r
    <2> QED
      BY <2>1, <2>6 DEF res
  <1> QED
    BY <1>2, <1>3, <1>4, <1>5

\* The binary search stops at a place of the table; what it finds has the id;
\* in a sorted table without the id it stops where the id belongs.
LEMMA SearchResult ==
  ASSUME NEW t \in Seq(SessionFile), NEW id \in Nat
  PROVE  SearchedIn(t, id, <<0, Len(t)>>, BinarySearch(t, id))
  <1> DEFINE D == (0..Len(t)) \X (0..Len(t))
  <1>0. Len(t) \in Nat
    BY TableType
  <1>1. PICK f : f = [i \in D |-> Round(t, id, f, i)] /\ BinarySearch(t, id) = f[<<0, Len(t)>>]
    BY <1>0, SearchByRounds
  <1> DEFINE U == {k \in Nat : \E i \in D : /\ i[1] <= i[2] /\ i[2] - i[1] = k
                                            /\ ~SearchedIn(t, id, i, f[i])}
  <1>2. U = {}
    <2>1. U # {} => \E k \in U : \A j \in U : ~(j < k)
      BY LeastNatural
    <2>2. ASSUME NEW k \in U, \A j \in U : ~(j < k)
          PROVE  FALSE
      <3>1. PICK i \in D : i[1] <= i[2] /\ i[2] - i[1] = k /\ ~SearchedIn(t, id, i, f[i])
        OBVIOUS
      <3>2. ASSUME NEW j \in D, j[1] <= j[2], j[2] - j[1] < i[2] - i[1]
            PROVE  SearchedIn(t, id, j, f[j])
        <4>1. j[2] - j[1] \in Nat /\ j[2] - j[1] < k
          BY <3>1, <3>2
        <4>2. j[2] - j[1] \notin U
          BY <2>2, <4>1
        <4> QED
          BY <3>2, <4>1, <4>2
      <3>3. f[i] = Round(t, id, f, i)
        BY <1>1
      <3>4. CASE i[1] < i[2]
        BY <3>1, <3>2, <3>3, <3>4, RoundSearches
      <3>5. CASE i[1] = i[2]
        <4>1. f[i] = [found |-> FALSE, at |-> i[2]]
          BY <3>3, <3>5 DEF Round
        <4>2. SearchedIn(t, id, i, f[i])
          BY <3>5, <4>1 DEF SearchedIn
        <4> QED
          BY <3>1, <4>2
      <3> QED
        BY <3>1, <3>4, <3>5
    <2> QED
      BY <2>1, <2>2
  <1>3. <<0, Len(t)>> \in D /\ Len(t) - 0 \in Nat
    BY <1>0
  <1> QED
    BY <1>1, <1>2, <1>3

\* What a lookup returns, if anything, is an entry of the table with the id,
\* whatever the order of the table (CAgnSessionFileManager::FindL).
THEOREM FindSound ==
  ASSUME NEW t \in Seq(SessionFile), NEW id \in Nat
  PROVE  /\ FindL(t, id) \in 0..Len(t)
         /\ FindL(t, id) # 0 => FindL(t, id) \in Positions(t) /\ t[FindL(t, id)].id = id
  BY SearchResult, TableType DEF SearchedIn, FindL, Positions

\* A lookup finds every entry of a sorted table, of any length
\* (CAgnSessionFileManager::FindL, CompareFileId).
THEOREM FindComplete ==
  ASSUME NEW t \in Seq(SessionFile), SortedById(t), NEW i \in Positions(t)
  PROVE  FindL(t, t[i].id) = i
  <1> DEFINE id == t[i].id
             res == BinarySearch(t, id)
             k == res.at + 1
  <1>1. id \in Nat /\ Len(t) \in Nat
    BY TableType
  <1>2. SearchedIn(t, id, <<0, Len(t)>>, res)
    BY <1>1, SearchResult
  <1>3. CASE ~res.found
    <2>1. /\ res.at \in 0..Len(t)
          /\ \A j \in (0 + 1)..res.at : t[j].id < id
          /\ \A j \in (res.at + 1)..Len(t) : id < t[j].id
      BY <1>2, <1>3 DEF SearchedIn
    <2>2. i \in (0 + 1)..res.at \/ i \in (res.at + 1)..Len(t)
      BY <1>1, <2>1 DEF Positions
    <2>3. id < id
      BY <2>1, <2>2
    <2> QED
      BY <1>1, <2>3
  <1>4. CASE res.found
    <2>1. k \in Positions(t) /\ t[k].id = id
      BY <1>1, <1>2, <1>4 DEF SearchedIn, Positions
    <2> HIDE DEF k
    <2>2. ~(k < i) /\ ~(i < k)
      BY <1>1, <2>1 DEF SortedById
    <2>3. k = i
      BY <1>1, <2>1, <2>2 DEF Positions
    <2> QED
      BY <1>4, <2>3 DEF FindL, k
  <1>5. res.found \in BOOLEAN
    BY <1>2 DEF SearchedIn
  <1> QED
    BY <1>3, <1>4, <1>5

-----------------------------------------------------------------------------
(* What the operations leave in a table.                                   *)

\* A table has one entry of a client.
Table(t) ==
  /\ t \in Seq(SessionFile)
  /\ \A i, j \in Positions(t) : t[i].client = t[j].client => i = j
\* A sorted table nobody watches the calendar files in.
Orderly(t) == SortedById(t) /\ \A i \in Positions(t) : ~t[i].watch
\* Client c has the calendar with this id open.
Has(t, c, id) == \E i \in Positions(t) : t[i].client = c /\ t[i].id = id
\* The ids of the entries that were told of a start last.
ToldIds(t) == {t[i].id : i \in {j \in Positions(t) : t[j].told}}

LEMMA EntryType ==
  ASSUME NEW t, Table(t), NEW i \in Positions(t)
  PROVE  t[i] \in SessionFile
  BY TableType DEF Table

LEMMA GetFinds ==
  ASSUME NEW t, Table(t), NEW c
  PROVE  LET g == GetSessionFile(t, c) IN
         \/ g = 0 /\ \A i \in Positions(t) : t[i].client # c
         \/ g # 0 /\ g \in Positions(t) /\ t[g].client = c
  <1>1. CASE \E i \in Positions(t) : t[i].client = c
    <2>1. PICK i \in Positions(t) : t[i].client = c
      BY <1>1
    <2>2. \A j \in 1..(i - 1) : j \in Positions(t) /\ j # i
      BY <2>1, TableType DEF Positions, Table
    <2>3. \A j \in 1..(i - 1) : t[j].client # c
      BY <2>1, <2>2 DEF Table
    <2>4. GetSessionFile(t, c) \in Positions(t) /\ t[GetSessionFile(t, c)].client = c
      BY <1>1, <2>1, <2>3 DEF GetSessionFile
    <2> QED
      BY <2>4, TableType DEF Positions, Table
  <1>2. CASE ~\E i \in Positions(t) : t[i].client = c
    BY <1>2 DEF GetSessionFile
  <1> QED
    BY <1>1, <1>2

LEMMA Removed ==
  ASSUME NEW S, NEW t \in Seq(S), NEW g \in Positions(t)
  PROVE  /\ RemoveAt(t, g) \in Seq(S)
         /\ Len(RemoveAt(t, g)) = Len(t) - 1
         /\ \A i \in 1..(Len(t) - 1) :
              RemoveAt(t, g)[i] = IF i < g THEN t[i] ELSE t[i + 1]
  <1>1. /\ Len(t) \in Nat /\ g \in 1..Len(t)
        /\ \A i \in 1..Len(t) : t[i] \in S
    BY LenProperties, ElementOfSeq DEF Positions
  <1> DEFINE a == SubSeq(t, 1, g - 1)
             b == SubSeq(t, g + 1, Len(t))
  <1>2. /\ a \in Seq(S) /\ Len(a) = g - 1
        /\ \A i \in 1..(g - 1) : a[i] = t[i]
    <2>1. /\ a \in Seq(S) /\ Len(a) = IF 1 <= g - 1 THEN g - 1 - 1 + 1 ELSE 0
          /\ \A i \in 1..(g - 1 - 1 + 1) : a[i] = t[1 + i - 1]
      BY <1>1, SubSeqProperties
    <2> QED
      BY <1>1, <2>1
  <1>3. /\ b \in Seq(S) /\ Len(b) = Len(t) - g
        /\ \A i \in 1..(Len(t) - g) : b[i] = t[g + i]
    <2>1. /\ b \in Seq(S)
          /\ Len(b) = IF g + 1 <= Len(t) THEN Len(t) - (g + 1) + 1 ELSE 0
          /\ \A i \in 1..(Len(t) - (g + 1) + 1) : b[i] = t[(g + 1) + i - 1]
      BY <1>1, SubSeqProperties
    <2> QED
      BY <1>1, <2>1
  <1> HIDE DEF a, b
  <1>4. /\ a \o b \in Seq(S) /\ Len(a \o b) = Len(t) - 1
        /\ \A i \in 1..(Len(a) + Len(b)) :
             (a \o b)[i] = IF i <= Len(a) THEN a[i] ELSE b[i - Len(a)]
    BY <1>1, <1>2, <1>3, ConcatProperties
  <1>5. ASSUME NEW i \in 1..(Len(t) - 1)
        PROVE  (a \o b)[i] = IF i < g THEN t[i] ELSE t[i + 1]
    <2>1. CASE i < g
      BY <1>1, <1>2, <1>3, <1>4, <2>1
    <2>2. CASE ~(i < g)
      <3>1. i - Len(a) \in 1..(Len(t) - g) /\ ~(i <= Len(a)) /\ g + (i - Len(a)) = i + 1
        BY <1>1, <1>2, <2>2
      <3>2. (a \o b)[i] = b[i - Len(a)]
        BY <1>1, <1>2, <1>3, <1>4, <3>1
      <3> QED
        BY <1>3, <2>2, <3>1, <3>2
    <2> QED
      BY <2>1, <2>2
  <1> QED
    BY <1>4, <1>5 DEF RemoveAt, a, b

LEMMA Inserted ==
  ASSUME NEW S, NEW t \in Seq(S), NEW g \in 1..(Len(t) + 1), NEW e \in S
  PROVE  /\ InsertAt(t, g, e) \in Seq(S)
         /\ Len(InsertAt(t, g, e)) = Len(t) + 1
         /\ \A i \in 1..(Len(t) + 1) :
              InsertAt(t, g, e)[i] = IF i < g THEN t[i] ELSE IF i = g THEN e ELSE t[i - 1]
  <1>1. /\ Len(t) \in Nat
        /\ \A i \in 1..Len(t) : t[i] \in S
    BY LenProperties, ElementOfSeq
  <1> DEFINE a == SubSeq(t, 1, g - 1)
             b == SubSeq(t, g, Len(t))
             ae == a \o <<e>>
  <1>2. /\ a \in Seq(S) /\ Len(a) = g - 1
        /\ \A i \in 1..(g - 1) : a[i] = t[i]
    <2>1. /\ a \in Seq(S) /\ Len(a) = IF 1 <= g - 1 THEN g - 1 - 1 + 1 ELSE 0
          /\ \A i \in 1..(g - 1 - 1 + 1) : a[i] = t[1 + i - 1]
      BY <1>1, SubSeqProperties
    <2> QED
      BY <1>1, <2>1
  <1>3. /\ b \in Seq(S) /\ Len(b) = Len(t) - g + 1
        /\ \A i \in 1..(Len(t) - g + 1) : b[i] = t[g + i - 1]
    <2>1. /\ b \in Seq(S)
          /\ Len(b) = IF g <= Len(t) THEN Len(t) - g + 1 ELSE 0
          /\ \A i \in 1..(Len(t) - g + 1) : b[i] = t[g + i - 1]
      BY <1>1, SubSeqProperties
    <2> QED
      BY <1>1, <2>1
  <1>4. <<e>> \in Seq(S) /\ Len(<<e>>) = 1 /\ <<e>>[1] = e
    OBVIOUS
  <1> HIDE DEF a, b
  <1>5. /\ ae \in Seq(S) /\ Len(ae) = g
        /\ \A i \in 1..g : ae[i] = IF i < g THEN t[i] ELSE e
    <2>1. /\ ae \in Seq(S) /\ Len(ae) = Len(a) + 1
          /\ \A i \in 1..(Len(a) + 1) :
               ae[i] = IF i <= Len(a) THEN a[i] ELSE <<e>>[i - Len(a)]
      BY <1>2, <1>4, ConcatProperties
    <2> HIDE DEF ae
    <2> QED
      BY <1>1, <1>2, <1>4, <2>1
  <1> HIDE DEF ae
  <1>6. /\ ae \o b \in Seq(S) /\ Len(ae \o b) = Len(t) + 1
        /\ \A i \in 1..(Len(ae) + Len(b)) :
             (ae \o b)[i] = IF i <= Len(ae) THEN ae[i] ELSE b[i - Len(ae)]
    <2>1. /\ ae \o b \in Seq(S) /\ Len(ae \o b) = Len(ae) + Len(b)
          /\ \A i \in 1..(Len(ae) + Len(b)) :
               (ae \o b)[i] = IF i <= Len(ae) THEN ae[i] ELSE b[i - Len(ae)]
      BY <1>3, <1>5, ConcatProperties
    <2>2. Len(ae) + Len(b) = Len(t) + 1
      BY <1>1, <1>3, <1>5
    <2> QED
      BY <2>1, <2>2
  <1>7. \A i \in 1..(Len(t) + 1) :
          (ae \o b)[i] = IF i < g THEN t[i] ELSE IF i = g THEN e ELSE t[i - 1]
    BY <1>1, <1>3, <1>5, <1>6
  <1> QED
    BY <1>6, <1>7 DEF InsertAt, ae, a, b

LEMMA DeleteTable ==
  ASSUME NEW t, Table(t), NEW c, NEW d, d = DeleteSessionFile(t, c)
  PROVE  /\ Table(d)
         /\ \A k, id : Has(d, k, id) <=> k # c /\ Has(t, k, id)
         /\ ToldIds(d) \subseteq ToldIds(t)
         /\ Orderly(t) => Orderly(d)
         /\ \A i \in Positions(d) : d[i].client # c
  <1> DEFINE g == GetSessionFile(t, c)
  <1>0. /\ t \in Seq(SessionFile) /\ Len(t) \in Nat
        /\ \A i, j \in Positions(t) : t[i].client = t[j].client => i = j
    BY TableType DEF Table
  <1>1. CASE g = 0
    <2>1. d = t /\ \A i \in Positions(t) : t[i].client # c
      BY <1>1, GetFinds DEF DeleteSessionFile
    <2> QED
      BY <2>1 DEF Has
  <1>2. CASE g # 0
    <2>1. g \in Positions(t) /\ t[g].client = c /\ d = RemoveAt(t, g)
      BY <1>2, GetFinds DEF DeleteSessionFile
    <2> HIDE DEF g
    <2>2. /\ d \in Seq(SessionFile) /\ Len(d) = Len(t) - 1
          /\ \A i \in 1..(Len(t) - 1) : d[i] = IF i < g THEN t[i] ELSE t[i + 1]
      BY <1>0, <2>1, Removed
    <2> DEFINE old(i) == IF i < g THEN i ELSE i + 1
    <2>3. ASSUME NEW i \in Positions(d)
          PROVE  old(i) \in Positions(t) /\ old(i) # g /\ d[i] = t[old(i)]
      BY <1>0, <2>1, <2>2 DEF Positions
    <2>4. ASSUME NEW j \in Positions(t), j # g
          PROVE  \E i \in Positions(d) : d[i] = t[j]
      <3>1. CASE j < g
        <4>1. j \in Positions(d) /\ d[j] = t[j]
          BY <1>0, <2>1, <2>2, <3>1 DEF Positions
        <4> QED
          BY <4>1
      <3>2. CASE g < j
        <4>1. j - 1 \in Positions(d) /\ d[j - 1] = t[j]
          BY <1>0, <2>1, <2>2, <3>2 DEF Positions
        <4> QED
          BY <4>1
      <3> QED
        BY <2>1, <2>4, <3>1, <3>2 DEF Positions
    <2>5. \A i, j \in Positions(d) : i # j => old(i) # old(j)
      BY <1>0, <2>1 DEF Positions
    <2>6. \A i, j \in Positions(d) : i < j => old(i) < old(j)
      BY <1>0, <2>1 DEF Positions
    <2> HIDE DEF old
    <2>7. \A j \in Positions(t) : t[j].client = c <=> j = g
      BY <1>0, <2>1
    <2>8. Table(d)
      BY <1>0, <2>2, <2>3, <2>5 DEF Table
    <2>9. \A k, id : Has(d, k, id) <=> k # c /\ Has(t, k, id)
      BY <2>3, <2>4, <2>7 DEF Has
    <2>10. ToldIds(d) \subseteq ToldIds(t)
      BY <2>3 DEF ToldIds
    <2>11. Orderly(t) => Orderly(d)
      BY <2>3, <2>6 DEF Orderly, SortedById
    <2>12. \A i \in Positions(d) : d[i].client # c
      BY <2>3, <2>7
    <2> QED
      BY <2>8, <2>9, <2>10, <2>11, <2>12
  <1> QED
    BY <1>1, <1>2

LEMMA AddTable ==
  ASSUME NEW t, Table(t), NEW c \in Clients, NEW id \in Ids, CanAddClient(t, id),
         \A i \in Positions(t) : t[i].client # c,
         NEW d, d = AddClient(t, c, id)
  PROVE  /\ Table(d)
         /\ \A k, x : Has(d, k, x) <=> Has(t, k, x) \/ (k = c /\ x = id)
         /\ ToldIds(d) \subseteq ToldIds(t)
         /\ Orderly(t) => Orderly(d)
  <1> DEFINE at == BinarySearch(t, id).at
             g == at + 1
             e == NewSessionFile(c, id)
  <1>0. /\ t \in Seq(SessionFile) /\ Len(t) \in Nat /\ id \in Nat
        /\ \A i, j \in Positions(t) : t[i].client = t[j].client => i = j
        /\ \A i \in Positions(t) : t[i].id \in Nat
    BY TableType, IdsAreNumbers DEF Table
  <1>1. /\ at \in 0..Len(t)
        /\ SortedById(t) =>
             /\ \A j \in (0 + 1)..at : t[j].id < id
             /\ \A j \in (at + 1)..Len(t) : id < t[j].id
    <2>1. SearchedIn(t, id, <<0, Len(t)>>, BinarySearch(t, id))
      BY <1>0, SearchResult
    <2> QED
      BY <2>1 DEF SearchedIn, CanAddClient
  <1>2. /\ e \in SessionFile /\ e.client = c /\ e.id = id /\ ~e.told /\ ~e.watch
    BY DEF NewSessionFile, SessionFile
  <1>3. d = InsertAt(t, g, e) /\ g \in 1..(Len(t) + 1)
    BY <1>0, <1>1 DEF AddClient
  <1> HIDE DEF e, at
  <1>4. /\ d \in Seq(SessionFile) /\ Len(d) = Len(t) + 1
        /\ \A i \in 1..(Len(t) + 1) :
             d[i] = IF i < g THEN t[i] ELSE IF i = g THEN e ELSE t[i - 1]
    <2> HIDE DEF g
    <2>1. t \in Seq(SessionFile) /\ g \in 1..(Len(t) + 1) /\ e \in SessionFile
      BY <1>0, <1>2, <1>3
    <2>2. /\ InsertAt(t, g, e) \in Seq(SessionFile)
          /\ Len(InsertAt(t, g, e)) = Len(t) + 1
          /\ \A i \in 1..(Len(t) + 1) :
               InsertAt(t, g, e)[i] = IF i < g THEN t[i] ELSE IF i = g THEN e ELSE t[i - 1]
      BY <2>1, Inserted
    <2> QED
      BY <1>3, <2>2
  <1>5. g \in Positions(d) /\ d[g] = e /\ g \in Nat
    BY <1>0, <1>1, <1>4 DEF Positions
  <1> DEFINE old(i) == IF i < g THEN i ELSE i - 1
             new(j) == IF j < g THEN j ELSE j + 1
  <1>6. \A i \in Positions(d) : i # g => old(i) \in Positions(t) /\ d[i] = t[old(i)]
    BY <1>0, <1>1, <1>4 DEF Positions
  <1>7. \A j \in Positions(t) : new(j) \in Positions(d) /\ new(j) # g /\ d[new(j)] = t[j]
    BY <1>0, <1>1, <1>4 DEF Positions
  <1>8. \A i, j \in Positions(d) : i # g /\ j # g /\ i # j => old(i) # old(j)
    BY <1>0, <1>1, <1>4 DEF Positions
  <1>9. \A i, j \in Positions(d) : i # g /\ j # g /\ i < j => old(i) < old(j)
    BY <1>0, <1>1, <1>4 DEF Positions
  <1>10. Table(d)
    <2>1. ASSUME NEW i \in Positions(d), NEW j \in Positions(d), i # j
          PROVE  d[i].client # d[j].client
      BY <1>0, <1>2, <1>5, <1>6, <1>8, <2>1
    <2> QED
      BY <1>4, <2>1 DEF Table
  <1>11. ASSUME NEW k, NEW x
         PROVE  Has(d, k, x) <=> Has(t, k, x) \/ (k = c /\ x = id)
    BY <1>2, <1>5, <1>6, <1>7 DEF Has
  <1>12. ToldIds(d) \subseteq ToldIds(t)
    BY <1>2, <1>5, <1>6 DEF ToldIds
  <1>13. ASSUME Orderly(t)
         PROVE  Orderly(d)
    <2>1. ASSUME NEW i \in Positions(d), NEW j \in Positions(d), i < j
          PROVE  d[i].id < d[j].id
      <3>1. CASE i # g /\ j # g
        BY <1>6, <1>9, <1>13, <2>1, <3>1 DEF Orderly, SortedById
      <3>2. CASE i = g
        <4>1. old(j) \in (at + 1)..Len(t) /\ j # g
          BY <1>0, <1>1, <1>4, <2>1, <3>2 DEF Positions
        <4> QED
          BY <1>1, <1>2, <1>5, <1>6, <1>13, <3>2, <4>1 DEF Orderly
      <3>3. CASE j = g
        <4>1. old(i) \in (0 + 1)..at /\ i # g
          BY <1>0, <1>1, <1>4, <2>1, <3>3 DEF Positions
        <4> QED
          BY <1>1, <1>2, <1>5, <1>6, <1>13, <3>3, <4>1 DEF Orderly
      <3> QED
        BY <3>1, <3>2, <3>3
    <2>2. \A i \in Positions(d) : ~d[i].watch
      BY <1>2, <1>5, <1>6, <1>13 DEF Orderly
    <2> QED
      BY <2>1, <2>2 DEF Orderly, SortedById
  <1> QED
    BY <1>10, <1>11, <1>12, <1>13

\* A table with one entry changed.
LEMMA Updated ==
  ASSUME NEW t, Table(t), NEW i \in Positions(t),
         NEW e \in SessionFile, e.client = t[i].client, NEW d, d = ReplaceAt(t, i, e)
  PROVE  /\ Table(d) /\ Len(d) = Len(t)
         /\ \A j \in Positions(t) : d[j] = IF j = i THEN e ELSE t[j]
  <1>1. /\ d \in Seq(SessionFile) /\ Len(d) = Len(t)
        /\ \A j \in 1..Len(t) : d[j] = IF j = i THEN e ELSE t[j]
    BY ExceptSeq DEF Table, Positions, ReplaceAt
  <1> QED
    BY <1>1 DEF Table, Positions

\* A table whose entries were told of other events.
LEMMA Retold ==
  ASSUME NEW t, Table(t), NEW d \in Seq(SessionFile), Len(d) = Len(t),
         \A i \in Positions(t) :
           d[i].client = t[i].client /\ d[i].id = t[i].id /\ d[i].watch = t[i].watch
  PROVE  /\ Table(d)
         /\ \A k, id : Has(d, k, id) <=> Has(t, k, id)
         /\ Orderly(t) => Orderly(d)
  <1>1. Positions(d) = Positions(t)
    BY DEF Positions
  <1> QED
    BY <1>1 DEF Table, Has, Orderly, SortedById

LEMMA WatchTable ==
  ASSUME NEW t, Table(t), NEW c \in Clients, NEW d, d = Watch(t, c)
  PROVE  /\ Table(d)
         /\ \A k : \A id \in Ids : Has(d, k, id) <=> Has(t, k, id)
         /\ ToldIds(d) \subseteq ToldIds(t)
  <1> DEFINE g == GetSessionFile(t, c)
  <1>1. CASE g = 0
    <2> DEFINE e == [NewSessionFile(c, KNullFileId) EXCEPT !.watch = TRUE]
    <2>1. d = Append(t, e) /\ \A i \in Positions(t) : t[i].client # c
      BY <1>1, GetFinds DEF Watch
    <2>2. e \in SessionFile /\ e.client = c /\ e.id = KNullFileId /\ ~e.told
      BY DEF NewSessionFile, SessionFile
    <2> HIDE DEF e
    <2>3. t \in Seq(SessionFile) /\ Len(t) \in Nat
      BY TableType DEF Table
    <2>4. /\ d \in Seq(SessionFile) /\ Len(d) = Len(t) + 1
          /\ \A i \in 1..Len(t) : d[i] = t[i]
          /\ d[Len(t) + 1] = e
      BY <2>1, <2>2, <2>3
    <2>5. \A i \in Positions(d) : i \in Positions(t) \/ i = Len(t) + 1
      BY <2>3, <2>4 DEF Positions
    <2>6. /\ \A i \in Positions(t) : i \in Positions(d) /\ d[i] = t[i]
          /\ Len(t) + 1 \in Positions(d)
      BY <2>3, <2>4 DEF Positions
    <2>7. Table(d)
      BY <2>1, <2>2, <2>4, <2>5, <2>6 DEF Table
    <2>8. \A k : \A id \in Ids : Has(d, k, id) <=> Has(t, k, id)
      BY <2>2, <2>4, <2>5, <2>6, IdsAreNumbers DEF Has
    <2>9. ToldIds(d) \subseteq ToldIds(t)
      BY <2>2, <2>4, <2>5, <2>6 DEF ToldIds
    <2> QED
      BY <2>7, <2>8, <2>9
  <1>2. CASE g # 0
    <2> DEFINE e == [t[g] EXCEPT !.watch = TRUE]
    <2>1. g \in Positions(t) /\ t[g].client = c
      BY <1>2, GetFinds
    <2>2. d = ReplaceAt(t, g, e)
      BY <1>2 DEF ReplaceAt, Watch
    <2>3. /\ e \in SessionFile /\ e.client = t[g].client
          /\ e.id = t[g].id /\ e.told = t[g].told
      BY <2>1, EntryType DEF SessionFile
    <2> HIDE DEF e, g
    <2>4. /\ Table(d) /\ Len(d) = Len(t)
          /\ \A j \in Positions(t) : d[j] = IF j = g THEN e ELSE t[j]
      BY <2>1, <2>2, <2>3, Updated
    <2>5. Positions(d) = Positions(t)
      BY <2>4 DEF Positions
    <2> QED
      BY <2>3, <2>4, <2>5 DEF Has, ToldIds
  <1> QED
    BY <1>1, <1>2

LEMMA UnwatchTable ==
  ASSUME NEW t, Table(t), NEW c, NEW d, d = Unwatch(t, c)
  PROVE  /\ Table(d)
         /\ \A k, id : Has(d, k, id) <=> Has(t, k, id)
         /\ ToldIds(d) \subseteq ToldIds(t)
         /\ Orderly(t) => Orderly(d)
  <1> DEFINE g == GetSessionFile(t, c)
  <1>1. CASE g = 0
    BY <1>1 DEF Unwatch
  <1>2. CASE g # 0
    <2> DEFINE e == [t[g] EXCEPT !.watch = FALSE]
    <2>1. g \in Positions(t) /\ t[g].client = c
      BY <1>2, GetFinds
    <2>2. d = ReplaceAt(t, g, e)
      BY <1>2 DEF ReplaceAt, Unwatch
    <2>3. /\ e \in SessionFile /\ e.client = t[g].client
          /\ e.id = t[g].id /\ e.told = t[g].told /\ ~e.watch
      BY <2>1, EntryType DEF SessionFile
    <2> HIDE DEF e, g
    <2>4. /\ Table(d) /\ Len(d) = Len(t)
          /\ \A j \in Positions(t) : d[j] = IF j = g THEN e ELSE t[j]
      BY <2>1, <2>2, <2>3, Updated
    <2>5. Positions(d) = Positions(t)
      BY <2>4 DEF Positions
    <2>6. Orderly(t) => Orderly(d)
      BY <2>3, <2>4, <2>5 DEF Orderly, SortedById
    <2> QED
      BY <2>3, <2>4, <2>5, <2>6 DEF Has, ToldIds
  <1> QED
    BY <1>1, <1>2

LEMMA DeleteUnlessWatchingTable ==
  ASSUME NEW t, Table(t), NEW c, NEW d, d = DeleteUnlessWatching(t, c)
  PROVE  /\ Table(d)
         /\ \A k : \A id \in Ids : Has(d, k, id) <=> k # c /\ Has(t, k, id)
         /\ ToldIds(d) \subseteq ToldIds(t) \cup {KNullFileId}
         /\ Orderly(t) => Orderly(d)
  <1> DEFINE g == GetSessionFile(t, c)
  <1>1. CASE d = DeleteSessionFile(t, c)
    BY <1>1, DeleteTable
  <1>2. CASE g # 0 /\ t[g].watch /\ d = [t EXCEPT ![g].id = KNullFileId]
    <2> DEFINE e == [t[g] EXCEPT !.id = KNullFileId]
    <2>1. g \in Positions(t) /\ t[g].client = c
      BY <1>2, GetFinds
    <2>2. d = ReplaceAt(t, g, e)
      BY <1>2 DEF ReplaceAt
    <2>3. e \in SessionFile /\ e.client = t[g].client /\ e.id = KNullFileId
      BY <2>1, EntryType DEF SessionFile
    <2> HIDE DEF e, g
    <2>4. /\ Table(d) /\ Len(d) = Len(t)
          /\ \A j \in Positions(t) : d[j] = IF j = g THEN e ELSE t[j]
      BY <2>1, <2>2, <2>3, Updated
    <2>5. Positions(d) = Positions(t)
      BY <2>4 DEF Positions
    <2>6. \A j \in Positions(t) : t[j].client = c <=> j = g
      BY <2>1 DEF Table
    <2>7. \A k : \A id \in Ids : Has(d, k, id) <=> k # c /\ Has(t, k, id)
      BY <2>3, <2>4, <2>5, <2>6, IdsAreNumbers DEF Has
    <2>8. ToldIds(d) \subseteq ToldIds(t) \cup {KNullFileId}
      BY <2>3, <2>4, <2>5 DEF ToldIds
    <2> QED
      BY <1>2, <2>1, <2>4, <2>7, <2>8 DEF Orderly, g
  <1> QED
    BY <1>1, <1>2 DEF DeleteUnlessWatching

\* The end of a backup or restore of the calendar with this id.
AddEnd(t, id) == AddChange(t, id, FALSE)

LEMMA AddEndTable ==
  ASSUME NEW t, Table(t), NEW id \in Nat, NEW d, d = AddEnd(t, id)
  PROVE  /\ d \in Seq(SessionFile) /\ Len(d) = Len(t)
         /\ \A i \in Positions(t) :
              /\ d[i].client = t[i].client /\ d[i].id = t[i].id /\ d[i].watch = t[i].watch
              /\ d[i].told <=> t[i].told /\ i # FindL(t, id)
  <1> DEFINE g == FindL(t, id)
  <1>1. CASE g = 0
    <2>1. d = t /\ \A i \in Positions(t) : i # g
      BY <1>1, TableType DEF AddEnd, AddChange, Table, Positions
    <2> HIDE DEF g
    <2> QED
      BY <2>1 DEF Table, g
  <1>2. CASE g # 0
    <2> DEFINE e == [t[g] EXCEPT !.told = FALSE]
    <2>1. g \in Positions(t)
      BY <1>2, FindSound DEF Table
    <2>2. d = ReplaceAt(t, g, e)
      BY <1>2 DEF ReplaceAt, AddEnd, AddChange
    <2>3. /\ e \in SessionFile /\ e.client = t[g].client
          /\ e.id = t[g].id /\ ~e.told /\ e.watch = t[g].watch
      BY <2>1, EntryType DEF SessionFile
    <2> HIDE DEF e, g
    <2>4. /\ Table(d) /\ Len(d) = Len(t)
          /\ \A j \in Positions(t) : d[j] = IF j = g THEN e ELSE t[j]
      BY <2>1, <2>2, <2>3, Updated
    <2> QED
      BY <2>3, <2>4 DEF Table, g
  <1> QED
    BY <1>1, <1>2

LEMMA ReSetModelTable ==
  ASSUME NEW t, Table(t), NEW old \in Nat, NEW new \in Ids
  PROVE  LET d == ReSetModel(t, old, new) IN
         /\ Table(d) /\ Len(d) = Len(t)
         /\ \A i \in Positions(t) :
              /\ d[i].client = t[i].client /\ d[i].watch = t[i].watch
              /\ d[i].id = IF i = FindL(t, old) THEN new ELSE t[i].id
              /\ d[i].told => t[i].told
              /\ i = FindL(t, old) /\ SortedById(d) => ~d[i].told
  <1> DEFINE d == ReSetModel(t, old, new)
  <1> SUFFICES /\ Table(d) /\ Len(d) = Len(t)
               /\ \A i \in Positions(t) :
                    /\ d[i].client = t[i].client /\ d[i].watch = t[i].watch
                    /\ d[i].id = IF i = FindL(t, old) THEN new ELSE t[i].id
                    /\ d[i].told => t[i].told
                    /\ i = FindL(t, old) /\ SortedById(d) => ~d[i].told
    OBVIOUS
  <1>0. d = ReSetModel(t, old, new)
    OBVIOUS
  <1> HIDE DEF d
  <1> DEFINE g == FindL(t, old)
  <1>1. CASE g = 0
    <2>1. d = t /\ \A i \in Positions(t) : i # g
      BY <1>0, <1>1, TableType DEF ReSetModel, Table, Positions
    <2> HIDE DEF g
    <2> QED
      BY <2>1 DEF g
  <1>2. CASE g # 0
    <2> DEFINE e == [t[g] EXCEPT !.id = new]
               u == ReplaceAt(t, g, e)
    <2>1. g \in Positions(t)
      BY <1>2, FindSound DEF Table
    <2>2. d = AddEnd(u, new)
      BY <1>0, <1>2 DEF ReSetModel, ReplaceAt, AddEnd
    <2>3. /\ e \in SessionFile /\ e.client = t[g].client
          /\ e.id = new /\ e.told = t[g].told /\ e.watch = t[g].watch
      BY <2>1, EntryType DEF SessionFile
    <2> HIDE DEF e, g
    <2>4. /\ Table(u) /\ Len(u) = Len(t)
          /\ \A j \in Positions(t) : u[j] = IF j = g THEN e ELSE t[j]
      BY <2>1, <2>3, Updated
    <2> HIDE DEF u
    <2>5. new \in Nat /\ Positions(u) = Positions(t)
      BY <2>4, IdsAreNumbers DEF Positions
    <2>6. /\ d \in Seq(SessionFile) /\ Len(d) = Len(u)
          /\ \A i \in Positions(u) :
               /\ d[i].client = u[i].client /\ d[i].id = u[i].id /\ d[i].watch = u[i].watch
               /\ d[i].told <=> u[i].told /\ i # FindL(u, new)
      BY <2>2, <2>4, <2>5, AddEndTable
    <2>7. Table(d)
      BY <2>4, <2>5, <2>6, Retold
    <2>8. Positions(d) = Positions(t)
      BY <2>4, <2>6 DEF Positions
    <2>9. ASSUME SortedById(d)
          PROVE  ~d[g].told
      <3>1. SortedById(u)
        BY <2>5, <2>6, <2>8, <2>9 DEF SortedById
      <3>2. FindL(u, new) = g
        BY <2>1, <2>3, <2>4, <2>5, <3>1, FindComplete DEF Table
      <3> QED
        BY <2>1, <2>5, <2>6, <3>2
    <2>10. \A i \in Positions(t) : d[i].told => t[i].told
      BY <2>1, <2>3, <2>4, <2>5, <2>6
    <2> QED
      BY <2>1, <2>3, <2>4, <2>5, <2>6, <2>7, <2>9, <2>10 DEF g
  <1> QED
    BY <1>1, <1>2

-----------------------------------------------------------------------------
\* A session s has as many entries of a calendar as clients with it.
LEMMA EntriesCount ==
  ASSUME NEW t, Table(t), NEW id, NEW s
  PROVE  LET E == {u \in {s} \X Clients : Has(t, u[2], id)} IN
         /\ IsFiniteSet(ClientsOf(t, id)) /\ IsFiniteSet(E)
         /\ Cardinality(E) = Cardinality(ClientsOf(t, id))
  <1> DEFINE E == {u \in {s} \X Clients : Has(t, u[2], id)}
             C == ClientsOf(t, id)
             f == [i \in C |-> <<s, t[i].client>>]
  <1>1. IsFiniteSet(C)
    <2>1. Len(t) \in Int /\ C \in SUBSET (1..Len(t))
      BY TableType DEF Table, ClientsOf, Positions
    <2> HIDE DEF C
    <2>2. 1 \in Int
      OBVIOUS
    <2>3. IsFiniteSet(1..Len(t))
      BY <2>1, <2>2, FS_Interval
    <2> QED
      BY <2>1, <2>3, FS_Subset
  <1>2. f \in Bijection(C, E)
    <2>1. \A i \in C : f[i] \in E
      BY EntryType DEF Has, ClientsOf, SessionFile
    <2>2. \A i, j \in C : f[i] = f[j] => i = j
      BY DEF Table, ClientsOf
    <2>3. \A u \in E : \E i \in C : f[i] = u
      BY DEF Has, ClientsOf
    <2> QED
      BY <2>1, <2>2, <2>3 DEF Bijection, Injection, Surjection, IsInjective
  <1>3. ExistsBijection(C, E)
    BY <1>2 DEF ExistsBijection
  <1> HIDE DEF C, E, f
  <1>4. IsFiniteSet(E) /\ Cardinality(E) = Cardinality(C)
    BY <1>1, <1>3, FS_Bijection
  <1> QED
    BY <1>1, <1>4 DEF C, E
=============================================================================
