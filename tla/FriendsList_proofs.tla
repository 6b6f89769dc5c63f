-------------------------- MODULE FriendsList_proofs --------------------------
(***************************************************************************)
(* FriendsList for every list of friends, way of searching and number of   *)
(* queued reloads.                                                         *)
(*                                                                         *)
(* First the table and the rows its data source holds: the two agree       *)
(* whenever no reload is queued and the table is laid out.  What the       *)
(* sections hold plays no part in it, so filterContentFor stays folded.    *)
(* Then what filterContentFor puts into the sections: its two loops are    *)
(* followed turn by turn, which takes induction over the turns.            *)
(***************************************************************************)
EXTENDS FriendsList, FiniteSetTheorems, SequenceTheorems, WellFoundedInduction, TLAPS

\* reloads counts, and the program stops at the first index out of range.
IInv == reloads \in Nat /\ TableIsCurrent

LEMMA InitIInv == Init => IInv
<1> SUFFICES ASSUME Init PROVE IInv
  OBVIOUS
<1>1. DOMAIN data.titles = {}
  BY DEF Init
<1>2. Agree(table, RowsOf(data))
  BY <1>1 DEF Init, Agree, RowsOf
<1> QED BY <1>2 DEF Init, IInv, TableIsCurrent

\* What a row of the table shows after it was filled again, when the two agree.
LEMMA RefillKeepsRows ==
  ASSUME Agree(table, RowsOf(data)), NEW s, NEW r, HasRow(table, s, r),
         table' = [table EXCEPT ![s][r] = data.dict[data.titles[s]][r]]
  PROVE  Agree(table', RowsOf(data)) /\ HasRow(RowsOf(data), s, r)
<1> DEFINE R == RowsOf(data)
<1>1. R[s][r] = data.dict[data.titles[s]][r] /\ HasRow(R, s, r)
  BY DEF RowsOf, HasRow, Agree
<1> HIDE DEF R
<1>2. table' = [table EXCEPT ![s] = [table[s] EXCEPT ![r] = R[s][r]]]
  BY <1>1
<1>3. DOMAIN table' = DOMAIN R
  BY <1>2 DEF Agree, R
<1>4. ASSUME NEW s1 \in DOMAIN table' PROVE DOMAIN table'[s1] = DOMAIN R[s1]
  BY <1>2, <1>4 DEF Agree, R
<1>5. ASSUME NEW s1 \in DOMAIN table', NEW r1 \in DOMAIN table'[s1]
      PROVE  table'[s1][r1] = R[s1][r1]
  BY <1>2, <1>5 DEF Agree, R
<1> QED BY <1>1, <1>3, <1>4, <1>5 DEF Agree, R

LEMMA StepIInv == IInv /\ [Next]_vars => IInv'
<1> SUFFICES ASSUME IInv, [Next]_vars PROVE IInv'
  OBVIOUS
<1> USE DEF IInv, TableIsCurrent
<1>1. ASSUME NEW rows \in Loads, Update(rows) PROVE IInv'
  BY <1>1 DEF Update
<1>2. ASSUME NEW t \in Texts \cup {Blank}, Search(t) PROVE IInv'
  BY <1>2 DEF Search
<1>3. CASE RunReload
  BY <1>3 DEF RunReload
<1>4. CASE Layout
  <2>1. Agree(table', RowsOf(data')) /\ UNCHANGED <<reloads, crashed>>
    BY <1>4 DEF Layout, Agree
  <2> QED BY <2>1
<1>5. ASSUME NEW s, NEW r, Show(s, r) PROVE IInv'
  <2>1. UNCHANGED <<data, dirty, reloads>> /\ ~crashed /\ ~dirty /\ HasRow(table, s, r)
    BY <1>5 DEF Show
  <2>2. CASE reloads > 0
    BY <2>1, <2>2
  <2>3. CASE reloads = 0
    <3>1. Agree(table, RowsOf(data))
      BY <2>1, <2>3
    <3>2. HasRow(RowsOf(data), s, r)
      BY <2>1, <3>1 DEF HasRow, Agree
    <3>3. table' = [table EXCEPT ![s][r] = data.dict[data.titles[s]][r]] /\ ~crashed'
      BY <1>5, <2>1, <3>2 DEF Show
    <3>4. Agree(table', RowsOf(data))
      BY <2>1, <3>1, <3>3, RefillKeepsRows
    <3> QED BY <2>1, <3>3, <3>4 DEF RowsOf
  <2> QED BY <2>2, <2>3
<1>6. ASSUME NEW s, NEW r, Tap(s, r) PROVE IInv'
  <2>1. UNCHANGED <<data, table, dirty, reloads>> /\ ~crashed /\ ~dirty /\ HasRow(table, s, r)
    BY <1>6 DEF Tap
  <2>2. CASE reloads > 0
    BY <2>1, <2>2
  <2>3. CASE reloads = 0
    <3>1. HasRow(RowsOf(data), s, r)
      BY <2>1, <2>3 DEF HasRow, Agree
    <3>2. ~crashed'
      BY <1>6, <2>1, <3>1 DEF Tap
    <3> QED BY <2>1, <3>2 DEF RowsOf, Agree
  <2> QED BY <2>2, <2>3
<1>7. CASE Back
  BY <1>7 DEF Back, RowsOf, Agree
<1>8. CASE UNCHANGED vars
  BY <1>8 DEF vars, RowsOf, Agree
<1> QED BY <1>1, <1>2, <1>3, <1>4, <1>5, <1>6, <1>7, <1>8 DEF Next

LEMMA Invariance == Spec => []IInv
<1> QED BY InitIInv, StepIInv, PTL DEF Spec

\* Unless a reload is queued, cellForRow and prepare(for:) find every row they are asked
\* for and the table shows what the data source holds (filterContentFor and the reload it
\* adds to the main queue).
THEOREM TableKeepsUp == Spec => []TableIsCurrent
<1>1. IInv => TableIsCurrent
  BY DEF IInv
<1> QED BY <1>1, Invariance, PTL

\* A tap opens the photos of the friend its row shows, unless a reload is queued.
THEOREM TapIsRight == Spec => TapOpensShownFriend
<1>1. ASSUME IInv, NEW p \in Paths, Tap(p[1], p[2]), reloads = 0
      PROVE  opened' = table[p[1]][p[2]]
  <2>1. Agree(table, RowsOf(data)) /\ HasRow(table, p[1], p[2])
    BY <1>1 DEF IInv, TableIsCurrent, Tap
  <2>2. HasRow(RowsOf(data), p[1], p[2])
    BY <2>1 DEF HasRow, Agree
  <2>3. opened' = RowsOf(data)[p[1]][p[2]]
    BY <1>1, <2>2 DEF Tap, Selected, RowsOf, HasRow
  <2> QED BY <2>1, <2>3 DEF Agree, HasRow
<1>2. IInv => (\A p \in Paths : Tap(p[1], p[2]) /\ reloads = 0 => opened' = table[p[1]][p[2]])
  BY <1>1
<1> QED BY <1>2, Invariance, PTL DEF TapOpensShownFriend
-----------------------------------------------------------------------------
(* Induction and loops.                                                    *)

\* The least number of a set, from the well-foundedness of < on the naturals.
LEMMA LeastNumber ==
  ASSUME NEW T, T \subseteq Nat, T # {}
  PROVE  \E x \in T : \A y \in T : x <= y
<1> DEFINE R == OpToRel(<, Nat)
<1>1. IsWellFoundedOn(R, Nat)
  BY NatLessThanWellFounded
<1>2. \A x, y \in Nat : <<y, x>> \in R <=> y < x
  BY DEF OpToRel
<1> HIDE DEF R
<1>3. PICK x \in T : \A y \in T : ~ (<<y, x>> \in R)
  BY <1>1, WFMin
<1>4. \A y \in T : ~(y < x)
  BY <1>2, <1>3
<1> QED BY <1>4

\* Induction, for the set of the numbers a fact holds of.
LEMMA Induction ==
  ASSUME NEW T, 0 \in T, \A n \in Nat : n \in T => n + 1 \in T
  PROVE  \A n \in Nat : n \in T
<1> SUFFICES ASSUME NEW m \in Nat, m \notin T PROVE FALSE
  OBVIOUS
<1> DEFINE U == Nat \ T
<1>1. U \subseteq Nat /\ U # {}
  OBVIOUS
<1> HIDE DEF U
<1>2. PICK x \in U : \A y \in U : x <= y
  BY <1>1, LeastNumber
<1> USE DEF U
<1>3. x # 0 /\ x - 1 \in Nat
  BY <1>2
<1>4. x - 1 \in T
  BY <1>2, <1>3
<1> QED BY <1>2, <1>3, <1>4

\* A loop that turns one member of S into another n times has its values after each turn.
Loop(f, S, first, n, turn) ==
  /\ f \in [0..n -> S]
  /\ f[0] = first /\ \A k \in 1..n : f[k] = turn[<<f[k - 1], k>>]

LEMMA LoopValues ==
  \A S, first, n, turn :
    first \in S /\ n \in Nat /\ turn \in [S \X (1..n) -> S] => \E f : Loop(f, S, first, n, turn)
<1> SUFFICES ASSUME NEW S, NEW first, NEW n, NEW turn,
                    first \in S, n \in Nat, turn \in [S \X (1..n) -> S]
             PROVE  \E f : Loop(f, S, first, n, turn)
  OBVIOUS
<1> DEFINE Upto(m, f) == /\ f \in [0..m -> S]
                         /\ f[0] = first /\ \A k \in 1..m : f[k] = turn[<<f[k - 1], k>>]
           T == {m \in Nat : m <= n => \E f : Upto(m, f)}
<1>1. 0 \in T
  <2>1. Upto(0, [k \in 0..0 |-> first])
    OBVIOUS
  <2> HIDE DEF Upto
  <2> QED BY <2>1
<1>2. ASSUME NEW m \in Nat, m \in T PROVE m + 1 \in T
  <2> SUFFICES ASSUME m + 1 <= n PROVE \E f : Upto(m + 1, f)
    OBVIOUS
  <2>1. PICK f : Upto(m, f)
    BY <1>2
  <2> DEFINE x == turn[<<f[m], m + 1>>]
             g == [k \in 0..m+1 |-> IF k <= m THEN f[k] ELSE x]
  <2>2. x \in S
    <3>1. f[m] \in S /\ m + 1 \in 1..n
      BY <2>1
    <3> QED BY <3>1
  <2>3. g \in [0..m+1 -> S] /\ g[0] = first
    <3>1. \A k \in 0..m+1 : k <= m => k \in 0..m
      OBVIOUS
    <3> HIDE DEF x
    <3> QED BY <2>1, <2>2, <3>1
  <2>4. ASSUME NEW k \in 1..m+1 PROVE g[k] = turn[<<g[k - 1], k>>]
    <3>1. CASE k <= m
      BY <2>1, <2>4, <3>1
    <3>2. CASE k = m + 1
      <4>1. g[k] = x /\ g[k - 1] = f[m]
        BY <3>2
      <4> QED BY <3>2, <4>1
    <3> QED BY <3>1, <3>2
  <2> HIDE DEF g
  <2>5. Upto(m + 1, g)
    BY <2>3, <2>4
  <2> HIDE DEF Upto
  <2> QED BY <2>5
<1> HIDE DEF T
<1>3. n \in T
  BY <1>1, <1>2, Induction
<1> QED BY <1>3 DEF T, Loop

-----------------------------------------------------------------------------
(* filterContentFor: what its loops leave.                                 *)

\* A friend added to the end of a list keeps it in the order of fs.
LEMMA AppendKeepsOrder ==
  ASSUME NEW fs \in Seq(Friends), NEW s \in Seq(Friends), NEW n \in 1..Len(fs),
         ToSet(s) \subseteq {fs[i] : i \in 1..n-1}, InOrderOf(s, fs)
  PROVE  /\ Append(s, fs[n]) \in Seq(Friends)
         /\ ToSet(Append(s, fs[n])) = ToSet(s) \cup {fs[n]}
         /\ InOrderOf(Append(s, fs[n]), fs)
<1> DEFINE e == Append(s, fs[n])
           m == Len(s)
<1>1. /\ m \in Nat /\ DOMAIN s = 1..m /\ DOMAIN fs = 1..Len(fs) /\ Len(fs) \in Nat
      /\ fs[n] \in Friends
  OBVIOUS
<1>2. /\ e \in Seq(Friends) /\ DOMAIN e = 1..m+1
      /\ \A i \in 1..m : e[i] = s[i]
      /\ e[m + 1] = fs[n]
  BY <1>1, AppendProperties
<1> HIDE DEF e, m
<1>3. ToSet(e) = ToSet(s) \cup {fs[n]}
  <2>1. \A i \in 1..m+1 : i \in 1..m \/ i = m + 1
    BY <1>1
  <2>2. 1..m \subseteq 1..m+1 /\ m + 1 \in 1..m+1
    BY <1>1
  <2> QED BY <1>1, <1>2, <2>1, <2>2 DEF ToSet
<1>4. InOrderOf(e, fs)
  <2> SUFFICES ASSUME NEW i \in 1..m+1, NEW j \in 1..m+1, i < j
               PROVE  \E a, b \in DOMAIN fs : a < b /\ fs[a] = e[i] /\ fs[b] = e[j]
    BY <1>2 DEF InOrderOf
  <2>1. i \in 1..m
    BY <1>1
  <2>2. CASE j \in 1..m
    <3>1. i \in DOMAIN s /\ j \in DOMAIN s
      BY <1>1, <2>1, <2>2
    <3>2. \E a, b \in DOMAIN fs : a < b /\ fs[a] = s[i] /\ fs[b] = s[j]
      BY <3>1 DEF InOrderOf
    <3>3. e[i] = s[i] /\ e[j] = s[j]
      BY <1>2, <2>1, <2>2
    <3> QED BY <3>2, <3>3
  <2>3. CASE j = m + 1
    <3>1. s[i] \in {fs[k] : k \in 1..n-1}
      BY <1>1, <2>1 DEF ToSet
    <3>2. PICK a \in 1..n-1 : s[i] = fs[a]
      BY <3>1
    <3>3. a \in DOMAIN fs /\ n \in DOMAIN fs /\ a < n
      BY <1>1
    <3> QED BY <1>2, <2>1, <2>3, <3>2, <3>3
  <2> QED BY <1>1, <2>2, <2>3
<1> QED BY <1>2, <1>3, <1>4 DEF e

\* friends.filter, as a loop.
LEMMA KeptLoop ==
  ASSUME NEW fs, fs \in Seq(Friends), NEW W
  PROVE  \E upTo : /\ upTo[0] = <<>>
                   /\ \A k \in 1..Len(fs) :
                        upTo[k] = IF fs[k] \in W THEN Append(upTo[k - 1], fs[k]) ELSE upTo[k - 1]
                   /\ Kept(fs, W) = upTo[Len(fs)]
<1> DEFINE n == Len(fs)
           S == Seq(Friends)
           first == <<>>
           turn == [p \in S \X (1..n) |->
                      IF fs[p[2]] \in W THEN Append(p[1], fs[p[2]]) ELSE p[1]]
<1>1. n \in Nat /\ \A k \in 1..n : fs[k] \in Friends
  OBVIOUS
<1>2. first \in S
  OBVIOUS
<1> HIDE DEF n
<1>3. turn \in [S \X (1..n) -> S]
  BY <1>1
<1>4. \A s \in S, k \in 1..n : turn[<<s, k>>] = IF fs[k] \in W THEN Append(s, fs[k]) ELSE s
  OBVIOUS
<1> HIDE DEF turn, S, first
<1>5. PICK f : Loop(f, S, first, n, turn)
  <2>1. first \in S /\ n \in Nat /\ turn \in [S \X (1..n) -> S]
    BY <1>1, <1>2, <1>3
  <2> QED BY ONLY <2>1, LoopValues
<1>6. \A k \in 1..n : k - 1 \in 0..n /\ k \in 0..n
  BY <1>1
<1>7. \A k \in 1..n : f[k] = IF fs[k] \in W THEN Append(f[k - 1], fs[k]) ELSE f[k - 1]
  BY <1>4, <1>5, <1>6 DEF Loop
<1> DEFINE body(g) == [k \in 0..n |->
                         IF k = 0 THEN <<>>
                         ELSE IF fs[k] \in W THEN Append(g[k - 1], fs[k]) ELSE g[k - 1]]
           upTo == CHOOSE g : g = body(g)
<1>8. f = body(f)
  <2>1. \A k \in 0..n : k = 0 \/ k \in 1..n
    BY <1>1
  <2> QED BY <1>5, <1>7, <2>1 DEF first, Loop
<1>9. upTo = body(upTo)
  <2> HIDE DEF body
  <2> QED BY <1>8
<1>10. Kept(fs, W) = upTo[n]
  BY DEF Kept, n
<1> HIDE DEF upTo
<1>11. \A k \in 0..n : upTo[k] = IF k = 0 THEN <<>>
                         ELSE IF fs[k] \in W THEN Append(upTo[k - 1], fs[k]) ELSE upTo[k - 1]
  BY <1>9
<1>12. 0 \in 0..n /\ \A k \in 1..n : k \in 0..n /\ k # 0
  BY <1>1
<1> QED BY <1>10, <1>11, <1>12 DEF n

\* friends.filter keeps those it should, in their order.
LEMMA KeptIsRight ==
  ASSUME NEW fs \in Seq(Friends), NEW S
  PROVE  /\ Kept(fs, S) \in Seq(Friends)
         /\ ToSet(Kept(fs, S)) = ToSet(fs) \cap S
         /\ InOrderOf(Kept(fs, S), fs)
<1> DEFINE n == Len(fs)
<1>1. n \in Nat /\ DOMAIN fs = 1..n
  OBVIOUS
<1> HIDE DEF n
<1>2. PICK upTo : /\ upTo[0] = <<>>
                  /\ \A k \in 1..n :
                       upTo[k] = IF fs[k] \in S THEN Append(upTo[k - 1], fs[k]) ELSE upTo[k - 1]
                  /\ Kept(fs, S) = upTo[n]
  BY KeptLoop DEF n
<1> DEFINE first(k) == {fs[i] : i \in 1..k}
           Good(k) == /\ upTo[k] \in Seq(Friends)
                      /\ ToSet(upTo[k]) = first(k) \cap S
                      /\ InOrderOf(upTo[k], fs)
           T == {k \in Nat : k <= n => Good(k)}
<1>3. 0 \in T
  <2>1. Good(0)
    BY <1>2 DEF ToSet, InOrderOf
  <2> QED BY <2>1
<1>4. ASSUME NEW k \in Nat, k \in T PROVE k + 1 \in T
  <2> SUFFICES ASSUME k + 1 <= n PROVE Good(k + 1)
    OBVIOUS
  <2>1. Good(k) /\ k + 1 \in 1..n /\ (k + 1) - 1 = k
    BY <1>1, <1>4
  <2>2. first(k + 1) = first(k) \cup {fs[k + 1]}
    <3>1. \A i \in 1..k+1 : i \in 1..k \/ i = k + 1
      OBVIOUS
    <3>2. 1..k \subseteq 1..k+1 /\ k + 1 \in 1..k+1
      OBVIOUS
    <3> QED BY <3>1, <3>2
  <2>3. CASE fs[k + 1] \in S
    <3>1. upTo[k + 1] = Append(upTo[k], fs[k + 1])
      BY <1>2, <2>1, <2>3
    <3>2. ToSet(upTo[k]) \subseteq {fs[i] : i \in 1..(k+1)-1}
      BY <2>1
    <3>3. k + 1 \in 1..Len(fs)
      BY <2>1 DEF n
    <3> HIDE DEF first
    <3>4. /\ upTo[k + 1] \in Seq(Friends)
          /\ ToSet(upTo[k + 1]) = ToSet(upTo[k]) \cup {fs[k + 1]}
          /\ InOrderOf(upTo[k + 1], fs)
      BY <2>1, <3>1, <3>2, <3>3, AppendKeepsOrder
    <3> QED BY <2>1, <2>2, <2>3, <3>4
  <2>4. CASE fs[k + 1] \notin S
    <3>1. upTo[k + 1] = upTo[k]
      BY <1>2, <2>1, <2>4
    <3> HIDE DEF first
    <3> QED BY <2>1, <2>2, <2>4, <3>1
  <2> QED BY <2>3, <2>4
<1> HIDE DEF T
<1>5. n \in T
  BY <1>1, <1>3, <1>4, Induction
<1>6. Good(n)
  BY <1>1, <1>5 DEF T
<1>7. first(n) = ToSet(fs)
  BY <1>1 DEF ToSet
<1> QED BY <1>2, <1>6, <1>7

\* The dictionaries of rows by letter.
Dicts == UNION {[K -> Seq(Friends)] : K \in SUBSET Nat}

\* One friend goes to the end of the rows of one letter.
LEMMA EnterIsRight ==
  ASSUME NEW dict \in Dicts, NEW f \in Friends
  PROVE  /\ Enter(dict, f) \in Dicts
         /\ DOMAIN Enter(dict, f) = DOMAIN dict \cup {Initial[f]}
         /\ \A k \in DOMAIN dict : k # Initial[f] => Enter(dict, f)[k] = dict[k]
         /\ Enter(dict, f)[Initial[f]] =
              Append(IF Initial[f] \in DOMAIN dict THEN dict[Initial[f]] ELSE <<>>, f)
<1> DEFINE K == DOMAIN dict \cup {Initial[f]}
<1>1. DOMAIN dict \subseteq Nat /\ dict \in [DOMAIN dict -> Seq(Friends)]
  BY DEF Dicts
<1>2. K \in SUBSET Nat
  BY <1>1, ListConstants
<1>3. \A k \in DOMAIN dict : Append(dict[k], f) \in Seq(Friends)
  BY <1>1, AppendProperties
<1>4. <<f>> \in Seq(Friends) /\ <<f>> = Append(<<>>, f)
  OBVIOUS
<1>5. Enter(dict, f) \in [K -> Seq(Friends)]
  BY <1>1, <1>3, <1>4 DEF Enter
<1>6. Enter(dict, f) \in Dicts
  BY <1>2, <1>5 DEF Dicts
<1>7. /\ \A k \in DOMAIN dict : k # Initial[f] => Enter(dict, f)[k] = dict[k]
      /\ Enter(dict, f)[Initial[f]] =
           IF Initial[f] \in DOMAIN dict THEN Append(dict[Initial[f]], f) ELSE <<f>>
  BY DEF Enter
<1> QED BY <1>4, <1>5, <1>6, <1>7

LEMMA EnterKeepsDicts == \A dict \in Dicts, f \in Friends : Enter(dict, f) \in Dicts
BY EnterIsRight

LEMMA EmptyInOrder == ASSUME NEW fs PROVE ToSet(<<>>) = {} /\ InOrderOf(<<>>, fs)
BY DEF ToSet, InOrderOf

\* The dictionary of filterContentFor, as a loop.
LEMMA EnterAllLoop ==
  ASSUME NEW fs, fs \in Seq(Friends)
  PROVE  \E upTo : /\ upTo[0] = <<>>
                   /\ \A k \in 1..Len(fs) : upTo[k] = Enter(upTo[k - 1], fs[k])
                   /\ \A k \in 0..Len(fs) : upTo[k] \in Dicts
                   /\ EnterAll(<<>>, fs) = upTo[Len(fs)]
<1> DEFINE n == Len(fs)
           S == Dicts
           first == <<>>
           turn == [p \in S \X (1..n) |-> Enter(p[1], fs[p[2]])]
<1>1. n \in Nat /\ \A k \in 1..n : fs[k] \in Friends
  OBVIOUS
<1>2. first \in S
  <2>1. first \in [{} -> Seq(Friends)] /\ {} \in SUBSET Nat
    OBVIOUS
  <2> HIDE DEF first
  <2> QED BY <2>1 DEF Dicts
<1> HIDE DEF n
<1>3. turn \in [S \X (1..n) -> S]
  BY <1>1, EnterKeepsDicts
<1>4. \A s \in S, k \in 1..n : turn[<<s, k>>] = Enter(s, fs[k])
  OBVIOUS
<1> HIDE DEF turn, S, first
<1>5. PICK f : Loop(f, S, first, n, turn)
  <2>1. first \in S /\ n \in Nat /\ turn \in [S \X (1..n) -> S]
    BY <1>1, <1>2, <1>3
  <2> QED BY ONLY <2>1, LoopValues
<1>6. \A k \in 1..n : k - 1 \in 0..n /\ k \in 0..n
  BY <1>1
<1>7. \A k \in 1..n : f[k] = Enter(f[k - 1], fs[k])
  BY <1>4, <1>5, <1>6 DEF Loop
<1> DEFINE body(g) == [k \in 0..n |-> IF k = 0 THEN <<>> ELSE Enter(g[k - 1], fs[k])]
           upTo == CHOOSE g : g = body(g)
<1>8. f = body(f)
  <2>1. \A k \in 0..n : k = 0 \/ k \in 1..n
    BY <1>1
  <2> QED BY <1>5, <1>7, <2>1 DEF first, Loop
<1>9. upTo = body(upTo)
  <2> HIDE DEF body
  <2> QED BY <1>8
<1>10. EnterAll(<<>>, fs) = upTo[n]
  BY DEF EnterAll, n
<1> HIDE DEF upTo
<1>11. \A k \in 0..n : upTo[k] = IF k = 0 THEN <<>> ELSE Enter(upTo[k - 1], fs[k])
  BY <1>9
<1>12. 0 \in 0..n /\ \A k \in 1..n : k \in 0..n /\ k # 0 /\ k - 1 \in Nat
  BY <1>1
<1>13. upTo[0] = <<>> /\ \A k \in 1..n : upTo[k] = Enter(upTo[k - 1], fs[k])
  BY <1>11, <1>12
<1> DEFINE T == {k \in Nat : k <= n => upTo[k] \in Dicts}
<1>14. 0 \in T
  BY <1>2, <1>13 DEF first, S
<1>15. ASSUME NEW k \in Nat, k \in T PROVE k + 1 \in T
  <2> SUFFICES ASSUME k + 1 <= n PROVE upTo[k + 1] \in Dicts
    OBVIOUS
  <2>1. upTo[k] \in Dicts /\ k + 1 \in 1..n /\ (k + 1) - 1 = k
    BY <1>1, <1>15
  <2>2. upTo[k + 1] = Enter(upTo[k], fs[k + 1])
    BY <1>13, <2>1
  <2>3. fs[k + 1] \in Friends
    BY <1>1, <2>1
  <2> QED BY ONLY <2>1, <2>2, <2>3, EnterKeepsDicts
<1> HIDE DEF T
<1>16. \A k \in Nat : k \in T
  BY <1>14, <1>15, Induction
<1>17. \A k \in 0..n : upTo[k] \in Dicts
  BY <1>1, <1>16 DEF T
<1> QED BY <1>10, <1>13, <1>17 DEF n

\* Every friend of fs is entered once, below their letter, in the order of fs.
LEMMA EnterAllIsRight ==
  ASSUME NEW fs \in Seq(Friends)
  PROVE  LET dict == EnterAll(<<>>, fs)
         IN /\ dict \in Dicts
            /\ IsFiniteSet(DOMAIN dict)
            /\ DOMAIN dict = {Initial[f] : f \in ToSet(fs)}
            /\ \A k \in DOMAIN dict :
                 /\ ToSet(dict[k]) = {f \in ToSet(fs) : Initial[f] = k}
                 /\ InOrderOf(dict[k], fs)
<1> DEFINE n == Len(fs)
<1>1. n \in Nat /\ DOMAIN fs = 1..n /\ \A k \in 1..n : fs[k] \in Friends
  OBVIOUS
<1> HIDE DEF n
<1>2. PICK upTo : /\ upTo[0] = <<>>
                  /\ \A k \in 1..n : upTo[k] = Enter(upTo[k - 1], fs[k])
                  /\ \A k \in 0..n : upTo[k] \in Dicts
                  /\ EnterAll(<<>>, fs) = upTo[n]
  BY EnterAllLoop DEF n
<1> DEFINE first(k) == {fs[i] : i \in 1..k}
           Row(k, l) == /\ ToSet(upTo[k][l]) = {f \in first(k) : Initial[f] = l}
                        /\ InOrderOf(upTo[k][l], fs)
           Good(k) == /\ IsFiniteSet(DOMAIN upTo[k])
                      /\ DOMAIN upTo[k] = {Initial[f] : f \in first(k)}
                      /\ \A l \in DOMAIN upTo[k] : Row(k, l)
           T == {k \in Nat : k <= n => Good(k)}
<1>3. 0 \in T
  <2>1. DOMAIN upTo[0] = {} /\ first(0) = {}
    BY <1>2
  <2> HIDE DEF first
  <2> QED BY <2>1, FS_EmptySet
<1>4. ASSUME NEW k \in Nat, k \in T PROVE k + 1 \in T
  <2> HIDE DEF Good
  <2> SUFFICES ASSUME k + 1 <= n PROVE Good(k + 1)
    OBVIOUS
  <2> DEFINE f == fs[k + 1]
             old == upTo[k]
             new == upTo[k + 1]
             l0 == Initial[f]
  <2>1. Good(k) /\ k + 1 \in 1..n /\ (k + 1) - 1 = k
    BY <1>1, <1>4
  <2> USE DEF Good
  <2>a. IsFiniteSet(DOMAIN old)
    BY <2>1
  <2>2. first(k + 1) = first(k) \cup {f}
    <3>1. \A i \in 1..k+1 : i \in 1..k \/ i = k + 1
      OBVIOUS
    <3>2. 1..k \subseteq 1..k+1 /\ k + 1 \in 1..k+1
      OBVIOUS
    <3> QED BY <3>1, <3>2
  <2>3. new = Enter(old, f) /\ f \in Friends /\ old \in Dicts
    <3>1. k \in 0..n
      BY <1>1
    <3> QED BY <1>1, <1>2, <2>1, <3>1
  <2>4. \A i \in 1..k : fs[i] \in ToSet(fs)
    BY <1>1, <2>1 DEF ToSet
  <2> DEFINE rows == IF l0 \in DOMAIN old THEN old[l0] ELSE <<>>
  <2>5. /\ DOMAIN new = DOMAIN old \cup {l0}
        /\ \A l \in DOMAIN old : l # l0 => new[l] = old[l]
        /\ new[l0] = Append(rows, f)
    <3> HIDE DEF old, f, new
    <3> QED BY <2>3, EnterIsRight
  <2>6. old \in [DOMAIN old -> Seq(Friends)]
    BY <2>3 DEF Dicts
  <2>7. /\ rows \in Seq(Friends)
        /\ ToSet(rows) = {g \in first(k) : Initial[g] = l0}
        /\ InOrderOf(rows, fs)
    <3>1. CASE l0 \in DOMAIN old
      BY <2>1, <2>6, <3>1
    <3>2. CASE l0 \notin DOMAIN old
      <4>1. rows = <<>>
        BY <3>2
      <4>2. {g \in first(k) : Initial[g] = l0} = {}
        BY <2>1, <3>2
      <4>3. ToSet(rows) = {} /\ InOrderOf(rows, fs) /\ rows \in Seq(Friends)
        <5> HIDE DEF rows
        <5> QED BY <4>1, EmptyInOrder
      <4> QED BY <4>2, <4>3
    <3> QED BY <3>1, <3>2
  <2> HIDE DEF rows
  <2>8. /\ ToSet(new[l0]) = ToSet(rows) \cup {f}
        /\ InOrderOf(new[l0], fs)
    <3>1. ToSet(rows) \subseteq {fs[i] : i \in 1..(k+1)-1}
      BY <2>1, <2>7
    <3>2. k + 1 \in 1..Len(fs)
      BY <2>1 DEF n
    <3>3. rows \in Seq(Friends) /\ InOrderOf(rows, fs)
      BY <2>7
    <3> HIDE DEF first, f, new, old
    <3>4. /\ ToSet(Append(rows, fs[k + 1])) = ToSet(rows) \cup {fs[k + 1]}
          /\ InOrderOf(Append(rows, fs[k + 1]), fs)
      BY <3>1, <3>2, <3>3, AppendKeepsOrder
    <3> QED BY <2>5, <3>4 DEF f
  <2>9. IsFiniteSet(DOMAIN new)
    <3>1. DOMAIN new = DOMAIN old \cup {l0}
      BY <2>5
    <3>2. IsFiniteSet(DOMAIN old \cup {l0})
      <4> HIDE DEF l0, old
      <4> QED BY <2>a, FS_AddElement
    <3> QED BY <3>1, <3>2
  <2>10. DOMAIN new = {Initial[g] : g \in first(k + 1)}
    <3> HIDE DEF first
    <3> QED BY <2>1, <2>2, <2>5
  <2>11. ASSUME NEW l \in DOMAIN new PROVE Row(k + 1, l)
    <3>1. CASE l = l0
      <4> HIDE DEF first
      <4> QED BY <2>2, <2>7, <2>8, <3>1
    <3>2. CASE l # l0
      <4>1. l \in DOMAIN old /\ new[l] = old[l]
        BY <2>5, <3>2
      <4>2. Row(k, l)
        BY <2>1, <4>1
      <4> HIDE DEF first
      <4> QED BY <2>2, <3>2, <4>1, <4>2
    <3> QED BY <3>1, <3>2
  <2> QED BY <2>9, <2>10, <2>11
<1> HIDE DEF T
<1>5. n \in T
  BY <1>1, <1>3, <1>4, Induction
<1>6. Good(n)
  BY <1>1, <1>5 DEF T
<1>7. first(n) = ToSet(fs)
  BY <1>1 DEF ToSet
<1>8. upTo[n] \in Dicts
  BY <1>1, <1>2
<1> HIDE DEF first
<1> QED BY <1>2, <1>6, <1>7, <1>8

\* Every finite set of letters can be put in order.
LEMMA LettersCanBeSorted ==
  ASSUME NEW keys, keys \subseteq Nat, IsFiniteSet(keys)
  PROVE  \E s \in [1..Cardinality(keys) -> keys] : ToSet(s) = keys /\ Increasing(s)
<1> DEFINE Ordered(K) == \E s \in [1..Cardinality(K) -> K] : ToSet(s) = K /\ Increasing(s)
           T == {n \in Nat : \A K \in SUBSET Nat :
                   IsFiniteSet(K) /\ Cardinality(K) = n => Ordered(K)}
<1>1. 0 \in T
  <2> SUFFICES ASSUME NEW K \in SUBSET Nat, IsFiniteSet(K), Cardinality(K) = 0 PROVE Ordered(K)
    OBVIOUS
  <2>1. K = {}
    BY FS_EmptySet
  <2> DEFINE s == [i \in 1..0 |-> 0]
  <2>2. s \in [1..Cardinality(K) -> K] /\ DOMAIN s = {}
    BY <2>1
  <2> HIDE DEF s
  <2>3. ToSet(s) = K /\ Increasing(s)
    BY <2>1, <2>2 DEF ToSet, Increasing
  <2> QED BY <2>2, <2>3
<1>2. ASSUME NEW n \in Nat, n \in T PROVE n + 1 \in T
  <2> SUFFICES ASSUME NEW K \in SUBSET Nat, IsFiniteSet(K), Cardinality(K) = n + 1
               PROVE  Ordered(K)
    OBVIOUS
  <2>1. K # {}
    BY FS_EmptySet
  <2>2. PICK x \in K : \A y \in K : x <= y
    <3>1. K \subseteq Nat
      OBVIOUS
    <3> QED BY <2>1, <3>1, LeastNumber
  <2> DEFINE K1 == K \ {x}
  <2>3. K1 \in SUBSET Nat /\ IsFiniteSet(K1) /\ Cardinality(K1) = n
    <3>1. Cardinality(K1) = Cardinality(K) - 1 /\ IsFiniteSet(K1)
      BY FS_RemoveElement
    <3> QED BY <3>1
  <2>4. Ordered(K1)
    <3> HIDE DEF K1, Ordered
    <3> QED BY <1>2, <2>3
  <2> HIDE DEF K1
  <2>5. PICK s1 \in [1..n -> K1] : ToSet(s1) = K1 /\ Increasing(s1)
    BY <2>3, <2>4
  <2> DEFINE s == [i \in 1..n+1 |-> IF i = 1 THEN x ELSE s1[i - 1]]
  <2>6. \A i \in 1..n+1 : i = 1 \/ i - 1 \in 1..n
    OBVIOUS
  <2>7. \A i \in 2..n+1 : s[i] = s1[i - 1] /\ s[i] \in K1 /\ i - 1 \in 1..n
    <3>1. \A i \in 2..n+1 : i \in 1..n+1 /\ i # 1 /\ i - 1 \in 1..n
      OBVIOUS
    <3> QED BY <2>5, <3>1
  <2>8. s[1] = x /\ DOMAIN s = 1..n+1
    OBVIOUS
  <2>9. s \in [1..n+1 -> K]
    BY <2>5, <2>6 DEF K1
  <2> HIDE DEF s
  <2>10. \A i \in 1..n+1 : i = 1 \/ i \in 2..n+1
    OBVIOUS
  <2>11. ToSet(s) = K
    <3>1. ASSUME NEW y \in K PROVE \E i \in 1..n+1 : s[i] = y
      <4>1. CASE y = x
        BY <2>8, <4>1
      <4>2. CASE y # x
        <5>1. PICK j \in 1..n : s1[j] = y
          BY <2>5, <4>2 DEF K1, ToSet
        <5>2. j + 1 \in 2..n+1 /\ j + 1 \in 1..n+1 /\ (j + 1) - 1 = j
          OBVIOUS
        <5> QED BY <2>7, <5>1, <5>2
      <4> QED BY <4>1, <4>2
    <3> QED BY <2>8, <2>9, <3>1 DEF ToSet
  <2>12. Increasing(s)
    <3> SUFFICES ASSUME NEW i \in 1..n+1, NEW j \in 1..n+1, i < j PROVE s[i] < s[j]
      BY <2>8 DEF Increasing
    <3>1. j \in 2..n+1
      OBVIOUS
    <3>2. CASE i = 1
      <4>1. s[j] \in K /\ s[j] # x
        BY <2>7, <3>1 DEF K1
      <4>2. x \in Nat /\ s[j] \in Nat /\ x <= s[j]
        BY <2>2, <4>1
      <4> QED BY <2>8, <3>2, <4>1, <4>2
    <3>3. CASE i # 1
      <4>1. i \in 2..n+1
        BY <3>3
      <4>2. i - 1 \in DOMAIN s1 /\ j - 1 \in DOMAIN s1 /\ i - 1 < j - 1
        BY <2>5, <3>1, <4>1
      <4>3. s1[i - 1] < s1[j - 1]
        BY <2>5, <4>2 DEF Increasing
      <4> QED BY <2>7, <3>1, <4>1, <4>3
    <3> QED BY <3>2, <3>3
  <2> QED BY <2>9, <2>11, <2>12
<1> HIDE DEF T
<1>3. Cardinality(keys) \in Nat
  BY FS_CardinalityType
<1>4. Cardinality(keys) \in T
  BY <1>1, <1>2, <1>3, Induction
<1> QED BY <1>4 DEF T

LEMMA SortedIsRight ==
  ASSUME NEW keys, keys \subseteq Nat, IsFiniteSet(keys)
  PROVE  /\ Sorted(keys) \in Seq(Nat) /\ ToSet(Sorted(keys)) = keys
         /\ Increasing(Sorted(keys))
<1>1. /\ Sorted(keys) \in [1..Cardinality(keys) -> keys]
      /\ ToSet(Sorted(keys)) = keys /\ Increasing(Sorted(keys))
  BY LettersCanBeSorted DEF Sorted
<1>2. Cardinality(keys) \in Nat
  BY FS_CardinalityType
<1> DEFINE s == Sorted(keys)
           n == Cardinality(keys)
<1> HIDE DEF s, n
<1>3. s \in [1..n -> keys] /\ n \in Nat
  BY <1>1, <1>2 DEF s, n
<1>4. s \in Seq(Nat)
  <2>1. s \in [1..n -> Nat]
    BY <1>3
  <2> QED BY <1>3, <2>1
<1>5. Sorted(keys) \in Seq(Nat)
  BY <1>4 DEF s
<1> QED BY ONLY <1>1, <1>5

\* The data source can read d: it has rows below each title.
Readable(d) ==
  /\ DOMAIN d = {"titles", "dict"} /\ d.titles \in Seq(Nat)
  /\ ToSet(d.titles) = DOMAIN d.dict
  /\ \A k \in DOMAIN d.dict : d.dict[k] \in Seq(Friends)

\* What filterContentFor makes of the friends it lists.
LEMMA SectionsAreRight ==
  ASSUME NEW fs \in Seq(Friends)
  PROVE  /\ Readable(Sections(fs))
         /\ ToSet(Sections(fs).titles) = {Initial[f] : f \in ToSet(fs)}
         /\ Increasing(Sections(fs).titles)
         /\ \A k \in DOMAIN Sections(fs).dict :
              /\ ToSet(Sections(fs).dict[k]) = {f \in ToSet(fs) : Initial[f] = k}
              /\ InOrderOf(Sections(fs).dict[k], fs)
<1> DEFINE dict == EnterAll(<<>>, fs)
           titles == Sorted(DOMAIN dict)
           d == Sections(fs)
<1>1. d = [titles |-> titles, dict |-> dict]
  BY DEF Sections
<1>2. /\ dict \in Dicts
      /\ IsFiniteSet(DOMAIN dict)
      /\ DOMAIN dict = {Initial[f] : f \in ToSet(fs)}
      /\ \A k \in DOMAIN dict :
           /\ ToSet(dict[k]) = {f \in ToSet(fs) : Initial[f] = k}
           /\ InOrderOf(dict[k], fs)
  BY EnterAllIsRight
<1> HIDE DEF dict
<1>3. DOMAIN dict \subseteq Nat /\ \A k \in DOMAIN dict : dict[k] \in Seq(Friends)
  <2>1. PICK K \in SUBSET Nat : dict \in [K -> Seq(Friends)]
    BY <1>2 DEF Dicts
  <2> QED BY <2>1
<1>4. titles \in Seq(Nat) /\ ToSet(titles) = DOMAIN dict /\ Increasing(titles)
  BY <1>2, <1>3, SortedIsRight
<1> HIDE DEF titles
<1>5. DOMAIN d = {"titles", "dict"} /\ d.titles = titles /\ d.dict = dict
  BY <1>1
<1> HIDE DEF d
<1>6. Readable(d)
  BY <1>3, <1>4, <1>5 DEF Readable
<1> QED BY <1>2, <1>4, <1>5, <1>6 DEF d

\* The order of a part of a part.
LEMMA OrderIsTransitive ==
  ASSUME NEW s, NEW mid, NEW fs, InOrderOf(s, mid), InOrderOf(mid, fs)
  PROVE  InOrderOf(s, fs)
<1> SUFFICES ASSUME NEW i \in DOMAIN s, NEW j \in DOMAIN s, i < j
             PROVE  \E a, b \in DOMAIN fs : a < b /\ fs[a] = s[i] /\ fs[b] = s[j]
  BY DEF InOrderOf
<1>1. PICK a, b \in DOMAIN mid : a < b /\ mid[a] = s[i] /\ mid[b] = s[j]
  BY DEF InOrderOf
<1>2. \E a1, b1 \in DOMAIN fs : a1 < b1 /\ fs[a1] = mid[a] /\ fs[b1] = mid[b]
  BY <1>1 DEF InOrderOf
<1> QED BY <1>1, <1>2

LEMMA OwnOrder == ASSUME NEW fs PROVE InOrderOf(fs, fs)
BY DEF InOrderOf

\* filterContentFor leaves a list of the friends that match its text.
LEMMA FilterLists ==
  ASSUME NEW fs \in Seq(Friends), NEW t \in Texts \cup {Blank}
  PROVE  /\ Readable(Sections(Filtered(fs, t)))
         /\ Lists(Sections(Filtered(fs, t)), fs, t)
<1> DEFINE wanted == {f \in ToSet(fs) : t = Blank \/ f \in Matches[t]}
           kept == Filtered(fs, t)
<1>1. kept \in Seq(Friends) /\ ToSet(kept) = wanted /\ InOrderOf(kept, fs)
  <2>1. CASE t = Blank
    BY <2>1, OwnOrder DEF Filtered
  <2>2. CASE t # Blank
    <3>1. kept = Kept(fs, Matches[t])
      BY <2>2 DEF Filtered
    <3>2. ToSet(fs) \cap Matches[t] = wanted
      BY <2>2
    <3> HIDE DEF kept, wanted
    <3> QED BY <3>1, <3>2, KeptIsRight
  <2> QED BY <2>1, <2>2
<1> HIDE DEF kept
<1> DEFINE d == Sections(kept)
<1>2. /\ Readable(d)
      /\ ToSet(d.titles) = {Initial[f] : f \in ToSet(kept)}
      /\ Increasing(d.titles)
      /\ \A k \in DOMAIN d.dict :
           /\ ToSet(d.dict[k]) = {f \in ToSet(kept) : Initial[f] = k}
           /\ InOrderOf(d.dict[k], kept)
  BY <1>1, SectionsAreRight
<1> HIDE DEF d
<1>3. \A k \in DOMAIN d.dict : InOrderOf(d.dict[k], fs)
  BY <1>1, <1>2, OrderIsTransitive
<1>4. \A k \in DOMAIN d.dict : ToSet(d.dict[k]) = {f \in wanted : Initial[f] = k}
  <2> HIDE DEF wanted
  <2> QED BY <1>1, <1>2
<1>5. ToSet(d.titles) = {Initial[f] : f \in wanted}
  <2> HIDE DEF wanted
  <2> QED BY <1>1, <1>2
<1>6. Lists(d, fs, t)
  BY <1>2, <1>3, <1>4, <1>5 DEF Lists
<1> QED BY <1>2, <1>6 DEF d, kept
-----------------------------------------------------------------------------
(* The list of friends.                                                    *)

LEMMA LoadsAreSequences == Loads \subseteq Seq(Friends) /\ <<>> \in Loads
<1>1. Cardinality(Friends) \in Nat
  BY ListConstants, FS_CardinalityType
<1>2. Loads \subseteq Seq(Friends)
  BY <1>1 DEF Loads
<1>3. <<>> \in [1..0 -> Friends] /\ 0 \in 0..Cardinality(Friends) /\ IsInjective(<<>>)
  BY <1>1 DEF IsInjective
<1> QED BY <1>2, <1>3 DEF Loads

LEMMA InitTypeOK == Init => TypeOK /\ EveryoneListedOnce
<1> SUFFICES ASSUME Init PROVE TypeOK /\ EveryoneListedOnce
  OBVIOUS
<1>1. /\ data.titles = <<>> /\ data.dict = <<>> /\ DOMAIN data = {"titles", "dict"}
      /\ DOMAIN data.dict = {} /\ DOMAIN data.titles = {} /\ ToSet(data.titles) = {}
  BY DEF Init, ToSet
<1>2. TypeOK
  <2>1. data.titles \in Seq(Nat) /\ table \in Seq(Seq(Friends)) /\ friends \in Loads
    BY <1>1, LoadsAreSequences DEF Init
  <2>2. reloads \in 0..MaxReloads
    BY ListConstants DEF Init
  <2>3. ToSet(data.titles) = DOMAIN data.dict
    BY <1>1
  <2>4. \A k \in DOMAIN data.dict : data.dict[k] \in Seq(Friends)
    BY <1>1
  <2>5. /\ text \in Texts \cup {Blank} /\ dirty \in BOOLEAN /\ crashed \in BOOLEAN
        /\ opened \in Friends \cup {NoFriend}
    BY DEF Init
  <2> QED BY <1>1, <2>1, <2>2, <2>3, <2>4, <2>5 DEF TypeOK
<1>3. friends = <<>> /\ text = Blank /\ ToSet(friends) = {}
  BY DEF Init, ToSet
<1>4. Lists(data, friends, text)
  BY <1>1, <1>3 DEF Lists, Increasing
<1> QED BY <1>2, <1>4 DEF EveryoneListedOnce

\* The sections the table may count are rows of friends.
LEMMA RowsAreRows ==
  ASSUME NEW d, Readable(d) PROVE RowsOf(d) \in Seq(Seq(Friends))
<1> DEFINE n == Len(d.titles)
<1>1. n \in Nat /\ DOMAIN d.titles = 1..n
  BY DEF Readable
<1>2. \A s \in 1..n : d.titles[s] \in DOMAIN d.dict
  BY <1>1 DEF Readable, ToSet
<1>3. RowsOf(d) \in [1..n -> Seq(Friends)]
  BY <1>1, <1>2 DEF RowsOf, Readable
<1> HIDE DEF n
<1> QED BY <1>1, <1>3

LEMMA FoundIsFriend ==
  ASSUME NEW d, Readable(d), NEW s, NEW r, HasRow(RowsOf(d), s, r)
  PROVE  d.dict[d.titles[s]][r] \in Friends
<1>1. RowsOf(d)[s] = d.dict[d.titles[s]] /\ s \in DOMAIN RowsOf(d) /\ r \in DOMAIN RowsOf(d)[s]
  BY DEF RowsOf, HasRow
<1>2. RowsOf(d)[s] \in Seq(Friends)
  BY <1>1, RowsAreRows
<1> QED BY <1>1, <1>2

ListInv == TypeOK /\ EveryoneListedOnce

LEMMA StepTypeOK == ListInv /\ [Next]_vars => ListInv'
<1> SUFFICES ASSUME ListInv, [Next]_vars PROVE ListInv'
  OBVIOUS
<1>0. /\ TypeOK /\ EveryoneListedOnce /\ Readable(data)
      /\ friends \in Seq(Friends)
  BY LoadsAreSequences DEF ListInv, TypeOK, Readable
<1>1. ASSUME NEW rows \in Loads, Update(rows) PROVE ListInv'
  <2>1. rows \in Seq(Friends) /\ Blank \in Texts \cup {Blank}
    BY LoadsAreSequences
  <2>2. Readable(data') /\ Lists(data', friends', Blank) /\ friends' = rows
    BY <1>1, <2>1, FilterLists DEF Update
  <2>3. TypeOK'
    BY <1>0, <1>1, <2>2, ListConstants DEF Update, TypeOK, Readable
  <2> QED BY <2>2, <2>3 DEF ListInv, EveryoneListedOnce
<1>2. ASSUME NEW t \in Texts \cup {Blank}, Search(t) PROVE ListInv'
  <2>1. Readable(data') /\ Lists(data', friends', text')
    BY <1>0, <1>2, FilterLists DEF Search
  <2>2. TypeOK'
    BY <1>0, <1>2, <2>1, ListConstants DEF Search, TypeOK, Readable
  <2> QED BY <2>1, <2>2 DEF ListInv, EveryoneListedOnce
<1>3. CASE RunReload
  <2>1. TypeOK'
    BY <1>0, <1>3, ListConstants DEF RunReload, TypeOK
  <2> QED BY <1>0, <1>3, <2>1 DEF RunReload, ListInv, EveryoneListedOnce
<1>4. CASE Layout
  <2>1. table' \in Seq(Seq(Friends))
    BY <1>0, <1>4, RowsAreRows DEF Layout
  <2>2. TypeOK'
    BY <1>0, <1>4, <2>1 DEF Layout, TypeOK
  <2> QED BY <1>0, <1>4, <2>2 DEF Layout, ListInv, EveryoneListedOnce
<1>5. ASSUME NEW s, NEW r, Show(s, r) PROVE ListInv'
  <2>1. table' \in Seq(Seq(Friends)) /\ crashed' \in BOOLEAN
    <3>1. CASE HasRow(RowsOf(data), s, r)
      <4> DEFINE f == data.dict[data.titles[s]][r]
      <4>1. f \in Friends
        BY <1>0, <3>1, FoundIsFriend
      <4>2. table' = [table EXCEPT ![s][r] = f] /\ crashed' = crashed
        BY <1>5, <3>1 DEF Show
      <4> HIDE DEF f
      <4>3. HasRow(table, s, r) /\ table \in Seq(Seq(Friends)) /\ crashed \in BOOLEAN
        BY <1>0, <1>5 DEF Show, TypeOK
      <4>4. [table[s] EXCEPT ![r] = f] \in Seq(Friends)
        BY <4>1, <4>3 DEF HasRow
      <4>5. table' = [table EXCEPT ![s] = [table[s] EXCEPT ![r] = f]]
        BY <4>2
      <4> QED BY <4>2, <4>3, <4>4, <4>5 DEF HasRow
    <3>2. CASE ~HasRow(RowsOf(data), s, r)
      BY <1>0, <1>5, <3>2 DEF Show, TypeOK
    <3> QED BY <3>1, <3>2
  <2>2. TypeOK'
    BY <1>0, <1>5, <2>1 DEF Show, TypeOK
  <2> QED BY <1>0, <1>5, <2>2 DEF Show, ListInv, EveryoneListedOnce
<1>6. ASSUME NEW s, NEW r, Tap(s, r) PROVE ListInv'
  <2>1. opened' \in Friends \cup {NoFriend} /\ crashed' \in BOOLEAN
    <3>1. CASE HasRow(RowsOf(data), s, r)
      BY <1>0, <1>6, <3>1, FoundIsFriend DEF Tap, Selected, TypeOK
    <3>2. CASE ~HasRow(RowsOf(data), s, r)
      BY <1>0, <1>6, <3>2 DEF Tap, TypeOK
    <3> QED BY <3>1, <3>2
  <2>2. TypeOK'
    BY <1>0, <1>6, <2>1 DEF Tap, TypeOK
  <2> QED BY <1>0, <1>6, <2>2 DEF Tap, ListInv, EveryoneListedOnce
<1>7. CASE Back
  <2>1. TypeOK'
    BY <1>0, <1>7 DEF Back, TypeOK
  <2> QED BY <1>0, <1>7, <2>1 DEF Back, ListInv, EveryoneListedOnce
<1>8. CASE UNCHANGED vars
  <2>1. TypeOK'
    BY <1>0, <1>8 DEF vars, TypeOK
  <2> QED BY <1>0, <1>8, <2>1 DEF vars, ListInv, EveryoneListedOnce
<1> QED BY <1>1, <1>2, <1>3, <1>4, <1>5, <1>6, <1>7, <1>8 DEF Next

LEMMA ListInvariance == Spec => []ListInv
<1>1. Init => ListInv
  BY InitTypeOK DEF ListInv
<1> QED BY <1>1, StepTypeOK, PTL DEF Spec

\* The data source, the table and the queue stay well typed: the titles are always the
\* letters of the dictionary, and every row the table counts is a friend
\* (MyFriendsViewController).
THEOREM TypeCorrect == Spec => []TypeOK
<1>1. ListInv => TypeOK
  BY DEF ListInv
<1> QED BY <1>1, ListInvariance, PTL

\* Whatever the loads and the searches, the data source lists all the friends, or those
\* that match the search text, each once below the letter of the last name and in the
\* order of the file, with the letters in order (filterContentFor).
THEOREM ListIsComplete == Spec => []EveryoneListedOnce
<1>1. ListInv => EveryoneListedOnce
  BY DEF ListInv
<1> QED BY <1>1, ListInvariance, PTL
=============================================================================
