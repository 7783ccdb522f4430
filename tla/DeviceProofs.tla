----------------------------- MODULE DeviceProofs -----------------------------
(***************************************************************************)
(* What is kept on this device, for every set of owners, entries, limits   *)
(* and saved sessions: the queue and the search history of LocalLists,     *)
(* through every mix of edits, answers and accounts, and the one session   *)
(* of Vault, whatever fails and wherever the process is killed.            *)
(***************************************************************************)
EXTENDS LocalLists, Vault, WellFoundedInduction, SequenceTheorems, TLAPS

(* A set that holds 0 and the successor of each natural number it holds.   *)
LEMMA Induction ==
  ASSUME NEW S, 0 \in S, \A n \in Nat : n \in S => n + 1 \in S
  PROVE  Nat \subseteq S
<1>. DEFINE R == OpToRel(<, Nat)
            T == Nat \ S
<1>1. SUFFICES ASSUME T # {} PROVE FALSE
  OBVIOUS
<1>2. IsWellFoundedOn(R, Nat)
  BY NatLessThanWellFounded
<1>3. \A x, y \in Nat : x < y => <<x, y>> \in R
  BY DEF OpToRel
<1>. HIDE DEF R
<1>4. T \subseteq Nat
  OBVIOUS
<1>5. PICK x \in T : \A y \in T : ~(<<y, x>> \in R)
  BY <1>1, <1>2, <1>4, WFMin
<1>6. x \in Nat /\ x # 0 /\ x - 1 \in Nat /\ x - 1 < x /\ (x - 1) + 1 = x
  OBVIOUS
<1>7. x - 1 \notin T
  BY <1>3, <1>5, <1>6
<1>. QED  BY <1>5, <1>6, <1>7

---------------------------------------------------------------------------
(* Taking an entry out of a list, the loop of localList: there is a        *)
(* function that it computes, and what it has after n entries.             *)
Loop(kept, list, x, m) ==
  kept = [n \in 0..m |-> IF n = 0 THEN <<>>
                         ELSE IF list[n] = x THEN kept[n - 1]
                         ELSE Append(kept[n - 1], list[n])]

LEMMA LoopExists ==
  ASSUME NEW list, NEW x
  PROVE  \A m \in Nat : \E kept : Loop(kept, list, x, m)
<1>. DEFINE S == {m \in Nat : \E kept : Loop(kept, list, x, m)}
<1>1. 0 \in S
  <2>1. Loop([n \in 0..0 |-> <<>>], list, x, 0)
    BY DEF Loop
  <2>. QED  BY <2>1
<1>2. ASSUME NEW m \in Nat, m \in S
      PROVE  m + 1 \in S
  <2>1. PICK kept : Loop(kept, list, x, m)
    BY <1>2
  <2>. DEFINE next == IF list[m + 1] = x THEN kept[m] ELSE Append(kept[m], list[m + 1])
              new == [n \in 0..(m + 1) |-> IF n = m + 1 THEN next ELSE kept[n]]
  <2>2. kept = [n \in 0..m |-> IF n = 0 THEN <<>>
                         ELSE IF list[n] = x THEN kept[n - 1]
                         ELSE Append(kept[n - 1], list[n])]
    BY <2>1 DEF Loop
  <2>3. ASSUME NEW n \in 0..(m + 1)
        PROVE  new[n] = IF n = 0 THEN <<>>
                         ELSE IF list[n] = x THEN new[n - 1]
                         ELSE Append(new[n - 1], list[n])
    <3>1. CASE n = 0
      BY <2>2, <3>1
    <3>2. CASE n \in 1..m
      <4>1. new[n] = kept[n] /\ new[n - 1] = kept[n - 1]
        BY <3>2
      <4>2. kept[n] = IF n = 0 THEN <<>>
                         ELSE IF list[n] = x THEN kept[n - 1]
                         ELSE Append(kept[n - 1], list[n])
        <5>1. n \in 0..m
          BY <3>2
        <5>. HIDE DEF new, next
        <5>. QED  BY <2>2, <5>1
      <4>. HIDE DEF new
      <4>. QED  BY <3>2, <4>1, <4>2
    <3>3. CASE n = m + 1
      <4>1. new[n] = next /\ new[n - 1] = kept[m] /\ n # 0
        BY <3>3
      <4>. HIDE DEF new
      <4>. QED  BY <3>3, <4>1
    <3>. QED  BY <3>1, <3>2, <3>3
  <2>4. new = [n \in 0..(m + 1) |-> new[n]]
    OBVIOUS
  <2>. HIDE DEF new
  <2>5. Loop(new, list, x, m + 1)
    BY <2>3, <2>4 DEF Loop
  <2>. QED  BY <2>5
<1>. HIDE DEF S
<1>3. Nat \subseteq S
  BY <1>1, <1>2, Induction
<1>. QED  BY <1>3 DEF S

LEMMA WithoutIsLoop ==
  ASSUME NEW E, NEW list \in Seq(E), NEW x
  PROVE  \E kept : Loop(kept, list, x, Len(list)) /\ Without(list, x) = kept[Len(list)]
<1>. DEFINE kept == CHOOSE kept : Loop(kept, list, x, Len(list))
<1>1. Loop(kept, list, x, Len(list))
  <2>1. Len(list) \in Nat
    OBVIOUS
  <2>. QED  BY <2>1, LoopExists
<1>2. Without(list, x) = kept[Len(list)]
  BY DEF Without, Loop
<1>. QED  BY <1>1, <1>2

(* What the loop has after n entries.                                      *)
Kept(kept, list, x, E) ==
  /\ kept \in [0..Len(list) -> Seq(E)]
  /\ kept[0] = <<>>
  /\ \A n \in 1..Len(list) :
       kept[n] = IF list[n] = x THEN kept[n - 1] ELSE Append(kept[n - 1], list[n])

LEMMA WithoutKeeps ==
  ASSUME NEW E, NEW list \in Seq(E), NEW x
  PROVE  \E kept : Kept(kept, list, x, E) /\ Without(list, x) = kept[Len(list)]
<1>1. Len(list) \in Nat /\ \A n \in 1..Len(list) : list[n] \in E
  BY LenProperties, ElementOfSeq
<1>2. PICK kept : Loop(kept, list, x, Len(list)) /\ Without(list, x) = kept[Len(list)]
  BY WithoutIsLoop
<1>3. kept = [n \in 0..Len(list) |-> kept[n]]
  BY <1>2 DEF Loop
<1>4. \A n \in 0..Len(list) :
        kept[n] = IF n = 0 THEN <<>>
                  ELSE IF list[n] = x THEN kept[n - 1]
                  ELSE Append(kept[n - 1], list[n])
  BY <1>2 DEF Loop
<1>5. kept[0] = <<>>
  BY <1>1, <1>4
<1>6. \A n \in 1..Len(list) :
        kept[n] = IF list[n] = x THEN kept[n - 1] ELSE Append(kept[n - 1], list[n])
  BY <1>1, <1>4
<1>. DEFINE S == {n \in Nat : n <= Len(list) => kept[n] \in Seq(E)}
<1>7. 0 \in S
  <2>1. <<>> \in Seq(E)
    BY EmptySeq
  <2>. QED  BY <1>5, <2>1
<1>8. ASSUME NEW n \in Nat, n \in S
      PROVE  n + 1 \in S
  <2>1. ASSUME n + 1 <= Len(list)
        PROVE  kept[n + 1] \in Seq(E)
    <3>1. n + 1 \in 1..Len(list) /\ n <= Len(list) /\ (n + 1) - 1 = n
      BY <1>1, <2>1
    <3>2. kept[n] \in Seq(E) /\ list[n + 1] \in E
      BY <1>1, <1>8, <3>1
    <3>3. kept[n + 1] = IF list[n + 1] = x THEN kept[n] ELSE Append(kept[n], list[n + 1])
      BY <1>6, <3>1
    <3>. QED  BY <3>2, <3>3
  <2>. QED  BY <2>1
<1>. HIDE DEF S
<1>9. Nat \subseteq S
  BY <1>7, <1>8, Induction
<1>10. \A n \in 0..Len(list) : kept[n] \in Seq(E)
  BY <1>1, <1>9 DEF S
<1>11. kept \in [0..Len(list) -> Seq(E)]
  BY <1>3, <1>10
<1>. QED  BY <1>2, <1>5, <1>6, <1>11 DEF Kept

(* Appending one entry.                                                    *)
LEMMA Appended ==
  ASSUME NEW E, NEW s \in Seq(E), NEW e \in E
  PROVE  /\ Append(s, e) \in Seq(E) /\ Len(Append(s, e)) = Len(s) + 1 /\ Len(s) \in Nat
         /\ \A i \in 1..Len(s) : Append(s, e)[i] = s[i]
         /\ Append(s, e)[Len(s) + 1] = e
         /\ Distinct(s) /\ (\A i \in 1..Len(s) : s[i] # e) => Distinct(Append(s, e))
<1>1. /\ Append(s, e) \in Seq(E) /\ Len(Append(s, e)) = Len(s) + 1 /\ Len(s) \in Nat
      /\ \A i \in 1..Len(s) : Append(s, e)[i] = s[i]
      /\ Append(s, e)[Len(s) + 1] = e
  BY AppendProperties, LenProperties
<1>2. ASSUME Distinct(s), \A i \in 1..Len(s) : s[i] # e
      PROVE  Distinct(Append(s, e))
  <2>1. ASSUME NEW i \in 1..(Len(s) + 1), NEW j \in 1..(Len(s) + 1), Append(s, e)[i] = Append(s, e)[j]
        PROVE  i = j
    <3>1. (i \in 1..Len(s) \/ i = Len(s) + 1) /\ (j \in 1..Len(s) \/ j = Len(s) + 1)
      BY <1>1
    <3>. QED  BY <1>1, <1>2, <2>1, <3>1 DEF Distinct
  <2>. QED  BY <1>1, <2>1 DEF Distinct
<1>. QED  BY <1>1, <1>2

(* After n entries the loop has some of them, none of them x, each as      *)
(* often as before or not at all, and fewer than n if x was one.           *)
After(s, list, x, n) ==
  /\ Len(s) <= n
  /\ \A i \in 1..Len(s) : s[i] # x /\ \E j \in 1..n : list[j] = s[i]
  /\ Distinct(list) => Distinct(s)
  /\ (\E j \in 1..n : list[j] = x) => Len(s) < n

LEMMA AfterStep ==
  ASSUME NEW E, NEW list \in Seq(E), NEW x, NEW n \in Nat, n + 1 <= Len(list),
         NEW s \in Seq(E), After(s, list, x, n),
         NEW t, t = IF list[n + 1] = x THEN s ELSE Append(s, list[n + 1])
  PROVE  After(t, list, x, n + 1)
<1>. DEFINE e == list[n + 1]
<1>1. e \in E /\ Len(list) \in Nat /\ Len(s) \in Nat /\ n + 1 \in 1..Len(list)
  BY LenProperties, ElementOfSeq
<1>2. \A j \in 1..n : j \in 1..(n + 1) /\ j \in 1..Len(list) /\ j # n + 1
  BY <1>1
<1>3. CASE e = x
  <2>1. t = s /\ n + 1 \in 1..(n + 1)
    BY <1>3
  <2>2. \A i \in 1..Len(s) : s[i] # x /\ \E j \in 1..(n + 1) : list[j] = s[i]
    BY <1>2 DEF After
  <2>3. Len(s) < n + 1
    BY <1>1 DEF After
  <2>. QED  BY <1>1, <2>1, <2>2, <2>3 DEF After
<1>4. CASE e # x
  <2>. HIDE DEF e
  <2>1. t = Append(s, e)
    BY <1>4 DEF e
  <2>2. /\ Len(t) = Len(s) + 1 /\ \A i \in 1..Len(s) : t[i] = s[i]
        /\ t[Len(s) + 1] = e
        /\ Distinct(s) /\ (\A i \in 1..Len(s) : s[i] # e) => Distinct(t)
    BY <1>1, <2>1, Appended
  <2>3. Len(t) <= n + 1
    BY <1>1, <2>2 DEF After
  <2>4. ASSUME NEW i \in 1..Len(t)
        PROVE  t[i] # x /\ \E j \in 1..(n + 1) : list[j] = t[i]
    <3>1. CASE i \in 1..Len(s)
      <4>1. t[i] = s[i] /\ s[i] # x
        BY <2>2, <3>1 DEF After
      <4>2. PICK j \in 1..n : list[j] = s[i]
        BY <3>1 DEF After
      <4>. QED  BY <1>2, <4>1, <4>2
    <3>2. CASE i = Len(s) + 1
      <4>1. t[i] = e /\ n + 1 \in 1..(n + 1) /\ list[n + 1] = e
        BY <2>2, <3>2 DEF e
      <4>. QED  BY <1>4, <4>1
    <3>. QED  BY <1>1, <2>2, <2>4, <3>1, <3>2
  <2>5. Distinct(list) => Distinct(t)
    <3>1. ASSUME Distinct(list), NEW i \in 1..Len(s)
          PROVE  s[i] # e
      <4>1. PICK j \in 1..n : list[j] = s[i]
        BY <3>1 DEF After
      <4>. QED  BY <1>1, <1>2, <3>1, <4>1 DEF Distinct, e
    <3>. QED  BY <2>2, <3>1 DEF After
  <2>6. (\E j \in 1..(n + 1) : list[j] = x) => Len(t) < n + 1
    <3>1. ASSUME NEW j \in 1..(n + 1), list[j] = x
          PROVE  j \in 1..n
      BY <1>4, <3>1 DEF e
    <3>. QED  BY <1>1, <2>2, <3>1 DEF After
  <2>. QED  BY <2>3, <2>4, <2>5, <2>6 DEF After
<1>. QED  BY <1>3, <1>4

(* Nothing of x is left in the list, and of the rest no more than there    *)
(* was.                                                                    *)
LEMMA WithoutFacts ==
  ASSUME NEW E, NEW list \in Seq(E), NEW x
  PROVE  Without(list, x) \in Seq(E) /\ After(Without(list, x), list, x, Len(list))
<1>0. Len(list) \in Nat
  BY LenProperties
<1>1. PICK kept : Kept(kept, list, x, E) /\ Without(list, x) = kept[Len(list)]
  BY WithoutKeeps
<1>. DEFINE S == {n \in Nat : n <= Len(list) => After(kept[n], list, x, n)}
<1>2. 0 \in S
  <2>1. kept[0] = <<>> /\ Len(<<>>) = 0
    BY <1>1 DEF Kept
  <2>2. After(<<>>, list, x, 0)
    BY DEF After, Distinct
  <2>. QED  BY <2>1, <2>2
<1>3. ASSUME NEW n \in Nat, n \in S
      PROVE  n + 1 \in S
  <2>1. ASSUME n + 1 <= Len(list)
        PROVE  After(kept[n + 1], list, x, n + 1)
    <3>1. n + 1 \in 1..Len(list) /\ (n + 1) - 1 = n /\ n \in 0..Len(list) /\ n <= Len(list)
      BY <1>0, <2>1
    <3>2. kept[n] \in Seq(E)
      BY <1>1, <3>1 DEF Kept
    <3>3. kept[n + 1] = IF list[n + 1] = x THEN kept[n] ELSE Append(kept[n], list[n + 1])
      BY <1>1, <3>1 DEF Kept
    <3>4. After(kept[n], list, x, n)
      BY <1>3, <3>1
    <3>. QED  BY <2>1, <3>2, <3>3, <3>4, AfterStep
  <2>. QED  BY <2>1
<1>. HIDE DEF S
<1>4. Nat \subseteq S
  BY <1>2, <1>3, Induction
<1>5. After(kept[Len(list)], list, x, Len(list))
  BY <1>0, <1>4 DEF S
<1>. QED  BY <1>0, <1>1, <1>5 DEF Kept

---------------------------------------------------------------------------
(* A list that another begins with.                                        *)
Begins(s, t) == Len(s) <= Len(t) /\ \A i \in 1..Len(s) : s[i] = t[i]

LEMMA BeginsTransitive ==
  ASSUME NEW E, NEW s \in Seq(E), NEW t \in Seq(E), NEW u \in Seq(E), Begins(s, t), Begins(t, u)
  PROVE  Begins(s, u)
<1>1. Len(s) \in Nat /\ Len(t) \in Nat /\ Len(u) \in Nat
  BY LenProperties
<1>. QED  BY <1>1 DEF Begins

LEMMA BeginsItself ==
  ASSUME NEW E, NEW s \in Seq(E)
  PROVE  Begins(s, s)
<1>1. Len(s) \in Nat
  BY LenProperties
<1>. QED  BY <1>1 DEF Begins

(* A list of which the same is taken out as of its beginning.              *)
LEMMA WithoutBegins ==
  ASSUME NEW E, NEW s \in Seq(E), NEW t \in Seq(E), NEW x, Begins(s, t)
  PROVE  Begins(Without(s, x), Without(t, x))
<1>1. Len(s) \in Nat /\ Len(t) \in Nat /\ Len(s) <= Len(t)
  BY LenProperties DEF Begins
<1>2. PICK f : Kept(f, s, x, E) /\ Without(s, x) = f[Len(s)]
  BY WithoutKeeps
<1>3. PICK g : Kept(g, t, x, E) /\ Without(t, x) = g[Len(t)]
  BY WithoutKeeps
<1>. DEFINE S == {n \in Nat : n <= Len(s) => f[n] = g[n]}
<1>4. Nat \subseteq S
  <2>1. 0 \in S
    BY <1>2, <1>3 DEF Kept
  <2>2. ASSUME NEW n \in Nat, n \in S
        PROVE  n + 1 \in S
    <3>1. ASSUME n + 1 <= Len(s)
          PROVE  f[n + 1] = g[n + 1]
      <4>1. n + 1 \in 1..Len(s) /\ n + 1 \in 1..Len(t) /\ (n + 1) - 1 = n /\ n <= Len(s)
        BY <1>1, <3>1
      <4>2. s[n + 1] = t[n + 1]
        BY <4>1 DEF Begins
      <4>3. f[n] = g[n]
        BY <2>2, <4>1
      <4>4. f[n + 1] = IF s[n + 1] = x THEN f[n] ELSE Append(f[n], s[n + 1])
        BY <1>2, <4>1 DEF Kept
      <4>5. g[n + 1] = IF t[n + 1] = x THEN g[n] ELSE Append(g[n], t[n + 1])
        BY <1>3, <4>1 DEF Kept
      <4>. QED  BY <4>2, <4>3, <4>4, <4>5
    <3>. QED  BY <3>1
  <2>. HIDE DEF S
  <2>. QED  BY <2>1, <2>2, Induction
<1>. DEFINE U == {n \in Nat : n \in Len(s)..Len(t) => Begins(g[Len(s)], g[n])}
<1>5. \A n \in 0..Len(t) : g[n] \in Seq(E)
  BY <1>3 DEF Kept
<1>6. Begins(g[Len(s)], g[Len(s)])
  BY <1>1, <1>5, BeginsItself
<1>7. Nat \subseteq U
  <2>1. 0 \in U
    BY <1>1, <1>6
  <2>2. ASSUME NEW n \in Nat, n \in U
        PROVE  n + 1 \in U
    <3>1. ASSUME n + 1 \in Len(s)..Len(t)
          PROVE  Begins(g[Len(s)], g[n + 1])
      <4>1. CASE n + 1 = Len(s)
        BY <1>6, <4>1
      <4>2. CASE n \in Len(s)..Len(t)
        <5>1. n + 1 \in 1..Len(t) /\ (n + 1) - 1 = n /\ n \in 0..Len(t) /\ Len(s) \in 0..Len(t)
          BY <1>1, <3>1, <4>2
        <5>2. g[Len(s)] \in Seq(E) /\ g[n] \in Seq(E) /\ g[n + 1] \in Seq(E) /\ t[n + 1] \in E
          BY <1>5, <5>1, ElementOfSeq
        <5>3. g[n + 1] = IF t[n + 1] = x THEN g[n] ELSE Append(g[n], t[n + 1])
          BY <1>3, <5>1 DEF Kept
        <5>4. Begins(g[Len(s)], g[n])
          BY <2>2, <4>2
        <5>5. Begins(g[n], g[n + 1])
          <6>1. CASE g[n + 1] = g[n]
            BY <5>2, <6>1, BeginsItself
          <6>2. CASE g[n + 1] = Append(g[n], t[n + 1])
            BY <5>2, <6>2, Appended DEF Begins
          <6>. QED  BY <5>3, <6>1, <6>2
        <5>. QED  BY <5>2, <5>4, <5>5, BeginsTransitive
      <4>. QED  BY <1>1, <3>1, <4>1, <4>2
    <3>. QED  BY <3>1
  <2>. HIDE DEF U
  <2>. QED  BY <2>1, <2>2, Induction
<1>8. f[Len(s)] = g[Len(s)]
  BY <1>1, <1>4
<1>9. Begins(g[Len(s)], g[Len(t)])
  BY <1>1, <1>7
<1>. QED  BY <1>2, <1>3, <1>8, <1>9

LEMMA CutFacts ==
  ASSUME NEW E, NEW list \in Seq(E), NEW n \in Nat
  PROVE  /\ Cut(list, n) \in Seq(E) /\ Len(Cut(list, n)) \in Nat /\ Len(Cut(list, n)) <= n
         /\ n <= Len(list) => Len(Cut(list, n)) = n
         /\ Begins(Cut(list, n), list)
<1>. DEFINE k == IF Len(list) < n THEN Len(list) ELSE n
<1>1. Len(list) \in Nat /\ k \in Nat /\ k <= Len(list) /\ k <= n /\ (n <= Len(list) => k = n)
  BY LenProperties
<1>2. Cut(list, n) = SubSeq(list, 1, k)
  BY DEF Cut
<1>. HIDE DEF k
<1>3. \A i \in 1..k : list[i] \in E
  BY <1>1, ElementOfSeq
<1>4. /\ SubSeq(list, 1, k) \in Seq(E) /\ Len(SubSeq(list, 1, k)) = (IF 1 <= k THEN k - 1 + 1 ELSE 0)
      /\ \A i \in 1..(k - 1 + 1) : SubSeq(list, 1, k)[i] = list[1 + i - 1]
  BY <1>1, <1>3, SubSeqProperties
<1>5. Len(SubSeq(list, 1, k)) = k /\ \A i \in 1..k : SubSeq(list, 1, k)[i] = list[i]
  BY <1>1, <1>4
<1>. QED  BY <1>1, <1>2, <1>4, <1>5 DEF Begins

LEMMA BeginsIsCut ==
  ASSUME NEW E, NEW s \in Seq(E), NEW t \in Seq(E), Begins(s, t)
  PROVE  s = Cut(t, Len(s))
<1>1. Len(s) \in Nat /\ Len(t) \in Nat /\ Len(s) <= Len(t)
  BY LenProperties DEF Begins
<1>2. /\ Cut(t, Len(s)) \in Seq(E) /\ Len(Cut(t, Len(s))) = Len(s)
      /\ Begins(Cut(t, Len(s)), t)
  BY <1>1, CutFacts
<1>3. \A i \in 1..Len(s) : s[i] = Cut(t, Len(s))[i]
  BY <1>2 DEF Begins
<1>. QED  BY <1>2, <1>3, SeqEqual

(* Putting an entry in front.                                              *)
LEMMA FirstFacts ==
  ASSUME NEW E, NEW s \in Seq(E), NEW e \in E
  PROVE  /\ <<e>> \o s \in Seq(E) /\ Len(<<e>> \o s) = Len(s) + 1 /\ Len(s) \in Nat
         /\ (<<e>> \o s)[1] = e
         /\ \A i \in 2..(Len(s) + 1) : (<<e>> \o s)[i] = s[i - 1]
         /\ Distinct(s) /\ (\A i \in 1..Len(s) : s[i] # e) => Distinct(<<e>> \o s)
<1>. DEFINE t == <<e>> \o s
<1>1. <<e>> \in Seq(E) /\ Len(<<e>>) = 1 /\ <<e>>[1] = e /\ Len(s) \in Nat
  BY LenProperties
<1>2. /\ t \in Seq(E) /\ Len(t) = 1 + Len(s)
      /\ \A i \in 1..(1 + Len(s)) : t[i] = IF i <= 1 THEN <<e>>[i] ELSE s[i - 1]
  BY <1>1, ConcatProperties
<1>3. t[1] = e /\ \A i \in 2..(Len(s) + 1) : t[i] = s[i - 1]
  BY <1>1, <1>2
<1>. HIDE DEF t
<1>4. ASSUME Distinct(s), \A i \in 1..Len(s) : s[i] # e
      PROVE  Distinct(t)
  <2>1. ASSUME NEW i \in 1..(Len(s) + 1), NEW j \in 1..(Len(s) + 1), t[i] = t[j]
        PROVE  i = j
    <3>1. i = 1 \/ (i \in 2..(Len(s) + 1) /\ i - 1 \in 1..Len(s))
      BY <1>1
    <3>2. j = 1 \/ (j \in 2..(Len(s) + 1) /\ j - 1 \in 1..Len(s))
      BY <1>1
    <3>3. i # 1 /\ j # 1 => i - 1 = j - 1
      BY <1>3, <1>4, <2>1, <3>1, <3>2 DEF Distinct
    <3>4. i = 1 <=> j = 1
      BY <1>3, <1>4, <2>1, <3>1, <3>2
    <3>. QED  BY <3>3, <3>4
  <2>. QED  BY <1>1, <1>2, <2>1 DEF Distinct
<1>. QED  BY <1>1, <1>2, <1>3, <1>4 DEF t

LEMMA FirstBegins ==
  ASSUME NEW E, NEW s \in Seq(E), NEW t \in Seq(E), NEW e \in E, Begins(s, t)
  PROVE  Begins(<<e>> \o s, <<e>> \o t)
<1>1. /\ Len(<<e>> \o s) = Len(s) + 1 /\ Len(s) \in Nat /\ (<<e>> \o s)[1] = e
      /\ \A i \in 2..(Len(s) + 1) : (<<e>> \o s)[i] = s[i - 1]
  BY FirstFacts
<1>2. /\ Len(<<e>> \o t) = Len(t) + 1 /\ Len(t) \in Nat /\ (<<e>> \o t)[1] = e
      /\ \A i \in 2..(Len(t) + 1) : (<<e>> \o t)[i] = t[i - 1]
  BY FirstFacts
<1>3. Len(s) <= Len(t) /\ \A i \in 1..Len(s) : s[i] = t[i]
  BY DEF Begins
<1>4. ASSUME NEW i \in 1..(Len(s) + 1)
      PROVE  (<<e>> \o s)[i] = (<<e>> \o t)[i]
  <2>1. i = 1 \/ (i \in 2..(Len(s) + 1) /\ i \in 2..(Len(t) + 1) /\ i - 1 \in 1..Len(s))
    BY <1>1, <1>2, <1>3
  <2>. QED  BY <1>1, <1>2, <1>3, <2>1
<1>. QED  BY <1>1, <1>2, <1>3, <1>4 DEF Begins

---------------------------------------------------------------------------
(* The lists of LocalLists: what an edit makes of one.                     *)

LEMMA EditedFacts ==
  ASSUME NEW list \in Seq(Entry), Distinct(list), Len(list) <= EntryLimit, NEW op, NEW x,
         op \in {"append", "next"} => x \in Entry, Fits(list, op, x)
  PROVE  /\ Edited(list, op, x) \in Seq(Entry) /\ Distinct(Edited(list, op, x))
         /\ Len(Edited(list, op, x)) <= EntryLimit
<1>0. Len(list) \in Nat /\ EntryLimit \in Nat /\ (x \in Elements(list) <=> \E i \in 1..Len(list) : list[i] = x)
  BY LenProperties, LocalListsAssumption DEF Elements
<1>. DEFINE rest == Without(list, x)
<1>1. rest \in Seq(Entry) /\ After(rest, list, x, Len(list)) /\ Len(rest) \in Nat
  BY WithoutFacts, LenProperties
<1>. HIDE DEF rest
<1>2. /\ Distinct(rest) /\ Len(rest) <= Len(list) /\ \A i \in 1..Len(rest) : rest[i] # x
      /\ x \in Elements(list) => Len(rest) < Len(list)
  BY <1>0, <1>1 DEF After
<1>3. CASE op = "append" /\ x \in Elements(list)
  BY <1>3 DEF Edited
<1>4. CASE op = "append" /\ x \notin Elements(list)
  <2>1. Edited(list, op, x) = Append(list, x) /\ x \in Entry /\ Len(list) < EntryLimit
    BY <1>4 DEF Edited, Fits
  <2>2. /\ Append(list, x) \in Seq(Entry) /\ Len(Append(list, x)) = Len(list) + 1
        /\ Distinct(list) /\ (\A i \in 1..Len(list) : list[i] # x) => Distinct(Append(list, x))
    BY <2>1, Appended
  <2>3. \A i \in 1..Len(list) : list[i] # x
    BY <1>0, <1>4
  <2>4. Len(list) + 1 <= EntryLimit
    BY <1>0, <2>1
  <2>. QED  BY <2>1, <2>2, <2>3, <2>4
<1>5. CASE op = "next"
  <2>1. Edited(list, op, x) = <<x>> \o rest /\ x \in Entry
    BY <1>5 DEF Edited, rest
  <2>2. /\ <<x>> \o rest \in Seq(Entry) /\ Len(<<x>> \o rest) = Len(rest) + 1
        /\ Distinct(rest) /\ (\A i \in 1..Len(rest) : rest[i] # x) => Distinct(<<x>> \o rest)
    BY <1>1, <2>1, FirstFacts
  <2>3. Len(rest) + 1 <= EntryLimit
    <3>1. CASE x \in Elements(list)
      BY <1>0, <1>1, <1>2, <3>1
    <3>2. CASE x \notin Elements(list)
      BY <1>0, <1>1, <1>2, <1>5, <3>2 DEF Fits
    <3>. QED  BY <3>1, <3>2
  <2>. QED  BY <1>2, <2>1, <2>2, <2>3
<1>6. CASE op = "remove"
  BY <1>0, <1>1, <1>2, <1>6 DEF Edited, rest
<1>7. CASE op \notin {"append", "next", "remove"}
  <2>1. Edited(list, op, x) = <<>> /\ <<>> \in Seq(Entry) /\ Len(<<>>) = 0 /\ Distinct(<<>>)
    BY <1>7, EmptySeq DEF Edited, Distinct
  <2>. QED  BY <1>0, <2>1
<1>. QED  BY <1>3, <1>4, <1>5, <1>6, <1>7

(* The history is cut, the log is not: the one stays how the other begins. *)
Logged(list, op, x) ==
  IF op = "clear" THEN <<>> ELSE IF op = "record" THEN <<x>> \o Without(list, x) ELSE Without(list, x)

LEMMA RecordedFacts ==
  ASSUME NEW list \in Seq(Entry), NEW all \in Seq(Entry), Begins(list, all), NEW op, NEW x,
         op = "record" => x \in Entry
  PROVE  /\ Recorded(list, op, x) \in Seq(Entry) /\ Logged(all, op, x) \in Seq(Entry)
         /\ Len(Recorded(list, op, x)) <= TermLimit
         /\ Begins(Recorded(list, op, x), Logged(all, op, x))
<1>. DEFINE next == IF op = "record" THEN <<x>> \o Without(list, x)
                    ELSE IF op = "remove" THEN Without(list, x) ELSE <<>>
            more == Logged(all, op, x)
<1>1. Recorded(list, op, x) = Cut(next, TermLimit) /\ TermLimit \in Nat
  BY LocalListsAssumption DEF Recorded
<1>2. Without(list, x) \in Seq(Entry) /\ Without(all, x) \in Seq(Entry) /\ <<>> \in Seq(Entry)
  BY WithoutFacts, EmptySeq
<1>3. Begins(Without(list, x), Without(all, x))
  BY WithoutBegins
<1>4. next \in Seq(Entry) /\ more \in Seq(Entry) /\ Begins(next, more)
  <2>1. CASE op = "record"
    <3>1. x \in Entry /\ next = <<x>> \o Without(list, x) /\ more = <<x>> \o Without(all, x)
      BY <2>1 DEF Logged
    <3>2. <<x>> \o Without(list, x) \in Seq(Entry)
      BY <1>2, <3>1, FirstFacts
    <3>3. <<x>> \o Without(all, x) \in Seq(Entry)
      BY <1>2, <3>1, FirstFacts
    <3>4. Begins(<<x>> \o Without(list, x), <<x>> \o Without(all, x))
      BY <1>2, <1>3, <3>1, FirstBegins
    <3>. QED  BY <3>1, <3>2, <3>3, <3>4
  <2>2. CASE op = "remove"
    BY <1>2, <1>3, <2>2 DEF Logged
  <2>3. CASE op \notin {"record", "remove"}
    <3>1. next = <<>> /\ more \in Seq(Entry)
      BY <1>2, <2>3 DEF Logged
    <3>2. Len(more) \in Nat /\ Len(<<>>) = 0
      BY <3>1, LenProperties
    <3>. QED  BY <1>2, <3>1, <3>2 DEF Begins
  <2>. QED  BY <2>1, <2>2, <2>3
<1>. HIDE DEF next, more
<1>5. /\ Cut(next, TermLimit) \in Seq(Entry) /\ Len(Cut(next, TermLimit)) <= TermLimit
      /\ Begins(Cut(next, TermLimit), next)
  BY <1>1, <1>4, CutFacts
<1>6. Begins(Cut(next, TermLimit), more)
  BY <1>4, <1>5, BeginsTransitive
<1>. QED  BY <1>1, <1>4, <1>5, <1>6 DEF more

---------------------------------------------------------------------------
(* The types.                                                              *)
Copies == [era : 0..MaxEra, owner : Owner, of : Owner, queue : Seq(Entry)]

Calls ==
  [phase : {"idle", "asked", "answered"}, kind : {"none", "queue", "history", "reload"},
   op : {"none", "append", "next", "remove", "record", "clear"}, era : 0..MaxEra, entry : Entry \cup {0},
   serial : 0..MaxReload, answer : Copies]

(* What adds an entry has one.                                             *)
HasEntry(call) == call.op \in {"append", "next", "record"} => call.entry \in Entry

Rows ==
  /\ queue \in [Owner -> Seq(Entry)] /\ terms \in [Owner -> Seq(Entry)] /\ log \in [Owner -> Seq(Entry)]

ListTypes ==
  /\ era \in 1..MaxEra /\ owner \in Owner /\ reloads \in 0..MaxReload
  /\ Rows
  /\ bridge \in [Bridge -> Calls] /\ \A b \in Bridge : HasEntry(bridge[b])
  /\ shown \in Copies

LEMMA CopyShape ==
  ASSUME ListTypes, NEW e \in 0..MaxEra, NEW list \in Seq(Entry)
  PROVE  /\ Copy(e, owner, owner, list) \in Copies
         /\ Copy(e, owner, owner, list).era = e /\ Copy(e, owner, owner, list).owner = owner
         /\ Copy(e, owner, owner, list).of = owner
BY DEF Copy, Copies, ListTypes

LEMMA FreeShape ==
  ASSUME ListTypes
  PROVE  Free \in Calls /\ Free.phase = "idle" /\ HasEntry(Free)
<1>1. 0 \in 0..MaxEra /\ 0 \in 0..MaxReload /\ <<>> \in Seq(Entry)
  BY LocalListsAssumption, EmptySeq
<1>2. Copy(0, owner, owner, <<>>) \in Copies
  BY <1>1, CopyShape
<1>. QED  BY <1>1, <1>2 DEF Free, Calls, HasEntry

(* One call of the bridge changes.                                         *)
Turned(b, new) == new \in Calls /\ HasEntry(new) /\ bridge' = [bridge EXCEPT ![b] = new]

LEMMA TurnedTypes ==
  ASSUME ListTypes, NEW b \in Bridge, NEW new, Turned(b, new)
  PROVE  /\ bridge' \in [Bridge -> Calls] /\ \A c \in Bridge : HasEntry(bridge'[c])
         /\ bridge'[b] = new /\ \A c \in Bridge \ {b} : bridge'[c] = bridge[c]
BY DEF Turned, ListTypes

LEMMA GiveTurn ==
  ASSUME ListTypes, NEW b \in Bridge, NEW copy \in Copies, Give(b, copy)
  PROVE  \E new : Turned(b, new) /\ new.phase = "answered" /\ new.answer = copy
<1>. DEFINE new == [bridge[b] EXCEPT !.phase = "answered", !.answer = copy]
<1>1. bridge \in [Bridge -> Calls] /\ bridge[b] \in Calls /\ HasEntry(bridge[b])
  BY DEF ListTypes
<1>2. bridge' = [bridge EXCEPT ![b] = new]
  BY <1>1 DEF Give
<1>3. new \in Calls /\ new.phase = "answered" /\ new.answer = copy /\ HasEntry(new)
  BY <1>1 DEF Calls, HasEntry
<1>. HIDE DEF new
<1>. QED  BY <1>2, <1>3 DEF Turned

LEMMA AskTurn ==
  ASSUME ListTypes, NEW b \in Bridge, NEW kind \in {"queue", "history", "reload"},
         NEW what \in {"none", "append", "next", "remove", "record", "clear"}, NEW entry \in Entry \cup {0},
         what \in {"append", "next", "record"} => entry \in Entry, reloads' \in 0..MaxReload,
         Ask(b, kind, what, entry)
  PROVE  \E new : Turned(b, new) /\ new.phase = "asked"
<1>. DEFINE new == [Free EXCEPT !.phase = "asked", !.kind = kind, !.op = what, !.era = shown.era,
                                !.entry = entry, !.serial = reloads']
<1>1. bridge' = [bridge EXCEPT ![b] = new]
  BY DEF Ask
<1>2. Free \in Calls /\ shown.era \in 0..MaxEra
  BY FreeShape DEF ListTypes, Copies
<1>3. new \in Calls /\ new.phase = "asked" /\ HasEntry(new)
  BY <1>2 DEF Calls, HasEntry
<1>. HIDE DEF new
<1>. QED  BY <1>1, <1>3 DEF Turned

(* What each step does to the calls of the bridge and to the page.         *)
LEMMA AskOutcome ==
  ASSUME ListTypes, NEW b \in Bridge, AskList(b) \/ AskReload(b)
  PROVE  /\ UNCHANGED <<era, owner, queue, terms, shown, log>> /\ reloads' \in 0..MaxReload
         /\ \E new : Turned(b, new) /\ new.phase = "asked"
<1>1. UNCHANGED <<era, owner, queue, terms, shown, log>>
  BY DEF AskList, AskReload
<1>2. reloads' \in 0..MaxReload
  BY LocalListsAssumption DEF AskList, AskReload, ListTypes
<1>3. \E kind \in {"queue", "history", "reload"}, what \in {"none", "append", "next", "remove", "record", "clear"},
         entry \in Entry \cup {0} :
           (what \in {"append", "next", "record"} => entry \in Entry) /\ Ask(b, kind, what, entry)
  <2>1. CASE AskReload(b)
    <3>1. Ask(b, "reload", "none", 0)
      BY <2>1 DEF AskReload
    <3>. QED  BY <3>1
  <2>2. CASE \E entry \in Entry, what \in {"append", "next", "remove"} : Ask(b, "queue", what, entry)
    BY <2>2
  <2>3. CASE \E entry \in Entry, what \in {"record", "remove"} : Ask(b, "history", what, entry)
    BY <2>3
  <2>4. CASE \E kind \in {"queue", "history"} : Ask(b, kind, "clear", 0)
    BY <2>4
  <2>. QED  BY <2>1, <2>2, <2>3, <2>4 DEF AskList
<1>. QED  BY <1>1, <1>2, <1>3, AskTurn

LEMMA AnswerOutcome ==
  ASSUME ListTypes, NEW b \in Bridge, localList(b) \/ Bootstrap(b)
  PROVE  /\ UNCHANGED <<era, owner, terms, reloads, shown, log>>
         /\ queue' = queue
            \/ /\ queue' = [queue EXCEPT ![owner] = Edited(@, bridge[b].op, bridge[b].entry)]
               /\ Fits(queue[owner], bridge[b].op, bridge[b].entry)
         /\ queue' \in [Owner -> Seq(Entry)] =>
              \E new : /\ Turned(b, new) /\ new.phase = "answered"
                       /\ new.answer.era = era /\ new.answer.owner = owner /\ new.answer.of = owner
<1>1. /\ UNCHANGED <<era, owner, terms, reloads, shown, log>>
      /\ queue' = queue
            \/ /\ queue' = [queue EXCEPT ![owner] = Edited(@, bridge[b].op, bridge[b].entry)]
               /\ Fits(queue[owner], bridge[b].op, bridge[b].entry)
      /\ Give(b, Copy(era, owner, owner, queue'[owner]))
  <2>1. CASE Bootstrap(b)
    BY <2>1 DEF Bootstrap
  <2>2. CASE localList(b)
    <3>. DEFINE list == Edited(queue[owner], bridge[b].op, bridge[b].entry)
    <3>1. /\ Fits(queue[owner], bridge[b].op, bridge[b].entry)
          /\ queue' = [queue EXCEPT ![owner] = list]
          /\ Give(b, Copy(era, owner, owner, list))
          /\ UNCHANGED <<era, owner, terms, reloads, shown, log>>
      BY <2>2 DEF localList
    <3>2. queue'[owner] = list
      BY <3>1 DEF ListTypes, Rows
    <3>. QED  BY <3>1, <3>2
  <2>. QED  BY <2>1, <2>2
<1>2. ASSUME queue' \in [Owner -> Seq(Entry)]
      PROVE  \E new : /\ Turned(b, new) /\ new.phase = "answered"
                      /\ new.answer.era = era /\ new.answer.owner = owner /\ new.answer.of = owner
  <2>1. era \in 0..MaxEra /\ queue'[owner] \in Seq(Entry)
    BY <1>2 DEF ListTypes
  <2>2. PICK copy : /\ copy = Copy(era, owner, owner, queue'[owner]) /\ copy \in Copies
                    /\ copy.era = era /\ copy.owner = owner /\ copy.of = owner
    BY <2>1, CopyShape
  <2>3. Give(b, copy)
    BY <1>1, <2>2
  <2>. QED  BY <2>2, <2>3, GiveTurn
<1>. QED  BY <1>1, <1>2

LEMMA FreedOutcome ==
  ASSUME ListTypes, NEW b \in Bridge, DiscoveryHistory(b) \/ Refused(b) \/ Arrive(b)
  PROVE  /\ UNCHANGED <<era, owner, queue, reloads>> /\ Turned(b, Free)
         /\ Arrive(b) \/ shown' = shown
BY FreeShape DEF DiscoveryHistory, Refused, Arrive, Turned

LEMMA HistoryOutcome ==
  ASSUME ListTypes, NEW b \in Bridge, DiscoveryHistory(b)
  PROVE  /\ terms' = [terms EXCEPT ![owner] = Recorded(@, bridge[b].op, bridge[b].entry)]
         /\ log' = [log EXCEPT ![owner] = Logged(@, bridge[b].op, bridge[b].entry)]
BY DEF DiscoveryHistory, Logged

(* Whoever the session belongs to next.                                    *)
LEMMA MoveOutcome ==
  ASSUME ListTypes, SignOut \/ \E who \in Owner : SignIn(who)
  PROVE  /\ era' = era + 1 /\ era' \in 1..MaxEra /\ owner' \in Owner /\ UNCHANGED <<bridge, reloads, shown>>
         /\ \E owners : /\ queue' = Emptied(queue, owners) /\ terms' = Emptied(terms, owners)
                        /\ log' = Emptied(log, owners)
<1>1. era' = era + 1 /\ era < MaxEra /\ owner' \in Owner /\ UNCHANGED <<bridge, reloads, shown>>
  BY LocalListsAssumption DEF SignOut, SignIn, Move
<1>2. era' \in 1..MaxEra
  BY <1>1, LocalListsAssumption DEF ListTypes
<1>3. CASE UNCHANGED <<queue, terms, log>>
  <2>1. \A rows \in [Owner -> Seq(Entry)] : Emptied(rows, {}) = rows
    BY DEF Emptied
  <2>2. queue' = Emptied(queue, {}) /\ terms' = Emptied(terms, {}) /\ log' = Emptied(log, {})
    BY <1>3, <2>1 DEF ListTypes, Rows
  <2>. QED  BY <1>1, <1>2, <2>2
<1>4. CASE SignOut
  BY <1>1, <1>2, <1>4 DEF SignOut
<1>. QED  BY <1>3, <1>4 DEF SignIn

(* What is on disk: each list within its limit and without repetition, the *)
(* search history the beginning of all that was searched for.              *)
ListTrue(o) ==
  /\ Distinct(queue[o]) /\ Len(queue[o]) <= EntryLimit
  /\ Len(terms[o]) <= TermLimit /\ Begins(terms[o], log[o])

RowsTrue == \A o \in Owner : ListTrue(o)

LEMMA StepRows == ListTypes /\ RowsTrue /\ [LocalNext]_localVars => Rows' /\ RowsTrue'
<1>. SUFFICES ASSUME ListTypes, RowsTrue, [LocalNext]_localVars PROVE Rows' /\ RowsTrue'
  OBVIOUS
<1>0. Rows /\ owner \in Owner
  BY DEF ListTypes
<1>1. CASE UNCHANGED <<queue, terms, log>>
  BY <1>0, <1>1 DEF Rows, RowsTrue, ListTrue
<1>2. ASSUME NEW b \in Bridge, localList(b) \/ Bootstrap(b)
      PROVE  Rows' /\ RowsTrue'
  <2>1. UNCHANGED <<terms, log>>
    BY <1>2, AnswerOutcome
  <2>2. CASE queue' = queue
    BY <1>1, <2>1, <2>2
  <2>3. CASE /\ queue' = [queue EXCEPT ![owner] = Edited(@, bridge[b].op, bridge[b].entry)]
             /\ Fits(queue[owner], bridge[b].op, bridge[b].entry)
    <3>. DEFINE list == Edited(queue[owner], bridge[b].op, bridge[b].entry)
    <3>1. queue' = [queue EXCEPT ![owner] = list]
      BY <2>3
    <3>2. queue[owner] \in Seq(Entry) /\ Distinct(queue[owner]) /\ Len(queue[owner]) <= EntryLimit
      BY <1>0 DEF Rows, RowsTrue, ListTrue
    <3>3. bridge[b].op \in {"append", "next"} => bridge[b].entry \in Entry
      BY DEF ListTypes, HasEntry
    <3>4. list \in Seq(Entry) /\ Distinct(list) /\ Len(list) <= EntryLimit
      BY <2>3, <3>2, <3>3, EditedFacts
    <3>. HIDE DEF list
    <3>5. queue' \in [Owner -> Seq(Entry)] /\ queue'[owner] = list /\ \A o \in Owner \ {owner} : queue'[o] = queue[o]
      BY <1>0, <3>1, <3>4 DEF Rows
    <3>6. Rows'
      BY <1>0, <2>1, <3>5 DEF Rows
    <3>7. ASSUME NEW o \in Owner
          PROVE  ListTrue(o)'
      <4>1. Len(terms[o]) <= TermLimit /\ Begins(terms[o], log[o]) /\ Distinct(queue[o]) /\ Len(queue[o]) <= EntryLimit
        BY DEF RowsTrue, ListTrue
      <4>2. Distinct(queue'[o]) /\ Len(queue'[o]) <= EntryLimit
        BY <3>4, <3>5, <4>1
      <4>. QED  BY <2>1, <4>1, <4>2 DEF ListTrue
    <3>. QED  BY <3>6, <3>7 DEF RowsTrue
  <2>. QED  BY <1>2, <2>2, <2>3, AnswerOutcome
<1>3. ASSUME NEW b \in Bridge, DiscoveryHistory(b)
      PROVE  Rows' /\ RowsTrue'
  <2>. DEFINE list == Recorded(terms[owner], bridge[b].op, bridge[b].entry)
              all == Logged(log[owner], bridge[b].op, bridge[b].entry)
  <2>1. terms' = [terms EXCEPT ![owner] = list] /\ log' = [log EXCEPT ![owner] = all] /\ queue' = queue
    BY <1>3, HistoryOutcome, FreedOutcome
  <2>2. /\ terms[owner] \in Seq(Entry) /\ log[owner] \in Seq(Entry) /\ Begins(terms[owner], log[owner])
        /\ bridge[b].op = "record" => bridge[b].entry \in Entry
    BY <1>0 DEF Rows, RowsTrue, ListTrue, ListTypes, HasEntry
  <2>3. list \in Seq(Entry) /\ all \in Seq(Entry) /\ Len(list) <= TermLimit /\ Begins(list, all)
    BY <2>2, RecordedFacts
  <2>. HIDE DEF list, all
  <2>4. /\ terms' \in [Owner -> Seq(Entry)] /\ terms'[owner] = list /\ \A o \in Owner \ {owner} : terms'[o] = terms[o]
        /\ log' \in [Owner -> Seq(Entry)] /\ log'[owner] = all /\ \A o \in Owner \ {owner} : log'[o] = log[o]
    BY <1>0, <2>1, <2>3 DEF Rows
  <2>5. Rows'
    BY <1>0, <2>1, <2>4 DEF Rows
  <2>6. ASSUME NEW o \in Owner
        PROVE  ListTrue(o)'
    <3>1. Len(terms[o]) <= TermLimit /\ Begins(terms[o], log[o]) /\ Distinct(queue[o]) /\ Len(queue[o]) <= EntryLimit
      BY DEF RowsTrue, ListTrue
    <3>2. Len(terms'[o]) <= TermLimit /\ Begins(terms'[o], log'[o])
      BY <2>3, <2>4, <3>1
    <3>. QED  BY <2>1, <3>1, <3>2 DEF ListTrue
  <2>. QED  BY <2>5, <2>6 DEF RowsTrue
<1>4. CASE SignOut \/ \E who \in Owner : SignIn(who)
  <2>1. PICK owners : /\ queue' = Emptied(queue, owners) /\ terms' = Emptied(terms, owners)
                      /\ log' = Emptied(log, owners)
    BY <1>4, MoveOutcome
  <2>2. ASSUME NEW o \in Owner
        PROVE  /\ ListTrue(o)'
               /\ queue'[o] \in Seq(Entry) /\ terms'[o] \in Seq(Entry) /\ log'[o] \in Seq(Entry)
    <3>1. /\ Len(terms[o]) <= TermLimit /\ Begins(terms[o], log[o]) /\ Distinct(queue[o]) /\ Len(queue[o]) <= EntryLimit
          /\ queue[o] \in Seq(Entry) /\ terms[o] \in Seq(Entry) /\ log[o] \in Seq(Entry)
      BY <1>0 DEF RowsTrue, ListTrue, Rows
    <3>2. /\ <<>> \in Seq(Entry) /\ Len(<<>>) = 0 /\ Distinct(<<>>) /\ Begins(<<>>, <<>>)
          /\ EntryLimit \in Nat /\ TermLimit \in Nat
      BY EmptySeq, LocalListsAssumption DEF Distinct, Begins
    <3>3. CASE o \in owners
      <4>1. queue'[o] = <<>> /\ terms'[o] = <<>> /\ log'[o] = <<>>
        BY <2>1, <3>3 DEF Emptied
      <4>. QED  BY <3>2, <4>1 DEF ListTrue
    <3>4. CASE o \notin owners
      <4>1. queue'[o] = queue[o] /\ terms'[o] = terms[o] /\ log'[o] = log[o]
        BY <2>1, <3>4 DEF Emptied
      <4>. QED  BY <3>1, <4>1 DEF ListTrue
    <3>. QED  BY <3>3, <3>4
  <2>3. Rows'
    <3>1. queue' = [o \in Owner |-> queue'[o]] /\ terms' = [o \in Owner |-> terms'[o]] /\ log' = [o \in Owner |-> log'[o]]
      BY <2>1 DEF Emptied
    <3>. QED  BY <2>2, <3>1 DEF Rows
  <2>. QED  BY <2>2, <2>3 DEF RowsTrue
<1>5. ASSUME NEW b \in Bridge, AskList(b) \/ AskReload(b) \/ Refused(b) \/ Arrive(b)
      PROVE  Rows' /\ RowsTrue'
  <2>1. UNCHANGED <<queue, terms, log>>
    BY <1>5 DEF AskList, AskReload, Refused, Arrive
  <2>. QED  BY <1>1, <2>1
<1>6. CASE UNCHANGED localVars
  <2>1. UNCHANGED <<queue, terms, log>>
    BY <1>6 DEF localVars
  <2>. QED  BY <1>1, <2>1
<1>. QED  BY <1>2, <1>3, <1>4, <1>5, <1>6 DEF LocalNext

---------------------------------------------------------------------------
(* Steps, as far as calls and copies go: a call is asked, answered with a  *)
(* copy of now, or freed; an answer arrives; or the session moves on.      *)
OfNow(copy) == copy.era = era /\ copy.owner = owner /\ copy.of = owner

CallTurns ==
  /\ UNCHANGED <<era, owner, shown>> /\ reloads' \in 0..MaxReload
  /\ \E b \in Bridge : \E new : Turned(b, new) /\ (new.phase = "answered" => OfNow(new.answer))

Arrives(b) == Arrive(b) /\ Turned(b, Free) /\ UNCHANGED <<era, owner, reloads>>

MovesOn ==
  era' = era + 1 /\ era' \in 1..MaxEra /\ owner' \in Owner /\ UNCHANGED <<bridge, reloads, shown>>

LEMMA StepKinds ==
  ASSUME ListTypes, RowsTrue, [LocalNext]_localVars
  PROVE  \/ CallTurns
         \/ \E b \in Bridge : Arrives(b)
         \/ MovesOn
         \/ UNCHANGED <<era, owner, bridge, reloads, shown>>
<1>1. ASSUME NEW b \in Bridge, AskList(b) \/ AskReload(b)
      PROVE  CallTurns
  BY <1>1, AskOutcome DEF CallTurns
<1>2. ASSUME NEW b \in Bridge, localList(b) \/ Bootstrap(b)
      PROVE  CallTurns
  <2>1. Rows'
    BY StepRows
  <2>2. PICK new : /\ Turned(b, new) /\ new.phase = "answered"
                   /\ new.answer.era = era /\ new.answer.owner = owner /\ new.answer.of = owner
    BY <1>2, <2>1, AnswerOutcome DEF Rows
  <2>3. UNCHANGED <<era, owner, shown, reloads>> /\ reloads' \in 0..MaxReload
    BY <1>2, AnswerOutcome DEF ListTypes
  <2>. QED  BY <2>2, <2>3 DEF CallTurns, OfNow
<1>3. ASSUME NEW b \in Bridge, DiscoveryHistory(b) \/ Refused(b)
      PROVE  CallTurns
  <2>1. UNCHANGED <<era, owner, reloads>> /\ Turned(b, Free) /\ shown' = shown
    BY <1>3, FreedOutcome DEF DiscoveryHistory, Refused
  <2>2. Free.phase = "idle" /\ reloads' \in 0..MaxReload
    BY <2>1, FreeShape DEF ListTypes
  <2>. QED  BY <2>1, <2>2 DEF CallTurns
<1>4. ASSUME NEW b \in Bridge, Arrive(b)
      PROVE  Arrives(b)
  BY <1>4, FreedOutcome DEF Arrives
<1>5. ASSUME SignOut \/ \E who \in Owner : SignIn(who)
      PROVE  MovesOn
  BY <1>5, MoveOutcome DEF MovesOn
<1>. QED  BY <1>1, <1>2, <1>3, <1>4, <1>5 DEF LocalNext, localVars

(* The page keeps what it shows, takes a whole answer, or only its queue.  *)
LEMMA ArriveShows ==
  ASSUME ListTypes, NEW b \in Bridge, Arrives(b)
  PROVE  /\ bridge[b].phase = "answered" /\ bridge[b].answer \in Copies /\ shown' \in Copies
         /\ \/ shown' = shown
            \/ shown' = bridge[b].answer
            \/ /\ bridge[b].answer.era = shown.era
               /\ shown'.era = shown.era /\ shown'.owner = shown.owner /\ shown'.of = bridge[b].answer.of
<1>. DEFINE ans == bridge[b].answer
            next == [shown EXCEPT !.of = ans.of, !.queue = ans.queue]
<1>1. bridge[b].phase = "answered" /\ ans \in Copies /\ shown \in Copies
  BY DEF Arrives, Arrive, ListTypes, Calls
<1>2. shown' = shown \/ shown' = ans \/ (ans.era = shown.era /\ shown' = next)
  BY DEF Arrives, Arrive, Reloaded, Takes
<1>3. next \in Copies /\ next.era = shown.era /\ next.owner = shown.owner /\ next.of = ans.of
  BY <1>1 DEF Copies
<1>. HIDE DEF ans, next
<1>4. CASE shown' = shown
  BY <1>1, <1>4 DEF ans
<1>5. CASE shown' = ans
  BY <1>1, <1>5 DEF ans
<1>6. CASE ans.era = shown.era /\ shown' = next
  BY <1>1, <1>3, <1>6 DEF ans
<1>. QED  BY <1>2, <1>4, <1>5, <1>6

LEMMA StepTypes == ListTypes /\ RowsTrue /\ [LocalNext]_localVars => ListTypes'
<1>. SUFFICES ASSUME ListTypes, RowsTrue, [LocalNext]_localVars PROVE ListTypes'
  OBVIOUS
<1>1. Rows'
  BY StepRows
<1>2. /\ era \in 1..MaxEra /\ owner \in Owner /\ reloads \in 0..MaxReload /\ shown \in Copies
      /\ bridge \in [Bridge -> Calls] /\ \A b \in Bridge : HasEntry(bridge[b])
  BY DEF ListTypes
<1>3. /\ era' \in 1..MaxEra /\ owner' \in Owner /\ reloads' \in 0..MaxReload /\ shown' \in Copies
      /\ bridge' \in [Bridge -> Calls] /\ \A b \in Bridge : HasEntry(bridge'[b])
  <2>1. CASE CallTurns
    <3>1. PICK b \in Bridge : \E new : Turned(b, new)
      BY <2>1 DEF CallTurns
    <3>2. PICK new : Turned(b, new)
      BY <3>1
    <3>. QED  BY <1>2, <2>1, <3>2, TurnedTypes DEF CallTurns
  <2>2. ASSUME NEW b \in Bridge, Arrives(b)
        PROVE  /\ era' \in 1..MaxEra /\ owner' \in Owner /\ reloads' \in 0..MaxReload /\ shown' \in Copies
               /\ bridge' \in [Bridge -> Calls] /\ \A c \in Bridge : HasEntry(bridge'[c])
    <3>1. Turned(b, Free) /\ UNCHANGED <<era, owner, reloads>> /\ shown' \in Copies
      BY <2>2, ArriveShows DEF Arrives
    <3>. QED  BY <1>2, <3>1, TurnedTypes
  <2>3. CASE MovesOn
    BY <1>2, <2>3 DEF MovesOn
  <2>4. CASE UNCHANGED <<era, owner, bridge, reloads, shown>>
    BY <1>2, <2>4
  <2>. QED  BY <2>1, <2>2, <2>3, <2>4, StepKinds
<1>. QED  BY <1>1, <1>3 DEF ListTypes, Rows, HasEntry

LEMMA InitTypes == LocalInit => ListTypes /\ RowsTrue
<1>. SUFFICES ASSUME LocalInit PROVE ListTypes /\ RowsTrue
  OBVIOUS
<1>1. /\ era = 1 /\ owner \in Owner /\ reloads = 0 /\ shown = Copy(1, owner, owner, <<>>)
      /\ queue = [o \in Owner |-> <<>>] /\ terms = [o \in Owner |-> <<>>] /\ log = [o \in Owner |-> <<>>]
      /\ bridge = [b \in Bridge |-> Free]
  BY DEF LocalInit
<1>2. /\ 1 \in 1..MaxEra /\ 1 \in 0..MaxEra /\ 0 \in 0..MaxEra /\ 0 \in 0..MaxReload
      /\ EntryLimit \in Nat /\ TermLimit \in Nat
      /\ <<>> \in Seq(Entry) /\ Len(<<>>) = 0 /\ Distinct(<<>>) /\ Begins(<<>>, <<>>)
  BY LocalListsAssumption, EmptySeq DEF Distinct, Begins
<1>3. Rows
  BY <1>1, <1>2 DEF Rows
<1>4. RowsTrue
  <2>1. \A o \in Owner : queue[o] = <<>> /\ terms[o] = <<>> /\ log[o] = <<>>
    BY <1>1
  <2>2. 0 <= EntryLimit /\ 0 <= TermLimit
    BY <1>2
  <2>3. ASSUME NEW o \in Owner
        PROVE  ListTrue(o)
    <3>1. Distinct(queue[o]) /\ Begins(terms[o], log[o])
      BY <1>2, <2>1
    <3>2. Len(queue[o]) <= EntryLimit /\ Len(terms[o]) <= TermLimit
      BY <1>2, <2>1, <2>2
    <3>. QED  BY <3>1, <3>2 DEF ListTrue
  <2>. QED  BY <2>3 DEF RowsTrue
<1>5. Copy(1, owner, owner, <<>>) \in Copies /\ Copy(0, owner, owner, <<>>) \in Copies
  BY <1>1, <1>2 DEF Copy, Copies
<1>6. Free \in Calls /\ HasEntry(Free)
  BY <1>2, <1>5 DEF Free, Calls, HasEntry
<1>. QED  BY <1>1, <1>2, <1>3, <1>4, <1>5, <1>6 DEF ListTypes

(* Every copy of a queue, shown or on its way to the page.                 *)
Held(copy) ==
  copy = shown \/ \E b \in Bridge : bridge[b].phase = "answered" /\ bridge[b].answer = copy

Known(copy) == copy.of = copy.owner /\ copy.era <= era /\ (copy.era = era => copy.owner = owner)

(* A copy is its owner's, and an epoch has one owner.                      *)
CopiesTrue ==
  /\ \A copy \in Copies : Held(copy) => Known(copy)
  /\ \A one, other \in Copies : Held(one) /\ Held(other) /\ one.era = other.era => one.owner = other.owner

Alike(one, other) == one.era = other.era /\ one.owner = other.owner /\ one.of = other.of

LEMMA CopiesKept ==
  ASSUME ListTypes, CopiesTrue, UNCHANGED <<era, owner>>,
         \A copy \in Copies : Held(copy)' =>
           OfNow(copy) \/ \E old \in Copies : Held(old) /\ Alike(old, copy)
  PROVE  CopiesTrue'
<1>0. era \in Nat
  BY LocalListsAssumption DEF ListTypes
<1>1. ASSUME NEW copy \in Copies, Held(copy)'
      PROVE  Known(copy)'
  <2>1. CASE OfNow(copy)
    BY <1>0, <2>1 DEF OfNow, Known
  <2>2. ASSUME NEW old \in Copies, Held(old), Alike(old, copy)
        PROVE  Known(copy)'
    BY <2>2 DEF CopiesTrue, Known, Alike
  <2>. QED  BY <1>1, <2>1, <2>2
<1>2. ASSUME NEW one \in Copies, NEW other \in Copies, Held(one)', Held(other)', one.era = other.era
      PROVE  one.owner = other.owner
  <2>1. CASE OfNow(one)
    BY <1>1, <1>2, <2>1 DEF OfNow, Known
  <2>2. CASE OfNow(other)
    BY <1>1, <1>2, <2>2 DEF OfNow, Known
  <2>3. ASSUME NEW p \in Copies, NEW q \in Copies, Held(p), Alike(p, one), Held(q), Alike(q, other)
        PROVE  one.owner = other.owner
    BY <1>2, <2>3 DEF CopiesTrue, Alike
  <2>. QED  BY <1>2, <2>1, <2>2, <2>3
<1>. QED  BY <1>1, <1>2 DEF CopiesTrue

LEMMA StepCopies == ListTypes /\ RowsTrue /\ CopiesTrue /\ [LocalNext]_localVars => CopiesTrue'
<1>. SUFFICES ASSUME ListTypes, RowsTrue, CopiesTrue, [LocalNext]_localVars PROVE CopiesTrue'
  OBVIOUS
<1>0. era \in Nat /\ shown \in Copies /\ Held(shown)
  BY LocalListsAssumption DEF ListTypes, Held
<1>1. CASE CallTurns
  <2>1. UNCHANGED <<era, owner, shown>>
    BY <1>1 DEF CallTurns
  <2>0. PICK b \in Bridge : \E new : Turned(b, new) /\ (new.phase = "answered" => OfNow(new.answer))
    BY <1>1 DEF CallTurns
  <2>2. PICK new : Turned(b, new) /\ (new.phase = "answered" => OfNow(new.answer))
    BY <2>0
  <2>3. bridge'[b] = new /\ \A c \in Bridge \ {b} : bridge'[c] = bridge[c]
    BY <2>2, TurnedTypes
  <2>4. ASSUME NEW copy \in Copies, Held(copy)'
        PROVE  OfNow(copy) \/ Held(copy)
    BY <2>1, <2>2, <2>3, <2>4 DEF Held
  <2>. QED  BY <2>1, <2>4, CopiesKept DEF Alike
<1>2. ASSUME NEW b \in Bridge, Arrives(b)
      PROVE  CopiesTrue'
  <2>1. UNCHANGED <<era, owner>> /\ Turned(b, Free) /\ Free.phase = "idle"
    BY <1>2, FreeShape DEF Arrives
  <2>2. bridge'[b] = Free /\ \A c \in Bridge \ {b} : bridge'[c] = bridge[c]
    BY <2>1, TurnedTypes
  <2>3. \A copy \in Copies : Held(copy)' => copy = shown' \/ Held(copy)
    BY <2>1, <2>2 DEF Held
  <2>4. \E old \in Copies : Held(old) /\ Alike(old, shown')
    <3>1. bridge[b].answer \in Copies /\ Held(bridge[b].answer)
      BY <1>2, ArriveShows DEF Held
    <3>2. CASE shown' = shown \/ shown' = bridge[b].answer
      BY <1>0, <3>1, <3>2 DEF Alike
    <3>3. CASE /\ bridge[b].answer.era = shown.era
               /\ shown'.era = shown.era /\ shown'.owner = shown.owner /\ shown'.of = bridge[b].answer.of
      <4>1. Known(bridge[b].answer) /\ Known(shown) /\ bridge[b].answer.owner = shown.owner
        BY <1>0, <3>1, <3>3 DEF CopiesTrue
      <4>2. Alike(shown, shown')
        BY <3>3, <4>1 DEF Known, Alike
      <4>. QED  BY <1>0, <4>2
    <3>. QED  BY <1>2, <3>2, <3>3, ArriveShows
  <2>. QED  BY <2>1, <2>3, <2>4, CopiesKept DEF Alike
<1>3. CASE MovesOn
  <2>1. era' = era + 1 /\ UNCHANGED <<bridge, shown>>
    BY <1>3 DEF MovesOn
  <2>2. \A copy \in Copies : Held(copy)' <=> Held(copy)
    BY <2>1 DEF Held
  <2>3. ASSUME NEW copy \in Copies, Held(copy)
        PROVE  Known(copy)'
    <3>1. Known(copy) /\ copy.era \in Nat
      BY <2>3, LocalListsAssumption DEF CopiesTrue, Copies
    <3>. QED  BY <1>0, <2>1, <3>1 DEF Known
  <2>. QED  BY <2>2, <2>3 DEF CopiesTrue
<1>4. CASE UNCHANGED <<era, owner, bridge, reloads, shown>>
  BY <1>4 DEF CopiesTrue, Held, Known
<1>. QED  BY <1>1, <1>2, <1>3, <1>4, StepKinds

---------------------------------------------------------------------------
(* The inductive invariant.                                                *)
ListsInv == ListTypes /\ RowsTrue /\ CopiesTrue

LEMMA DeviceLists == LocalSpec => []ListsInv
<1>1. LocalInit => ListsInv
  <2>. SUFFICES ASSUME LocalInit PROVE ListsInv
    OBVIOUS
  <2>1. ListTypes /\ RowsTrue
    BY InitTypes
  <2>2. era = 1 /\ shown = Copy(1, owner, owner, <<>>) /\ \A b \in Bridge : bridge[b].phase = "idle"
    BY FreeShape, <2>1 DEF LocalInit
  <2>3. \A copy \in Copies : Held(copy) => copy = shown
    BY <2>2 DEF Held
  <2>4. Known(shown)
    BY <2>2 DEF Known, Copy
  <2>. QED  BY <2>1, <2>3, <2>4 DEF ListsInv, CopiesTrue
<1>2. ListsInv /\ [LocalNext]_localVars => ListsInv'
  BY StepRows, StepTypes, StepCopies DEF ListsInv
<1>. QED  BY <1>1, <1>2, PTL DEF LocalSpec

(* Every list is a list of entries, every call one the page may make, and  *)
(* every copy of the queue somebody's: localList and DiscoveryHistory.     *)
THEOREM DeviceListTypes == LocalSpec => []LocalTypeOK
<1>1. ListsInv => LocalTypeOK
  <2>. SUFFICES ASSUME ListsInv PROVE LocalTypeOK
    OBVIOUS
  <2>1. \A copy \in Copies : Shown(copy)
    BY DEF Copies, Shown
  <2>2. \A list \in {queue, terms, log} : DOMAIN list = Owner /\ \A o \in Owner : list[o] \in Seq(Entry)
    BY DEF ListsInv, ListTypes, Rows
  <2>3. ASSUME NEW b \in Bridge
        PROVE  /\ bridge[b].phase \in {"idle", "asked", "answered"}
               /\ bridge[b].kind \in {"none", "queue", "history", "reload"}
               /\ bridge[b].entry \in Entry \cup {0} /\ bridge[b].serial \in 0..MaxReload
               /\ bridge[b].answer \in Copies
    BY DEF ListsInv, ListTypes, Calls
  <2>. QED  BY <2>1, <2>2, <2>3 DEF ListsInv, ListTypes, LocalTypeOK
<1>. QED  BY <1>1, DeviceLists, PTL

(* Whatever the order in which edits are handled and answers arrive, and   *)
(* whoever signs in meanwhile: the queue holds an episode once and no more *)
(* than its limit, the search history is the latest terms, and the queue   *)
(* the page plays from is that of the account it shows.                    *)
THEOREM DeviceListsAreRight == LocalSpec => []LocalListsAreRight
<1>1. ListsInv => LocalListsAreRight
  <2>. SUFFICES ASSUME ListsInv PROVE LocalListsAreRight
    OBVIOUS
  <2>1. ListsAreSound
    BY DEF ListsInv, RowsTrue, ListTrue, ListsAreSound
  <2>2. TermsAreRecent
    <3>1. ASSUME NEW o \in Owner
          PROVE  Len(terms[o]) <= TermLimit /\ terms[o] = Cut(log[o], Len(terms[o]))
      <4>1. terms[o] \in Seq(Entry) /\ log[o] \in Seq(Entry) /\ Begins(terms[o], log[o]) /\ Len(terms[o]) <= TermLimit
        BY DEF ListsInv, ListTypes, Rows, RowsTrue, ListTrue
      <4>. QED  BY <4>1, BeginsIsCut
    <3>. QED  BY <3>1 DEF TermsAreRecent
  <2>3. QueueShownIsOwn
    BY DEF ListsInv, ListTypes, CopiesTrue, Held, Known, QueueShownIsOwn
  <2>. QED  BY <2>1, <2>2, <2>3 DEF LocalListsAreRight
<1>. QED  BY <1>1, DeviceLists, PTL

---------------------------------------------------------------------------
(* FileVault keeps its promise: Vault implements SavedPair, whatever the   *)
(* sessions are, whichever steps fail and wherever the process is killed.  *)
VInv == VaultTypeOK /\ TombstoneFirst

LEMMA VaultStep == ASSUME VInv, [VaultNext]_vaultVars PROVE VInv'
<1> USE VaultAssumption DEF VInv, VaultTypeOK, TombstoneFirst, Content, Clearing
<1>1. ASSUME NEW pair \in Pair, Save(pair) PROVE VInv'
  BY <1>1 DEF Save, Begin
<1>2. CASE Clear
  BY <1>2 DEF Clear, Begin, Return
<1>3. CASE Write
  BY <1>3 DEF Write
<1>4. CASE Replace
  BY <1>4 DEF Replace, Return
<1>5. CASE WriteFails
  BY <1>5 DEF WriteFails, Return
<1>6. CASE Remove
  BY <1>6 DEF Remove, Return
<1>7. CASE Kill
  BY <1>7 DEF Kill
<1>8. CASE UNCHANGED vaultVars
  BY <1>8 DEF vaultVars
<1> QED
  BY <1>1, <1>2, <1>3, <1>4, <1>5, <1>6, <1>7, <1>8 DEF VaultNext

(* The steps of a clearing follow one another: FileVault.Clear.            *)
THEOREM VaultInvariant == VaultSpec => [](VaultTypeOK /\ TombstoneFirst)
<1>1. VaultInit => VInv
  BY VaultAssumption DEF VaultInit, VInv, VaultTypeOK, TombstoneFirst, Content, Clearing
<1> QED
  BY <1>1, VaultStep, PTL DEF VaultSpec, VInv

---------------------------------------------------------------------------
(* Every step is a step of the promise, or none.                           *)
Promised == [SavedSession!Ask \/ SavedSession!TakeEffect \/ SavedSession!Return
               \/ SavedSession!AnswerAtOnce \/ SavedSession!Die]_SavedSession!pairVars

LEMMA StepIsPromised == ASSUME VInv, [VaultNext]_vaultVars PROVE Promised
<1> USE VaultAssumption DEF VInv, VaultTypeOK, TombstoneFirst, Content, Clearing, Loads, Promised,
        SavedSession!pairVars, SavedSession!Value
<1>1. ASSUME NEW pair \in Pair, Save(pair) PROVE Promised
  BY <1>1 DEF Save, Begin, SavedSession!Ask
<1>2. CASE Clear
  BY <1>2 DEF Clear, Begin, Return, SavedSession!Ask, SavedSession!AnswerAtOnce
<1>3. CASE Write
  BY <1>3 DEF Write
<1>4. CASE Replace
  BY <1>4 DEF Replace, Return, SavedSession!TakeEffect, SavedSession!Return
<1>5. CASE WriteFails
  BY <1>5 DEF WriteFails, Return, SavedSession!Return
<1>6. CASE Remove
  BY <1>6 DEF Remove, Return, SavedSession!Return
<1>7. CASE Kill
  BY <1>7 DEF Kill, SavedSession!Die
<1>8. CASE UNCHANGED vaultVars
  BY <1>8 DEF vaultVars
<1> QED
  BY <1>1, <1>2, <1>3, <1>4, <1>5, <1>6, <1>7, <1>8 DEF VaultNext

(* A session is saved or cleared as a whole, and what a caller was told    *)
(* holds at the next start: Save and Clear of FileVault.                   *)
THEOREM VaultKeepsItsPromise == VaultSpec => SavesOrKeeps
<1>1. VaultInit => SavedSession!PairInit
  BY VaultAssumption DEF VaultInit, Content, Loads, SavedSession!PairInit, SavedSession!Value
<1>2. VaultSpec => []VInv
  BY VaultInvariant, PTL DEF VInv
<1> QED
  BY <1>1, <1>2, StepIsPromised, PTL DEF VaultSpec, SavesOrKeeps, SavedSession!PairSpec, Promised
=============================================================================
