--------------------------- MODULE PageQueue_proofs ---------------------------
(***************************************************************************)
(* What the queue of messages guarantees for any number of messages,       *)
(* prompts, aborts and failed sendings: a queued message is never lost, it *)
(* is sent once unless an answer of the Host's is lost, and it is not left *)
(* waiting when nothing goes on.  And what PageTasks guarantees for any    *)
(* number of tasks, connects, picks and messages: the task, the runtime    *)
(* and the model on screen are those that work.                            *)
(***************************************************************************)
EXTENDS PageQueue, PageTasks, FiniteSetTheorems, SequenceTheorems, TLAPS

-----------------------------------------------------------------------------
(* Sequences without repetitions *)

Holds(s, x) == \E i \in 1..Len(s) : s[i] = x
Distinct(s) == \A i, j \in 1..Len(s) : s[i] = s[j] => i = j

\* What is left of a sequence when one place of it is given up.
LEMMA Removing ==
    ASSUME NEW S, NEW s \in Seq(S), NEW k \in 1..Len(s)
    PROVE  /\ RemoveAt(s, k) \in Seq(S)
           /\ \A x : Holds(s, x) <=> Holds(RemoveAt(s, k), x) \/ x = s[k]
           /\ Distinct(s) => Distinct(RemoveAt(s, k)) /\ ~Holds(RemoveAt(s, k), s[k])
<1> DEFINE n == Len(s)
           a == SubSeq(s, 1, k - 1)
           b == SubSeq(s, k + 1, n)
           r == RemoveAt(s, k)
<1>1. n \in Nat /\ k \in 1..n /\ \A i \in 1..n : s[i] \in S
      BY LenProperties, ElementOfSeq
<1>2. a \in Seq(S) /\ Len(a) = k - 1 /\ \A i \in 1..k - 1 : a[i] = s[i]
  <2>1. \A i \in 1..k - 1 : s[i] \in S
        BY <1>1
  <2>2. 1 \in Int /\ k - 1 \in Int
        BY <1>1
  <2>3. /\ a \in Seq(S) /\ Len(a) = IF 1 <= k - 1 THEN (k - 1) - 1 + 1 ELSE 0
        /\ \A i \in 1..(k - 1) - 1 + 1 : a[i] = s[1 + i - 1]
        BY <2>1, <2>2, SubSeqProperties
  <2>q. QED BY <1>1, <2>3
<1>3. b \in Seq(S) /\ Len(b) = n - k /\ \A i \in 1..n - k : b[i] = s[k + i]
  <2>1. \A i \in k + 1..n : s[i] \in S
        BY <1>1
  <2>2. k + 1 \in Int /\ n \in Int
        BY <1>1
  <2>3. /\ b \in Seq(S) /\ Len(b) = IF k + 1 <= n THEN n - (k + 1) + 1 ELSE 0
        /\ \A i \in 1..n - (k + 1) + 1 : b[i] = s[(k + 1) + i - 1]
        BY <2>1, <2>2, SubSeqProperties
  <2>q. QED BY <1>1, <2>3
<1>4. r = a \o b
      BY DEF RemoveAt
<1> HIDE DEF n, a, b, r
<1>5. /\ r \in Seq(S) /\ Len(r) = (k - 1) + (n - k)
      /\ \A i \in 1..(k - 1) + (n - k) : r[i] = IF i <= k - 1 THEN a[i] ELSE b[i - (k - 1)]
      BY <1>2, <1>3, <1>4, ConcatProperties
<1>6. Len(r) = n - 1 /\ \A i \in 1..n - 1 : r[i] = IF i < k THEN s[i] ELSE s[i + 1]
  <2>1. (k - 1) + (n - k) = n - 1
        BY <1>1
  <2>2. ASSUME NEW i \in 1..n - 1, i < k
        PROVE  r[i] = s[i]
        BY <1>1, <1>2, <1>5, <2>1, <2>2
  <2>3. ASSUME NEW i \in 1..n - 1, ~(i < k)
        PROVE  r[i] = s[i + 1]
    <3>1. i - (k - 1) \in 1..n - k /\ k + (i - (k - 1)) = i + 1 /\ ~(i <= k - 1)
          BY <1>1, <2>3
    <3>q. QED BY <1>3, <1>5, <2>1, <3>1
  <2>q. QED BY <1>5, <2>1, <2>2, <2>3
<1>7. \A i \in 1..n - 1 : \E j \in 1..n : r[i] = s[j] /\ j = (IF i < k THEN i ELSE i + 1) /\ j # k
      BY <1>1, <1>6
<1>8. \A j \in 1..n : j # k => \E i \in 1..n - 1 : r[i] = s[j]
  <2>1. ASSUME NEW j \in 1..n, j < k
        PROVE  j \in 1..n - 1 /\ r[j] = s[j]
        BY <1>1, <1>6, <2>1
  <2>2. ASSUME NEW j \in 1..n, j > k
        PROVE  j - 1 \in 1..n - 1 /\ r[j - 1] = s[j]
    <3>1. j - 1 \in 1..n - 1 /\ ~(j - 1 < k) /\ (j - 1) + 1 = j
          BY <1>1, <2>2
    <3>q. QED BY <1>6, <3>1
  <2>q. QED BY <1>1, <2>1, <2>2
<1>9. \A x : Holds(s, x) <=> Holds(r, x) \/ x = s[k]
  <2>1. ASSUME NEW x, Holds(s, x), x # s[k]
        PROVE  Holds(r, x)
    <3>1. PICK j \in 1..n : s[j] = x
          BY <2>1 DEF Holds, n
    <3>2. PICK i \in 1..n - 1 : r[i] = s[j]
          BY <1>8, <2>1, <3>1
    <3>q. QED BY <1>6, <3>1, <3>2 DEF Holds
  <2>2. ASSUME NEW x, Holds(r, x)
        PROVE  Holds(s, x)
    <3>1. PICK i \in 1..n - 1 : r[i] = x
          BY <1>6, <2>2 DEF Holds
    <3>2. PICK j \in 1..n : r[i] = s[j]
          BY <1>7
    <3>q. QED BY <3>1, <3>2 DEF Holds, n
  <2>3. Holds(s, s[k])
        BY <1>1 DEF Holds, n
  <2>q. QED BY <2>1, <2>2, <2>3
<1>10. ASSUME Distinct(s)
       PROVE  Distinct(r) /\ ~Holds(r, s[k])
  <2>1. \A i, j \in 1..n : s[i] = s[j] => i = j
        BY <1>10 DEF Distinct, n
  <2>2. \A i, j \in 1..n - 1 : r[i] = r[j] => i = j
    <3>1. SUFFICES ASSUME NEW i \in 1..n - 1, NEW j \in 1..n - 1, r[i] = r[j]
                   PROVE  i = j
          OBVIOUS
    <3>2. (IF i < k THEN i ELSE i + 1) = (IF j < k THEN j ELSE j + 1)
          BY <1>7, <2>1, <3>1
    <3>q. QED BY <1>1, <3>2
  <2>3. \A i \in 1..n - 1 : r[i] # s[k]
        BY <1>1, <1>7, <2>1
  <2>q. QED BY <1>6, <2>2, <2>3 DEF Distinct, Holds
<1>q. QED BY <1>5, <1>9, <1>10 DEF r

\* What becomes of a sequence when something is put between its elements.
LEMMA Inserting ==
    ASSUME NEW S, NEW s \in Seq(S), NEW x \in S, NEW k \in Nat, k >= 1
    PROVE  /\ InsertItem(s, x, k) \in Seq(S)
           /\ \A y : Holds(InsertItem(s, x, k), y) <=> Holds(s, y) \/ y = x
           /\ Distinct(s) /\ ~Holds(s, x) => Distinct(InsertItem(s, x, k))
<1> DEFINE n == Len(s)
           t == IF k > n + 1 THEN n + 1 ELSE k
           a == SubSeq(s, 1, t - 1)
           b == SubSeq(s, t, n)
           ax == a \o <<x>>
           r == InsertItem(s, x, k)
<1>1. n \in Nat /\ t \in 1..n + 1 /\ \A i \in 1..n : s[i] \in S
      BY LenProperties, ElementOfSeq
<1>4. r = ax \o b
      BY DEF InsertItem
<1>2. a \in Seq(S) /\ Len(a) = t - 1 /\ \A i \in 1..t - 1 : a[i] = s[i]
  <2> HIDE DEF t
  <2>1. \A i \in 1..t - 1 : s[i] \in S
        BY <1>1
  <2>2. 1 \in Int /\ t - 1 \in Int
        BY <1>1
  <2>3. /\ a \in Seq(S) /\ Len(a) = IF 1 <= t - 1 THEN (t - 1) - 1 + 1 ELSE 0
        /\ \A i \in 1..(t - 1) - 1 + 1 : a[i] = s[1 + i - 1]
        BY <2>1, <2>2, SubSeqProperties
  <2>q. QED BY <1>1, <2>3
<1>3. b \in Seq(S) /\ Len(b) = (n - t) + 1 /\ \A i \in 1..(n - t) + 1 : b[i] = s[(t + i) - 1]
  <2> HIDE DEF t
  <2>1. \A i \in t..n : s[i] \in S
        BY <1>1
  <2>2. t \in Int /\ n \in Int
        BY <1>1
  <2>3. /\ b \in Seq(S) /\ Len(b) = IF t <= n THEN n - t + 1 ELSE 0
        /\ \A i \in 1..n - t + 1 : b[i] = s[t + i - 1]
        BY <2>1, <2>2, SubSeqProperties
  <2>q. QED BY <1>1, <2>3
<1> HIDE DEF n, t, a, b, r
<1>5. ax \in Seq(S) /\ Len(ax) = t /\ ax[t] = x /\ \A i \in 1..t - 1 : ax[i] = s[i]
  <2>1. /\ Append(a, x) \in Seq(S) /\ Len(Append(a, x)) = Len(a) + 1
        /\ \A i \in 1..Len(a) : Append(a, x)[i] = a[i]
        /\ Append(a, x)[Len(a) + 1] = x
        BY <1>2, AppendProperties
  <2>2. Append(a, x) = a \o <<x>>
        BY <1>2, AppendIsConcat
  <2>3. Len(a) + 1 = t
        BY <1>1, <1>2
  <2>q. QED BY <1>2, <2>1, <2>2, <2>3
<1> HIDE DEF ax
<1>6. /\ r \in Seq(S) /\ Len(r) = t + ((n - t) + 1)
      /\ \A i \in 1..t + ((n - t) + 1) : r[i] = IF i <= t THEN ax[i] ELSE b[i - t]
  <2>1. /\ ax \o b \in Seq(S) /\ Len(ax \o b) = Len(ax) + Len(b)
        /\ \A i \in 1..Len(ax) + Len(b) : (ax \o b)[i] = IF i <= Len(ax) THEN ax[i] ELSE b[i - Len(ax)]
        BY <1>3, <1>5, ConcatProperties
  <2>2. Len(ax) = t /\ Len(b) = (n - t) + 1
        BY <1>3, <1>5
  <2>q. QED BY <1>4, <2>1, <2>2
<1>7. Len(r) = n + 1 /\ r[t] = x /\ \A i \in 1..n + 1 : i # t => r[i] = s[IF i < t THEN i ELSE i - 1]
  <2>1. t + ((n - t) + 1) = n + 1
        BY <1>1
  <2>2. ASSUME NEW i \in 1..n + 1, i < t
        PROVE  r[i] = s[i]
    <3>1. i \in 1..t - 1 /\ i <= t
          BY <1>1, <2>2
    <3>2. r[i] = ax[i]
          BY <1>6, <2>1, <3>1
    <3>q. QED BY <1>5, <3>1, <3>2
  <2>3. ASSUME NEW i \in 1..n + 1, i > t
        PROVE  r[i] = s[i - 1]
    <3>1. i - t \in 1..(n - t) + 1 /\ (t + (i - t)) - 1 = i - 1 /\ ~(i <= t)
          BY <1>1, <2>3
    <3>q. QED BY <1>3, <1>6, <2>1, <3>1
  <2>4. r[t] = x
        BY <1>1, <1>5, <1>6, <2>1
  <2>q. QED BY <1>1, <1>6, <2>1, <2>2, <2>3, <2>4
<1>8. \A i \in 1..n + 1 : i # t => (IF i < t THEN i ELSE i - 1) \in 1..n
      BY <1>1
<1>9. \A j \in 1..n : \E i \in 1..n + 1 : i # t /\ r[i] = s[j]
  <2>1. ASSUME NEW j \in 1..n, j < t
        PROVE  j \in 1..n + 1 /\ j # t /\ r[j] = s[j]
        BY <1>1, <1>7, <2>1
  <2>2. ASSUME NEW j \in 1..n, ~(j < t)
        PROVE  j + 1 \in 1..n + 1 /\ j + 1 # t /\ r[j + 1] = s[j]
    <3>1. j + 1 \in 1..n + 1 /\ j + 1 # t /\ ~(j + 1 < t) /\ (j + 1) - 1 = j
          BY <1>1, <2>2
    <3>q. QED BY <1>7, <3>1
  <2>q. QED BY <2>1, <2>2
<1>10. \A y : Holds(r, y) <=> Holds(s, y) \/ y = x
  <2>1. ASSUME NEW y, Holds(r, y)
        PROVE  Holds(s, y) \/ y = x
        BY <1>7, <1>8, <2>1 DEF Holds, n
  <2>2. ASSUME NEW y, Holds(s, y) \/ y = x
        PROVE  Holds(r, y)
        BY <1>1, <1>7, <1>9, <2>2 DEF Holds, n
  <2>q. QED BY <2>1, <2>2
<1>11. ASSUME Distinct(s), ~Holds(s, x)
       PROVE  Distinct(r)
  <2>1. \A i, j \in 1..n : s[i] = s[j] => i = j
        BY <1>11 DEF Distinct, n
  <2>2. \A i \in 1..n : s[i] # x
        BY <1>11 DEF Holds, n
  <2>3. SUFFICES ASSUME NEW i \in 1..n + 1, NEW j \in 1..n + 1, r[i] = r[j]
                 PROVE  i = j
        BY <1>7 DEF Distinct
  <2>4. CASE i = t \/ j = t
        BY <1>1, <1>7, <1>8, <2>2, <2>3, <2>4
  <2>5. CASE i # t /\ j # t
    <3>1. (IF i < t THEN i ELSE i - 1) = (IF j < t THEN j ELSE j - 1)
          BY <1>7, <1>8, <2>1, <2>3, <2>5
    <3>q. QED BY <1>1, <2>5, <3>1
  <2>q. QED BY <2>4, <2>5
<1>q. QED BY <1>6, <1>10, <1>11 DEF r

\* Two elements that change places.
LEMMA Swapping ==
    ASSUME NEW S, NEW s \in Seq(S), NEW k \in 1..Len(s), NEW m \in 1..Len(s)
    PROVE  LET r == [s EXCEPT ![k] = s[m], ![m] = s[k]] IN
           /\ r \in Seq(S)
           /\ \A x : Holds(s, x) <=> Holds(r, x)
           /\ Distinct(s) => Distinct(r)
<1> DEFINE n == Len(s)
           r == [s EXCEPT ![k] = s[m], ![m] = s[k]]
<1>1. /\ n \in Nat /\ DOMAIN s = 1..n /\ s = [i \in 1..n |-> s[i]] /\ \A i \in 1..n : s[i] \in S
      BY LenProperties, ElementOfSeq
<1>2. r = [i \in 1..n |-> IF i = m THEN s[k] ELSE IF i = k THEN s[m] ELSE s[i]]
      BY <1>1
<1>3. \A i \in 1..n : r[i] \in S
      BY <1>1, <1>2
<1> HIDE DEF r
<1>4. r \in Seq(S) /\ Len(r) = n
  <2>1. r = [i \in 1..n |-> r[i]]
        BY <1>2
  <2>2. [i \in 1..n |-> r[i]] \in Seq(S)
        BY <1>1, <1>3, IsASeq
  <2>q. QED BY <1>1, <1>2, <2>1, <2>2, LenProperties
<1>5. k \in 1..n /\ m \in 1..n
      OBVIOUS
<1> HIDE DEF n
<1>6. r[m] = s[k] /\ r[k] = s[m] /\ \A i \in 1..n : i # k /\ i # m => r[i] = s[i]
      BY <1>2, <1>5
<1>7. \A x : (\E i \in 1..n : s[i] = x) <=> (\E i \in 1..n : r[i] = x)
      BY <1>5, <1>6
<1>8. (\A i, j \in 1..n : s[i] = s[j] => i = j) => (\A i, j \in 1..n : r[i] = r[j] => i = j)
      BY <1>5, <1>6
<1>q. QED BY <1>4, <1>7, <1>8 DEF Holds, Distinct, n, r


-----------------------------------------------------------------------------
(* The queue, one message less or more *)

Less(s, x, r) ==
    /\ r \in Seq(Items)
    /\ \A y : Holds(s, y) <=> Holds(r, y) \/ y = x
    /\ Distinct(s) => Distinct(r) /\ ~Holds(r, x)
More(s, x, r) ==
    /\ r \in Seq(Items)
    /\ \A y : Holds(r, y) <=> Holds(s, y) \/ y = x
    /\ Distinct(s) /\ ~Holds(s, x) => Distinct(r)

\* The first message leaves.
LEMMA TakingFirst ==
    ASSUME NEW s \in Seq(Items), s # <<>>
    PROVE  Head(s) \in Items /\ Less(s, Head(s), Tail(s))
<1> DEFINE n == Len(s)
           r == Tail(s)
<1>1. /\ n \in Nat /\ n >= 1 /\ Head(s) = s[1] /\ Head(s) \in Items
      /\ r \in Seq(Items) /\ Len(r) = n - 1 /\ \A i \in 1..n - 1 : r[i] = s[i + 1]
      BY LenProperties, HeadTailProperties, EmptySeq
<1> HIDE DEF n, r
<1>2. \A i \in 1..n : i # 1 => i - 1 \in 1..n - 1 /\ r[i - 1] = s[i]
  <2>1. SUFFICES ASSUME NEW i \in 1..n, i # 1
                 PROVE  i - 1 \in 1..n - 1 /\ r[i - 1] = s[i]
        OBVIOUS
  <2>2. i - 1 \in 1..n - 1 /\ (i - 1) + 1 = i
        BY <1>1, <2>1
  <2>q. QED BY <1>1, <2>2
<1>3. \A i \in 1..n - 1 : i + 1 \in 1..n /\ i + 1 # 1
      BY <1>1
<1>4. \A y : (\E i \in 1..n : s[i] = y) <=> (\E i \in 1..n - 1 : r[i] = y) \/ y = s[1]
  <2>1. 1 \in 1..n
        BY <1>1
  <2>2. ASSUME NEW y, NEW i \in 1..n, s[i] = y, y # s[1]
        PROVE  \E j \in 1..n - 1 : r[j] = y
    <3>1. i - 1 \in 1..n - 1 /\ r[i - 1] = s[i]
          BY <1>2, <2>2
    <3>q. QED BY <2>2, <3>1
  <2>3. ASSUME NEW y, NEW i \in 1..n - 1, r[i] = y
        PROVE  \E j \in 1..n : s[j] = y
    <3>1. i + 1 \in 1..n /\ s[i + 1] = y
          BY <1>1, <1>3, <2>3
    <3>q. QED BY <3>1
  <2>q. QED BY <2>1, <2>2, <2>3
<1>5. ASSUME \A i, j \in 1..n : s[i] = s[j] => i = j
      PROVE  (\A i, j \in 1..n - 1 : r[i] = r[j] => i = j) /\ \A i \in 1..n - 1 : r[i] # s[1]
  <2>1. \A i, j \in 1..n - 1 : r[i] = r[j] => i + 1 = j + 1
        BY <1>1, <1>3, <1>5
  <2>2. \A i, j \in 1..n - 1 : i + 1 = j + 1 => i = j
        BY <1>1
  <2>3. 1 \in 1..n
        BY <1>1
  <2>q. QED BY <1>1, <1>3, <1>5, <2>1, <2>2, <2>3
<1>q. QED BY <1>1, <1>4, <1>5 DEF Less, Holds, Distinct, n, r

\* A message comes last.
LEMMA PuttingLast ==
    ASSUME NEW s \in Seq(Items), NEW x \in Items
    PROVE  More(s, x, Append(s, x))
<1> DEFINE n == Len(s)
           r == Append(s, x)
<1>1. /\ n \in Nat /\ r \in Seq(Items) /\ Len(r) = n + 1 /\ r[n + 1] = x /\ \A i \in 1..n : r[i] = s[i]
      BY LenProperties, AppendProperties
<1> HIDE DEF n, r
<1>2. \A i : i \in 1..n + 1 <=> i \in 1..n \/ i = n + 1
      BY <1>1
<1>q. QED BY <1>1, <1>2 DEF More, Holds, Distinct, n, r

\* A message leaves from anywhere.
LEMMA TakingOut ==
    ASSUME NEW s \in Seq(Items), NEW k \in 1..Len(s)
    PROVE  Less(s, s[k], RemoveAt(s, k))
BY Removing DEF Less

\* A message comes back to its place.
LEMMA PuttingBack ==
    ASSUME NEW s \in Seq(Items), NEW x \in Items, NEW k \in Nat \ {0}
    PROVE  More(s, x, InsertItem(s, x, k))
<1>1. k \in Nat /\ k >= 1
      OBVIOUS
<1>q. QED BY <1>1, Inserting DEF More

\* How often a message is in a sequence.
LEMMA Counting ==
    ASSUME NEW s \in Seq(Items), NEW x
    PROVE  LET n == Cardinality({i \in DOMAIN s : s[i] = x}) IN
           n \in Nat /\ (n > 0 <=> Holds(s, x)) /\ (Distinct(s) => n =< 1)
<1> DEFINE at == {i \in DOMAIN s : s[i] = x}
<1>1. DOMAIN s = 1..Len(s) /\ Len(s) \in Nat
      BY LenProperties
<1>2. IsFiniteSet(at)
  <2>1. IsFiniteSet(1..Len(s))
        BY <1>1, FS_Interval
  <2>q. QED BY <1>1, <2>1, FS_Subset
<1>3. Cardinality(at) \in Nat /\ (Cardinality(at) = 0 <=> at = {})
      BY <1>2, FS_CardinalityType, FS_EmptySet
<1>4. at # {} <=> Holds(s, x)
      BY <1>1 DEF Holds
<1>5. ASSUME Distinct(s), at # {}
      PROVE  Cardinality(at) = 1
  <2>1. PICK i \in at : TRUE
        BY <1>5
  <2>2. at = {i}
        BY <1>1, <1>5, <2>1 DEF Distinct
  <2>q. QED BY <2>2, FS_Singleton
<1>q. QED BY <1>3, <1>4, <1>5

-----------------------------------------------------------------------------
(* Where a message is *)

\* The values the variables take.
RunTyped ==
    /\ runs \in BOOLEAN /\ ends \in Nat /\ streaming \in BOOLEAN /\ suppress \in BOOLEAN
    /\ abort \in BOOLEAN /\ halted \in BOOLEAN
PlacesTyped ==
    /\ queue \in Seq(Items) /\ drain \in {<<>>} \cup {<<x>> : x \in Items}
    /\ steer \in {<<>>} \cup (Items \X (Nat \ {0}))
    /\ accepted \in [Items -> Nat] /\ removed \subseteq Items
TypeOK == RunTyped /\ PlacesTyped

InDrain(x) == drain = <<x>>
InSteer(x) == steer # <<>> /\ steer[1] = x
Somewhere(x) == Holds(queue, x) \/ InDrain(x) \/ InSteer(x) \/ x \in removed \/ accepted[x] > 0

\* Nothing is in two places.
Apart(x) ==
    /\ Holds(queue, x) => ~InDrain(x) /\ ~InSteer(x) /\ x \notin removed /\ accepted[x] = 0
    /\ InDrain(x) => ~InSteer(x) /\ x \notin removed /\ accepted[x] = 0
    /\ InSteer(x) => x \notin removed /\ accepted[x] = 0
    /\ x \in removed => accepted[x] = 0
    /\ accepted[x] =< 1
AllApart == Distinct(queue) /\ \A x \in Items : Apart(x)

\* What a step does to the places, whatever it does: nothing is lost, and nothing is doubled.
Moved ==
    /\ PlacesTyped'
    /\ \A x \in Items : Somewhere(x) => Somewhere(x)'
    /\ AllApart /\ "lost answer" \notin Races => AllApart'

\* The first item of what is on its way.
LEMMA OnItsWay ==
    ASSUME PlacesTyped
    PROVE  /\ drain # <<>> => drain[1] \in Items /\ drain = <<drain[1]>>
           /\ steer # <<>> => steer[1] \in Items /\ steer[2] \in Nat \ {0} /\ steer = <<steer[1], steer[2]>>
BY DEF PlacesTyped

\* Where a message of the queue is, and what is left without it.
LEMMA PlaceOf ==
    ASSUME PlacesTyped, NEW x \in ToSet(queue)
    PROVE  /\ x \in Items /\ Holds(queue, x) /\ IndexIn(x) \in Nat \ {0} /\ Less(queue, x, RemoveItem(x))
<1>1. DOMAIN queue = 1..Len(queue) /\ Len(queue) \in Nat /\ queue \in Seq(Items)
      BY LenProperties DEF PlacesTyped
<1>2. \E i \in DOMAIN queue : queue[i] = x
      BY DEF ToSet
<1>3. IndexIn(x) \in DOMAIN queue /\ queue[IndexIn(x)] = x
      BY <1>2 DEF IndexIn
<1>4. IndexIn(x) \in 1..Len(queue) /\ IndexIn(x) \in Nat \ {0}
      BY <1>1, <1>3
<1>5. x \in Items
      BY <1>1, <1>3, ElementOfSeq
<1>6. Less(queue, queue[IndexIn(x)], RemoveAt(queue, IndexIn(x)))
      BY <1>1, <1>4, TakingOut
<1>q. QED BY <1>1, <1>2, <1>3, <1>4, <1>5, <1>6 DEF Holds, RemoveItem

\* A message leaves the queue, for one of the other places.
LEMMA LeavesQueue ==
    ASSUME PlacesTyped, NEW x \in Items, Holds(queue, x), Less(queue, x, queue'), accepted' = accepted,
           \/ /\ drain = <<>> /\ drain' = <<x>> /\ UNCHANGED <<steer, removed>>
           \/ /\ steer = <<>> /\ UNCHANGED <<drain, removed>>
              /\ \E k \in Nat \ {0} : steer' = <<x, k>>
           \/ removed' = removed \cup {x} /\ UNCHANGED <<drain, steer>>
    PROVE  Moved
<1>1. PlacesTyped'
      BY DEF PlacesTyped, Less
<1>2. \A y : Holds(queue, y) <=> Holds(queue', y) \/ y = x
      BY DEF Less
<1>3. \A y : /\ InDrain(y)' <=> InDrain(y) \/ (drain' # drain /\ y = x)
             /\ InSteer(y)' <=> InSteer(y) \/ (steer' # steer /\ y = x)
             /\ y \in removed' <=> y \in removed \/ (removed' # removed /\ y = x)
      BY DEF InDrain, InSteer
<1>4. drain' # drain \/ steer' # steer \/ x \in removed'
      OBVIOUS
<1>5. \A y \in Items : Somewhere(y) => Somewhere(y)'
      BY <1>2, <1>3, <1>4 DEF Somewhere, InDrain, InSteer
<1>6. ASSUME AllApart
      PROVE  AllApart'
  <2>1. Distinct(queue') /\ ~Holds(queue', x)
        BY <1>6 DEF AllApart, Less
  <2>2. ASSUME NEW y \in Items
        PROVE  Apart(y)'
    <3>1. Apart(y) /\ accepted'[y] = accepted[y] /\ accepted[y] \in Nat
          BY <1>6 DEF AllApart, PlacesTyped
    <3>2. CASE y # x
          BY <1>2, <1>3, <3>1, <3>2 DEF Apart
    <3>3. CASE y = x
      <4>1. ~InDrain(x) /\ ~InSteer(x) /\ x \notin removed /\ accepted[x] = 0
            BY <3>1, <3>3 DEF Apart
      <4>q. QED BY <2>1, <3>1, <3>3, <4>1 DEF Apart, InDrain, InSteer
    <3>q. QED BY <3>2, <3>3
  <2>q. QED BY <2>1, <2>2 DEF AllApart
<1>q. QED BY <1>1, <1>5, <1>6 DEF Moved

\* Where a message comes from that enters the queue, and whether the Host has it already.
Fresh(x) == ~Somewhere(x) /\ UNCHANGED <<drain, steer>>
FromDrain(x) == drain = <<x>> /\ drain' = <<>> /\ UNCHANGED steer
FromSteer(x) == InSteer(x) /\ steer' = <<>> /\ UNCHANGED drain
MaybeTaken(x) ==
    \/ accepted' = accepted
    \/ "lost answer" \in Races /\ accepted' = [accepted EXCEPT ![x] = @ + 1]

\* A message comes into the queue: for the first time, or back from where it was on its way.
LEMMA EntersQueue ==
    ASSUME PlacesTyped, NEW x \in Items, More(queue, x, queue'), UNCHANGED removed,
           Fresh(x) \/ FromDrain(x) \/ FromSteer(x), MaybeTaken(x)
    PROVE  Moved
<1>1. accepted' \in [Items -> Nat] /\ \A y \in Items : accepted[y] > 0 => accepted'[y] > 0
  <2>1. CASE accepted' = accepted
        BY <2>1 DEF PlacesTyped
  <2>2. CASE accepted' = [accepted EXCEPT ![x] = @ + 1]
        BY <2>2 DEF PlacesTyped
  <2>q. QED BY <2>1, <2>2 DEF MaybeTaken
<1>2. drain' \in {<<>>} \cup {<<y>> : y \in Items} /\ steer' \in {<<>>} \cup (Items \X (Nat \ {0}))
      BY DEF PlacesTyped, Fresh, FromDrain, FromSteer
<1>3. PlacesTyped'
      BY <1>1, <1>2 DEF PlacesTyped, More
<1>4. \A y : Holds(queue', y) <=> Holds(queue, y) \/ y = x
      BY DEF More
<1>5. \A y : y # x => (InDrain(y)' <=> InDrain(y)) /\ (InSteer(y)' <=> InSteer(y))
      BY DEF InDrain, InSteer, Fresh, FromDrain, FromSteer
<1>6. \A y \in Items : Somewhere(y) => Somewhere(y)'
      BY <1>1, <1>4, <1>5 DEF Somewhere
<1>7. ASSUME AllApart, accepted' = accepted
      PROVE  AllApart'
  <2>1. /\ Holds(queue, x) => ~InDrain(x) /\ ~InSteer(x) /\ x \notin removed /\ accepted[x] = 0
        /\ InDrain(x) => ~InSteer(x) /\ x \notin removed /\ accepted[x] = 0
        /\ InSteer(x) => x \notin removed /\ accepted[x] = 0
        BY <1>7 DEF AllApart, Apart
  <2>2. accepted[x] \in Nat
        BY DEF PlacesTyped
  <2>3. ~Holds(queue, x) /\ ~InDrain(x)' /\ ~InSteer(x)' /\ x \notin removed /\ accepted[x] = 0
    <3>1. CASE Fresh(x)
      <4>1. ~(accepted[x] > 0) => accepted[x] = 0
            BY <2>2
      <4>q. QED BY <3>1, <4>1 DEF Fresh, Somewhere, InDrain, InSteer
    <3>2. CASE FromDrain(x)
      <4>1. InDrain(x) /\ ~InDrain(x)' /\ (InSteer(x)' <=> InSteer(x))
            BY <3>2 DEF FromDrain, InDrain, InSteer
      <4>q. QED BY <2>1, <4>1
    <3>3. CASE FromSteer(x)
      <4>1. InSteer(x) /\ ~InSteer(x)' /\ (InDrain(x)' <=> InDrain(x))
            BY <3>3 DEF FromSteer, InDrain, InSteer
      <4>q. QED BY <2>1, <4>1
    <3>q. QED BY <3>1, <3>2, <3>3
  <2>4. Distinct(queue')
        BY <1>7, <2>3 DEF AllApart, More
  <2>5. ASSUME NEW y \in Items
        PROVE  Apart(y)'
    <3>1. Apart(y)
          BY <1>7 DEF AllApart
    <3>2. CASE y # x
          BY <1>4, <1>5, <1>7, <3>1, <3>2 DEF Apart
    <3>3. CASE y = x
      <4>1. accepted'[x] = 0 /\ 0 =< 1
            BY <1>7, <2>3
      <4>q. QED BY <2>3, <3>3, <4>1 DEF Apart
    <3>q. QED BY <3>2, <3>3
  <2>q. QED BY <2>4, <2>5 DEF AllApart
<1>q. QED BY <1>3, <1>6, <1>7 DEF Moved, MaybeTaken

\* The Host takes a message.
LEMMA TakenByHost ==
    ASSUME PlacesTyped, NEW x \in Items, UNCHANGED <<queue, removed>>,
           \/ drain = <<x>> /\ drain' = <<>> /\ UNCHANGED steer
           \/ InSteer(x) /\ steer' = <<>> /\ UNCHANGED drain,
           accepted' = [accepted EXCEPT ![x] = @ + 1]
    PROVE  Moved
<1>1. PlacesTyped'
      BY DEF PlacesTyped
<1>2. \A y : y # x => (InDrain(y)' <=> InDrain(y)) /\ (InSteer(y)' <=> InSteer(y))
      BY DEF InDrain, InSteer
<1>3. accepted'[x] = accepted[x] + 1 /\ accepted[x] \in Nat /\ \A y \in Items : y # x => accepted'[y] = accepted[y]
      BY DEF PlacesTyped
<1>4. \A y \in Items : Somewhere(y) => Somewhere(y)'
      BY <1>2, <1>3 DEF Somewhere
<1>5. ASSUME AllApart
      PROVE  AllApart'
  <2>1. ASSUME NEW y \in Items
        PROVE  Apart(y)'
    <3>1. Apart(y)
          BY <1>5 DEF AllApart
    <3>2. CASE y # x
          BY <1>2, <1>3, <3>1, <3>2 DEF Apart
    <3>3. CASE y = x
      <4>1. CASE drain = <<x>> /\ drain' = <<>> /\ UNCHANGED steer
        <5>1. ~Holds(queue, x) /\ ~InSteer(x) /\ x \notin removed /\ accepted[x] = 0
              BY <3>1, <3>3, <4>1 DEF Apart, InDrain
        <5>q. QED BY <1>3, <3>3, <4>1, <5>1 DEF Apart, InDrain, InSteer
      <4>2. CASE InSteer(x) /\ steer' = <<>> /\ UNCHANGED drain
        <5>1. ~Holds(queue, x) /\ ~InDrain(x) /\ x \notin removed /\ accepted[x] = 0
              BY <3>1, <3>3, <4>2 DEF Apart
        <5>q. QED BY <1>3, <3>3, <4>2, <5>1 DEF Apart, InDrain, InSteer
      <4>q. QED BY <4>1, <4>2
    <3>q. QED BY <3>2, <3>3
  <2>q. QED BY <1>5, <2>1 DEF AllApart
<1>q. QED BY <1>1, <1>4, <1>5 DEF Moved

\* No message moves, but for its place in the queue.
LEMMA NothingMoves ==
    ASSUME PlacesTyped, queue' \in Seq(Items), \A x : Holds(queue, x) <=> Holds(queue', x),
           Distinct(queue) => Distinct(queue'), UNCHANGED <<drain, steer, accepted, removed>>
    PROVE  Moved
<1>1. PlacesTyped'
      BY DEF PlacesTyped
<1>2. \A x : (InDrain(x)' <=> InDrain(x)) /\ (InSteer(x)' <=> InSteer(x))
      BY DEF InDrain, InSteer
<1>q. QED BY <1>1, <1>2 DEF Moved, Somewhere, AllApart, Apart

\* Every step of the queue is one of these.
LEMMA StepMoves ==
    ASSUME PlacesTyped, [Next]_vars
    PROVE  Moved
<1>t. /\ drain # <<>> => drain[1] \in Items /\ drain = <<drain[1]>>
      /\ steer # <<>> => steer[1] \in Items /\ steer[2] \in Nat \ {0} /\ InSteer(steer[1])
      /\ queue \in Seq(Items)
      BY OnItsWay DEF InSteer, PlacesTyped
<1>1. CASE QueueMessage
  <2>1. PICK x \in Items : ~Known(x) /\ queue' = Append(queue, x)
        BY <1>1 DEF QueueMessage
  <2>2. UNCHANGED <<drain, steer, accepted, removed>>
        BY <1>1 DEF QueueMessage
  <2>3. ~Somewhere(x)
    <3>1. Holds(queue, x) => x \in ToSet(queue)
      <4>1. DOMAIN queue = 1..Len(queue)
            BY <1>t, LenProperties
      <4>q. QED BY <4>1 DEF Holds, ToSet
    <3>2. InDrain(x) => x \in ToSet(drain)
          BY DEF InDrain, ToSet
    <3>q. QED BY <2>1, <3>1, <3>2 DEF Somewhere, Known, InSteer
  <2>4. More(queue, x, queue')
        BY <1>t, <2>1, PuttingLast
  <2>q. QED BY <2>2, <2>3, <2>4, EntersQueue DEF Fresh, MaybeTaken
<1>2. CASE RemoveQueued
  <2>1. PICK x \in ToSet(queue) : queue' = RemoveItem(x) /\ removed' = removed \cup {x}
        BY <1>2 DEF RemoveQueued
  <2>2. UNCHANGED <<drain, steer, accepted>>
        BY <1>2 DEF RemoveQueued
  <2>3. x \in Items /\ Holds(queue, x) /\ Less(queue, x, queue')
        BY <2>1, PlaceOf
  <2>q. QED BY <2>1, <2>2, <2>3, LeavesQueue
<1>3. CASE MoveQueued
  <2>1. PICK i \in DOMAIN queue, j \in DOMAIN queue : queue' = MoveItem(i, j)
        BY <1>3 DEF MoveQueued
  <2>2. UNCHANGED <<drain, steer, accepted, removed>>
        BY <1>3 DEF MoveQueued
  <2>3. i \in 1..Len(queue) /\ j \in 1..Len(queue)
        BY <1>t, LenProperties
  <2>4. /\ queue' \in Seq(Items) /\ (\A x : Holds(queue, x) <=> Holds(queue', x))
        /\ Distinct(queue) => Distinct(queue')
        BY <1>t, <2>1, <2>3, Swapping DEF MoveItem
  <2>q. QED BY <2>2, <2>4, NothingMoves
<1>4. CASE TurnEnds
  <2>1. UNCHANGED <<steer, accepted, removed>> /\ Drain
        BY <1>4 DEF TurnEnds
  <2>2. CASE UNCHANGED <<queue, drain>>
        BY <1>t, <2>1, <2>2, NothingMoves
  <2>3. CASE drain = <<>> /\ queue # <<>> /\ drain' = <<Head(queue)>> /\ queue' = Tail(queue)
    <3>1. PICK x \in Items : x = Head(queue)
          BY <1>t, <2>3, TakingFirst
    <3>2. Less(queue, x, queue') /\ drain' = <<x>>
          BY <1>t, <2>3, <3>1, TakingFirst
    <3>3. Holds(queue, x)
          BY <3>2 DEF Less
    <3>q. QED BY <2>1, <2>3, <3>2, <3>3, LeavesQueue
  <2>q. QED BY <2>1, <2>2, <2>3 DEF Drain
<1>5. CASE DrainAccepted
  <2>1. PICK x \in Items : drain = <<x>> /\ drain[1] = x
        BY <1>5, <1>t DEF DrainAccepted
  <2>2. UNCHANGED <<queue, steer, removed>> /\ drain' = <<>> /\ accepted' = [accepted EXCEPT ![x] = @ + 1]
        BY <1>5, <2>1 DEF DrainAccepted
  <2>q. QED BY <2>1, <2>2, TakenByHost
<1>6. CASE DrainFails
  <2>1. PICK x \in Items : drain = <<x>> /\ drain[1] = x
        BY <1>6, <1>t DEF DrainFails
  <2>2. UNCHANGED <<steer, removed>> /\ drain' = <<>> /\ queue' = InsertItem(queue, x, 1) /\ Fails(x, runs)
        BY <1>6, <2>1 DEF DrainFails, PutBack
  <2>3. More(queue, x, queue')
        BY <1>t, <2>2, PuttingBack
  <2>4. MaybeTaken(x)
        BY <2>2 DEF Fails, MaybeTaken
  <2>q. QED BY <2>1, <2>2, <2>3, <2>4, EntersQueue DEF FromDrain
<1>7. CASE SteerWith
  <2>1. PICK x \in ToSet(queue) : steer' = <<x, IndexIn(x)>> /\ queue' = RemoveItem(x)
        BY <1>7 DEF SteerWith
  <2>2. steer = <<>> /\ UNCHANGED <<drain, accepted, removed>>
        BY <1>7 DEF SteerWith
  <2>3. x \in Items /\ Holds(queue, x) /\ Less(queue, x, queue') /\ IndexIn(x) \in Nat \ {0}
        BY <2>1, PlaceOf
  <2>q. QED BY <2>1, <2>2, <2>3, LeavesQueue
<1>8. CASE SteerAccepted
  <2>1. PICK x \in Items : InSteer(x) /\ steer[1] = x
        BY <1>8, <1>t DEF SteerAccepted
  <2>2. UNCHANGED <<queue, drain, removed>> /\ steer' = <<>> /\ accepted' = [accepted EXCEPT ![x] = @ + 1]
        BY <1>8, <2>1 DEF SteerAccepted
  <2>q. QED BY <2>1, <2>2, TakenByHost
<1>9. CASE SteerFails
  <2>1. PICK x \in Items, k \in Nat \ {0} : InSteer(x) /\ steer[1] = x /\ steer[2] = k
        BY <1>9, <1>t DEF SteerFails
  <2>2. UNCHANGED <<drain, removed>> /\ steer' = <<>> /\ queue' = InsertItem(queue, x, k) /\ Fails(x, FALSE)
        BY <1>9, <2>1 DEF SteerFails, PutBack
  <2>3. More(queue, x, queue')
        BY <1>t, <2>2, PuttingBack
  <2>4. MaybeTaken(x)
        BY <2>2 DEF Fails, MaybeTaken
  <2>q. QED BY <2>1, <2>2, <2>3, <2>4, EntersQueue DEF FromSteer
<1>10. CASE UserPrompts \/ RunEnds \/ AbortRun \/ AbortReaches \/ AbortFails \/ UNCHANGED vars
  <2>1. UNCHANGED <<queue, drain, steer, accepted, removed>>
        BY <1>10 DEF UserPrompts, RunEnds, AbortRun, AbortReaches, AbortFails, vars
  <2>q. QED BY <1>t, <2>1, NothingMoves
<1>q. QED BY <1>1, <1>2, <1>3, <1>4, <1>5, <1>6, <1>7, <1>8, <1>9, <1>10 DEF Next

-----------------------------------------------------------------------------
(* Why nothing waits *)

\* A run streams or its end is on its way; so it is while the end of an aborted turn is awaited, and
\* another end is to come where a run has started since. What is queued then has a reason to be.
EndComes == ends > 0
TwoEndsCome == ends > 1
Served ==
    /\ streaming => runs \/ EndComes
    /\ suppress => runs \/ EndComes
    /\ suppress /\ ~halted => (runs /\ EndComes) \/ TwoEndsCome
    /\ queue # <<>> /\ ~halted => runs \/ EndComes \/ drain # <<>> \/ steer # <<>>

\* Counting the ends that come.
LEMMA Ends ==
    ASSUME ends \in Nat
    PROVE  /\ TwoEndsCome => EndComes
           /\ ends' = ends => (EndComes' <=> EndComes) /\ (TwoEndsCome' <=> TwoEndsCome)
           /\ ends' = ends + 1 => EndComes' /\ (EndComes => TwoEndsCome') /\ ends' \in Nat
           /\ ends > 0 /\ ends' = ends - 1 => (TwoEndsCome => EndComes') /\ ends' \in Nat
BY DEF EndComes, TwoEndsCome

\* Every step keeps the types of the run.
LEMMA StepTyped ==
    ASSUME RunTyped, [Next]_vars
    PROVE  RunTyped'
<1>1. ends \in Nat
      BY DEF RunTyped
<1>2. CASE QueueMessage \/ RemoveQueued \/ MoveQueued \/ SteerWith \/ UNCHANGED vars
      BY <1>2 DEF QueueMessage, RemoveQueued, MoveQueued, SteerWith, vars, RunTyped
<1>3. CASE UserPrompts \/ DrainAccepted \/ SteerAccepted
      BY <1>3 DEF UserPrompts, DrainAccepted, SteerAccepted, Starts, RunTyped
<1>4. CASE RunEnds \/ AbortReaches
  <2>1. ends' \in Nat
        BY <1>1, <1>4, Ends DEF RunEnds, AbortReaches
  <2>q. QED BY <1>4, <2>1 DEF RunEnds, AbortReaches, RunTyped
<1>5. CASE TurnEnds
  <2>1. ends' \in Nat
        BY <1>1, <1>5, Ends DEF TurnEnds
  <2>q. QED BY <1>5, <2>1 DEF TurnEnds, Unmarked, RunTyped
<1>6. CASE DrainFails \/ SteerFails
      BY <1>6 DEF DrainFails, SteerFails, Fails, RunTyped
<1>7. CASE AbortRun \/ AbortFails
      BY <1>7 DEF AbortRun, AbortFails, RunTyped
<1>q. QED BY <1>2, <1>3, <1>4, <1>5, <1>6, <1>7 DEF Next

\* Every step keeps Served.
LEMMA StepServes ==
    ASSUME TypeOK, Served, [Next]_vars
    PROVE  Served'
<1>1. ends \in Nat
      BY DEF TypeOK, RunTyped
<1>2. CASE ends' = ends
  <2>1. (EndComes' <=> EndComes) /\ (TwoEndsCome' <=> TwoEndsCome) /\ (TwoEndsCome => EndComes)
        BY <1>1, <1>2, Ends
  <2>2. CASE QueueMessage \/ SteerWith
        BY <2>1, <2>2 DEF QueueMessage, SteerWith, Served
  <2>3. CASE RemoveQueued \/ MoveQueued
    <3>1. UNCHANGED <<runs, streaming, drain, steer, suppress, halted>>
          BY <2>3 DEF RemoveQueued, MoveQueued
    <3>2. queue # <<>>
          BY <2>3 DEF RemoveQueued, MoveQueued, ToSet
    <3>q. QED BY <2>1, <3>1, <3>2 DEF Served
  <2>4. CASE UserPrompts \/ DrainAccepted
        BY <2>1, <2>4 DEF UserPrompts, DrainAccepted, Starts, Served
  <2>5. CASE SteerAccepted
        BY <2>1, <2>5 DEF SteerAccepted, Starts, Served
  <2>6. CASE DrainFails
    <3>1. UNCHANGED <<runs, streaming, suppress>> /\ (halted' <=> halted \/ ~runs)
          BY <2>6 DEF DrainFails, Fails
    <3>q. QED BY <2>1, <3>1 DEF Served
  <2>7. CASE SteerFails
    <3>1. UNCHANGED <<runs, streaming, suppress>> /\ halted'
          BY <2>7 DEF SteerFails, Fails
    <3>q. QED BY <2>1, <3>1 DEF Served
  <2>8. CASE AbortRun
        BY <2>1, <2>8 DEF AbortRun, Served
  <2>9. CASE AbortFails
        BY <2>1, <2>9 DEF AbortFails, Served
  <2>10. CASE AbortReaches /\ ~runs
        BY <2>1, <2>10 DEF AbortReaches, Served
  <2>11. CASE UNCHANGED vars
        BY <2>1, <2>11 DEF vars, Served
  <2>12. ~(RunEnds \/ TurnEnds \/ (AbortReaches /\ runs))
        BY <1>1, <1>2 DEF RunEnds, TurnEnds, AbortReaches
  <2>q. QED BY <2>2, <2>3, <2>4, <2>5, <2>6, <2>7, <2>8, <2>9, <2>10, <2>11, <2>12 DEF Next
<1>3. CASE RunEnds \/ (AbortReaches /\ ends' # ends)
  <2>1. EndComes' /\ (EndComes => TwoEndsCome') /\ (TwoEndsCome => EndComes)
        BY <1>1, <1>3, Ends DEF RunEnds, AbortReaches
  <2>2. UNCHANGED <<suppress, halted>> /\ runs
        BY <1>3 DEF RunEnds, AbortReaches
  <2>q. QED BY <2>1, <2>2 DEF Served
<1>4. CASE TurnEnds
  <2>1. TwoEndsCome => EndComes'
        BY <1>1, <1>4, Ends DEF TurnEnds
  <2>2. /\ ~streaming' /\ ~suppress' /\ UNCHANGED <<runs, steer, halted>> /\ Drain
        BY <1>4 DEF TurnEnds, Unmarked
  <2>3. ~suppress /\ queue' # <<>> => drain' # <<>>
        BY <2>2 DEF Drain
  <2>4. queue' # <<>> => queue # <<>>
        BY <2>2 DEF Drain
  <2>q. QED BY <2>1, <2>2, <2>3, <2>4 DEF Served
<1>5. \/ ends' = ends \/ RunEnds \/ TurnEnds \/ AbortReaches
      BY DEF Next, QueueMessage, RemoveQueued, MoveQueued, UserPrompts, DrainAccepted, DrainFails, SteerWith,
         SteerAccepted, SteerFails, AbortRun, AbortFails, vars
<1>q. QED BY <1>2, <1>3, <1>4, <1>5

-----------------------------------------------------------------------------
(* The theorems *)

\* The start has all of it.
LEMMA InitPlaces ==
    ASSUME Init
    PROVE  TypeOK /\ AllApart /\ Served
<1>1. queue = <<>> /\ queue \in Seq(Items) /\ 1..Len(queue) = {}
  <2>1. queue = <<>> /\ 1..Len(<<>>) = {}
        BY DEF Init
  <2>q. QED BY <2>1, EmptySeq
<1>2. TypeOK
      BY <1>1 DEF Init, TypeOK, RunTyped, PlacesTyped
<1>3. AllApart
  <2>1. drain = <<>> /\ steer = <<>> /\ removed = {} /\ \A x \in Items : accepted[x] = 0
        BY DEF Init
  <2>q. QED BY <1>1, <2>1 DEF AllApart, Apart, Distinct, Holds, InDrain, InSteer
<1>q. QED BY <1>2, <1>3 DEF Init, Served

\* Type correctness, lost answers admitted.
THEOREM TypeCorrect == Spec => []TypeOK
<1>1. Init => TypeOK
      BY InitPlaces
<1>2. TypeOK /\ [Next]_vars => TypeOK'
      BY StepMoves, StepTyped DEF TypeOK, Moved
<1>q. QED BY <1>1, <1>2, PTL DEF Spec

\* A sequence of one message at most.
LEMMA OneOrNone ==
    ASSUME NEW s \in {<<>>} \cup {<<y>> : y \in Items}, NEW x
    PROVE  s \in Seq(Items) /\ Distinct(s) /\ (Holds(s, x) <=> s = <<x>>)
<1>1. CASE s = <<>>
  <2>1. 1..Len(s) = {} /\ s \in Seq(Items)
        BY <1>1
  <2>q. QED BY <1>1, <2>1 DEF Distinct, Holds
<1>2. ASSUME NEW y \in Items, s = <<y>>
      PROVE  s \in Seq(Items) /\ Distinct(s) /\ (Holds(s, x) <=> s = <<x>>)
  <2>1. 1..Len(s) = {1} /\ s \in Seq(Items) /\ s[1] = y
        BY <1>2
  <2>q. QED BY <1>2, <2>1 DEF Distinct, Holds
<1>q. QED BY <1>1, <1>2

\* Copies counts the places a message is in.
LEMMA CopiesCount ==
    ASSUME PlacesTyped, NEW x \in Items
    PROVE  (Copies(x) > 0 <=> Somewhere(x)) /\ (AllApart => Copies(x) =< 1)
<1> DEFINE inQueue == Cardinality({i \in DOMAIN queue : queue[i] = x})
           inDrain == Cardinality({i \in DOMAIN drain : drain[i] = x})
<1>1. inQueue \in Nat /\ (inQueue > 0 <=> Holds(queue, x)) /\ (Distinct(queue) => inQueue =< 1)
      BY Counting DEF PlacesTyped
<1>2. inDrain \in Nat /\ (inDrain > 0 <=> InDrain(x)) /\ inDrain =< 1
  <2>1. drain \in Seq(Items) /\ Distinct(drain) /\ (Holds(drain, x) <=> InDrain(x))
        BY OneOrNone DEF PlacesTyped, InDrain
  <2>q. QED BY <2>1, Counting
<1>3. accepted[x] \in Nat
      BY DEF PlacesTyped
<1>4. Copies(x) = inQueue + inDrain + (IF InSteer(x) THEN 1 ELSE 0) + (IF x \in removed THEN 1 ELSE 0) + accepted[x]
      BY DEF Copies, InSteer
<1> HIDE DEF inQueue, inDrain
<1>5. Copies(x) > 0 <=> Somewhere(x)
      BY <1>1, <1>2, <1>3, <1>4 DEF Somewhere
<1>6. AllApart => Copies(x) =< 1
      BY <1>1, <1>2, <1>3, <1>4 DEF AllApart, Apart
<1>q. QED BY <1>5, <1>6

\* So it does in the next state.
LEMMA CopiesCountNext ==
    ASSUME PlacesTyped', NEW x \in Items
    PROVE  Copies(x)' > 0 <=> Somewhere(x)'
<1> DEFINE inQueue == Cardinality({i \in DOMAIN queue' : queue'[i] = x})
           inDrain == Cardinality({i \in DOMAIN drain' : drain'[i] = x})
<1>1. inQueue \in Nat /\ (inQueue > 0 <=> Holds(queue', x))
      BY Counting DEF PlacesTyped
<1>2. inDrain \in Nat /\ (inDrain > 0 <=> InDrain(x)')
  <2>1. drain' \in Seq(Items) /\ (Holds(drain', x) <=> InDrain(x)')
        BY OneOrNone DEF PlacesTyped, InDrain
  <2>q. QED BY <2>1, Counting
<1>3. accepted'[x] \in Nat
      BY DEF PlacesTyped
<1>4. Copies(x)' = inQueue + inDrain + (IF InSteer(x)' THEN 1 ELSE 0) + (IF x \in removed' THEN 1 ELSE 0) + accepted'[x]
      BY DEF Copies, InSteer
<1> HIDE DEF inQueue, inDrain
<1>q. QED BY <1>1, <1>2, <1>3, <1>4 DEF Somewhere

\* A message, once queued, is always somewhere: waiting, on its way, taken back or taken by the Host,
\* whatever fails and whichever answers are lost.
THEOREM MessagesStay == Spec => NothingLost
<1>1. TypeOK /\ [Next]_vars => [StaysSomewhere]_vars
  <2>1. SUFFICES ASSUME TypeOK, [Next]_vars, NEW x \in Items, Copies(x) > 0
                 PROVE  Copies(x)' > 0
        BY DEF StaysSomewhere
  <2>2. PlacesTyped /\ Moved
        BY <2>1, StepMoves DEF TypeOK
  <2>3. Somewhere(x)'
        BY <2>1, <2>2, CopiesCount DEF Moved
  <2>q. QED BY <2>2, <2>3, CopiesCountNext DEF Moved
<1>q. QED BY <1>1, TypeCorrect, PTL DEF Spec, NothingLost

\* What is served does not wait.
LEMMA ServedWaitsForNothing ==
    ASSUME TypeOK, Served
    PROVE  NothingWaits
<1>1. ends \in Nat
      BY DEF TypeOK, RunTyped
<1>2. ends = 0 => ~EndComes
      BY <1>1 DEF EndComes
<1>q. QED BY <1>2 DEF Served, NothingWaits

\* Unless an answer is lost, a queued message is in one place and is taken once; and when nothing goes
\* on, what still waits does so because the user stopped the run or a sending failed.
THEOREM QueueServed ==
    ASSUME "lost answer" \notin Races
    PROVE  Spec => []QueueIsServed
<1>1. Init => AllApart /\ Served
      BY InitPlaces
<1>2. TypeOK /\ AllApart /\ Served /\ [Next]_vars => AllApart' /\ Served'
      BY StepMoves, StepServes DEF TypeOK, Moved
<1>3. TypeOK /\ AllApart /\ Served => QueueIsServed
  <2>1. TypeOK /\ AllApart => InOnePlace
        BY CopiesCount DEF TypeOK, InOnePlace
  <2>2. TypeOK /\ Served => NothingWaits
        BY ServedWaitsForNothing
  <2>q. QED BY <2>1, <2>2 DEF QueueIsServed
<1>q. QED BY <1>1, <1>2, <1>3, TypeCorrect, PTL DEF Spec

-----------------------------------------------------------------------------
(* The task on screen: PageTasks *)

Offered == Models \cup {NoModel, CHOOSE m \in Models : TRUE}
Opening == [version: Nat, key: Keys, at: {"start", "sync", "apply", "model", "done"}, rt: Nat, pick: Nat]
Picked == [rt: Nat, model: Offered, at: {"asks", "set", "refused", "over"}]
Made == [key: Keys, state: {"live", "stopped", "left"}, turns: Nat, model: Offered]
Message == [at: {"none", "opens", "connects", "picks", "goes", "sent"}, key: Keys, waits: Nat, rt: Nat, count: Nat]

TaskTyped ==
    /\ version \in Nat /\ shown \in Keys /\ connection \in {"disconnected", "starting", "running", "exited"}
    /\ model \in Offered /\ queued \in Offered /\ default \in Offered
    /\ connects \in Seq(Opening) /\ pending \in 0..Len(connects)
    /\ picks \in Seq(Picked) /\ send \in Message
    /\ runtimes \in Seq(Made) /\ runtimeId \in 0..Len(runtimes) /\ listed \subseteq Nat

\* The connect that no other one has overtaken is for the task on screen, and is the one pending.
Cur(c) == connects[c].version = version
At(stage) == \E c \in DOMAIN connects : Cur(c) /\ connects[c].at = stage
Latest ==
    /\ connection = "running" => runtimeId # 0 /\ runtimes[runtimeId].key = shown
    /\ \A c \in DOMAIN connects : connects[c].version <= version /\ (Cur(c) => connects[c].key = shown)
    /\ \A c, d \in DOMAIN connects : connects[c].version = connects[d].version => c = d
    /\ pending # 0 => Cur(pending) /\ connects[pending].at # "done"
    /\ \A c \in DOMAIN connects : Cur(c) =>
         /\ connects[c].at # "done" => pending = c
         /\ connects[c].at = "start" => connection # "running"
         /\ connects[c].at \in {"sync", "apply", "model"} =>
               connection = "running" /\ connects[c].rt = runtimeId /\ runtimes[runtimeId].state = "live"

\* Picks reach the Host in their order; the last one for the runtime on screen ends last.
Changing == Len(picks) # 0 /\ picks[Len(picks)].at # "over" /\ picks[Len(picks)].rt = runtimeId
Agrees == runtimes[runtimeId].model = model
Behind(i) == \A j \in DOMAIN picks : j < i /\ picks[j].rt = picks[i].rt => picks[j].at = "over"
InOrder ==
    \A i \in DOMAIN picks : picks[i].at # "over" =>
      /\ picks[i].rt \in DOMAIN runtimes
      /\ picks[i].at # "asks" => Behind(i)
      /\ picks[i].rt = runtimeId => Changing /\ (picks[i].at = "set" => runtimes[runtimeId].model = picks[i].model)

\* The model on screen is the runtime's, or something under way makes it so.
ModelShown ==
    connection = "running" => Agrees \/ Changing \/ At("sync") \/ (At("apply") /\ queued = model /\ queued # NoModel)
\* What is being sent belongs to the task on screen; once it has waited for the connect of that task
\* none is pending, and then only a later pick than the one it waits for is on its way.
SentHere ==
    /\ send.at \in {"opens", "connects", "picks", "goes"} => send.key = shown
    /\ send.at \in {"opens", "connects"} => send.waits \in DOMAIN connects /\ Cur(send.waits)
    /\ send.at \in {"connects", "picks", "goes"} => connection = "running"
    /\ send.at \in {"picks", "goes"} => pending = 0 /\ send.waits <= Len(picks)
    /\ send.at = "goes" => send.rt = runtimeId /\ (Changing => send.waits < Len(picks))
MessageInv == SentHere /\ ModelShown

TaskInv == TaskTyped /\ Latest /\ InOrder /\ RuntimesAreListed

LEMMA Entries ==
    ASSUME TaskTyped
    PROVE  /\ \A c \in DOMAIN connects : connects[c] \in Opening /\ connects[c].version \in Nat /\ connects[c].rt \in Nat
           /\ \A i \in DOMAIN picks : picks[i] \in Picked
           /\ \A r \in DOMAIN runtimes : runtimes[r] \in Made
           /\ DOMAIN connects = 1..Len(connects) /\ Len(connects) \in Nat
           /\ DOMAIN picks = 1..Len(picks) /\ Len(picks) \in Nat
           /\ DOMAIN runtimes = 1..Len(runtimes) /\ Len(runtimes) \in Nat
<1>1. connects \in Seq(Opening) /\ picks \in Seq(Picked) /\ runtimes \in Seq(Made)
      BY DEF TaskTyped
<1>2. \A c \in DOMAIN connects : connects[c] \in Opening
      BY <1>1
<1>3. \A c \in DOMAIN connects : connects[c].version \in Nat /\ connects[c].rt \in Nat
      BY <1>2 DEF Opening
<1>4. /\ \A i \in DOMAIN picks : picks[i] \in Picked
      /\ \A r \in DOMAIN runtimes : runtimes[r] \in Made
      BY <1>1
<1>5. /\ DOMAIN connects = 1..Len(connects) /\ Len(connects) \in Nat
      /\ DOMAIN picks = 1..Len(picks) /\ Len(picks) \in Nat
      /\ DOMAIN runtimes = 1..Len(runtimes) /\ Len(runtimes) \in Nat
      BY <1>1
<1>q. QED BY <1>2, <1>3, <1>4, <1>5

LEMMA TaskStarts == TasksInit => TaskInv /\ MessageInv
<1> SUFFICES ASSUME TasksInit PROVE TaskInv /\ MessageInv
      OBVIOUS
<1>1. /\ version = 0 /\ connection = "disconnected" /\ runtimeId = 0 /\ shown = "new" /\ pending = 0
      /\ model = NoModel /\ queued = NoModel /\ default = NoModel /\ listed = {}
      BY DEF TasksInit
<1>2. connects = <<>> /\ picks = <<>> /\ runtimes = <<>> /\ send = None
      BY DEF TasksInit
<1>3. "new" \in Keys /\ NoModel \in Offered
      BY DEF Keys, Offered
<1>4. send \in Message /\ send.at = "none"
      BY <1>2, <1>3 DEF None, Message
<1>5. /\ <<>> \in Seq(Opening) /\ <<>> \in Seq(Picked) /\ <<>> \in Seq(Made)
      /\ Len(<<>>) = 0 /\ DOMAIN <<>> = {}
      OBVIOUS
<1>6. TaskTyped
      BY <1>1, <1>2, <1>3, <1>4, <1>5 DEF TaskTyped
<1>7. Latest /\ InOrder /\ RuntimesAreListed
      BY <1>1, <1>2, <1>5 DEF Latest, InOrder, RuntimesAreListed
<1>q. QED BY <1>1, <1>4, <1>6, <1>7 DEF TaskInv, MessageInv, SentHere, ModelShown

\* A connect begins: it is the last one, and the only current one.
LEMMA BeginIs ==
    ASSUME TaskTyped, NEW key \in Keys, Begin(key)
    PROVE  /\ version' = version + 1 /\ connection' = "starting" /\ shown' = key /\ queued' \in {queued, NoModel}
           /\ connects' \in Seq(Opening) /\ pending' = Len(connects') /\ pending' \notin DOMAIN connects /\ pending' # 0
           /\ DOMAIN connects' = DOMAIN connects \cup {pending'}
           /\ \A c \in DOMAIN connects : connects'[c] = connects[c]
           /\ connects'[pending'].version = version' /\ connects'[pending'].key = key
           /\ connects'[pending'].at = "start"
<1> DEFINE new == [version |-> version', key |-> key, at |-> "start", rt |-> 0, pick |-> 0]
<1>1. /\ version' = version + 1 /\ connects' = Append(connects, new) /\ pending' = Len(connects')
      /\ connection' = "starting" /\ shown' = key /\ queued' \in {queued, NoModel}
      BY DEF Begin
<1>2. version \in Nat /\ connects \in Seq(Opening)
      BY DEF TaskTyped
<1>3. new \in Opening /\ new.version = version' /\ new.key = key /\ new.at = "start"
      BY <1>1, <1>2 DEF Opening
<1> HIDE DEF new
<1>4. /\ connects' \in Seq(Opening) /\ Len(connects') = Len(connects) + 1 /\ connects'[Len(connects) + 1] = new
      /\ \A c \in 1..Len(connects) : connects'[c] = connects[c]
      BY <1>1, <1>2, <1>3
<1>5. /\ Len(connects) \in Nat /\ DOMAIN connects = 1..Len(connects)
      /\ DOMAIN connects' = 1..(Len(connects) + 1)
      BY <1>2, <1>4
<1>q. QED BY <1>1, <1>3, <1>4, <1>5

\* A stage of a connect ends; when its last one does, it is pending no more.
StageEnds(c, at) ==
    /\ connects' \in Seq(Opening) /\ DOMAIN connects' = DOMAIN connects /\ Len(connects') = Len(connects)
    /\ \A d \in DOMAIN connects : d # c => connects'[d] = connects[d]
    /\ connects'[c].version = connects[c].version /\ connects'[c].key = connects[c].key /\ connects'[c].at = at
    /\ pending' = IF at = "done" /\ pending = c THEN 0 ELSE pending

LEMMA MovedIs ==
    ASSUME TaskTyped, NEW c \in DOMAIN connects, NEW at \in {"start", "sync", "apply", "model", "done"},
           NEW rt \in Nat, NEW pick \in Nat,
           connects' = [connects EXCEPT ![c].at = at, ![c].rt = rt, ![c].pick = pick],
           pending' = IF at = "done" /\ pending = c THEN 0 ELSE pending
    PROVE  StageEnds(c, at) /\ connects'[c].rt = rt
<1>1. connects \in Seq(Opening) /\ connects[c] \in Opening
      BY DEF TaskTyped
<1>2. /\ DOMAIN connects' = DOMAIN connects /\ Len(connects') = Len(connects) /\ connects' \in Seq(Opening)
      /\ connects'[c] = [connects[c] EXCEPT !.at = at, !.rt = rt, !.pick = pick]
      /\ \A d \in DOMAIN connects : d # c => connects'[d] = connects[d]
  <2>1. [connects[c] EXCEPT !.at = at, !.rt = rt, !.pick = pick] \in Opening
        BY <1>1 DEF Opening
  <2>2. connects' = [connects EXCEPT ![c] = [connects[c] EXCEPT !.at = at, !.rt = rt, !.pick = pick]]
        BY <1>1
  <2>q. QED BY <1>1, <2>1, <2>2
<1>q. QED BY <1>1, <1>2 DEF StageEnds, Opening

LEMMA ModelStageIs ==
    ASSUME TaskTyped, NEW c \in DOMAIN connects, NEW pick \in Nat,
           connects' = [connects EXCEPT ![c].at = "model", ![c].pick = pick], pending' = pending
    PROVE  StageEnds(c, "model") /\ connects'[c].rt = connects[c].rt
<1> DEFINE moved == [connects[c] EXCEPT !.at = "model", !.pick = pick]
<1>1. connects \in Seq(Opening) /\ connects[c] \in Opening
      BY DEF TaskTyped
<1>2. /\ moved \in Opening /\ moved.version = connects[c].version /\ moved.key = connects[c].key
      /\ moved.at = "model" /\ moved.rt = connects[c].rt
      BY <1>1 DEF Opening
<1>3. connects' = [connects EXCEPT ![c] = moved]
      BY <1>1
<1> HIDE DEF moved
<1>4. /\ DOMAIN connects' = DOMAIN connects /\ Len(connects') = Len(connects) /\ connects' \in Seq(Opening)
      /\ connects'[c] = moved /\ \A d \in DOMAIN connects : d # c => connects'[d] = connects[d]
  <2>1. DOMAIN connects = 1..Len(connects) /\ c \in 1..Len(connects)
        BY <1>1, LenProperties
  <2> DEFINE next == [connects EXCEPT ![c] = moved]
  <2>2. next \in Seq(Opening) /\ Len(next) = Len(connects)
        BY <1>1, <1>2, <2>1, ExceptSeq
  <2>3. DOMAIN next = DOMAIN connects /\ next[c] = moved /\ \A d \in DOMAIN connects : d # c => next[d] = connects[d]
        OBVIOUS
  <2> HIDE DEF next
  <2>4. connects' = next
        BY <1>3 DEF next
  <2>q. QED BY <2>2, <2>3, <2>4
<1>5. pending' = IF "model" = "done" /\ pending = c THEN 0 ELSE pending
      OBVIOUS
<1>q. QED BY <1>2, <1>4, <1>5 DEF StageEnds

LEMMA SettledIs ==
    ASSUME TaskTyped, NEW c \in DOMAIN connects, NEW at \in {"apply", "done"}, Settled(c, at)
    PROVE  StageEnds(c, at) /\ connects'[c].rt = IF at = "done" THEN 0 ELSE connects[c].rt
<1> DEFINE rt == IF at = "done" THEN 0 ELSE connects[c].rt
           pick == IF at = "done" THEN 0 ELSE connects[c].pick
<1>1. connects \in Seq(Opening) /\ connects[c] \in Opening
      BY DEF TaskTyped
<1>2. rt \in Nat /\ pick \in Nat
      BY <1>1 DEF Opening
<1>3. connects' = [connects EXCEPT ![c].at = at, ![c].rt = rt, ![c].pick = pick]
      BY <1>1 DEF Settled, Opening
<1>4. pending' = IF at = "done" /\ pending = c THEN 0 ELSE pending
      BY DEF Settled
<1> HIDE DEF rt, pick
<1>5. StageEnds(c, at) /\ connects'[c].rt = rt
      BY <1>2, <1>3, <1>4, MovedIs
<1>q. QED BY <1>5 DEF rt

\* A connect that moves on does so for the task on screen, or is over.
LEMMA MovedKeeps ==
    ASSUME TaskTyped, Latest, NEW c \in DOMAIN connects, connects[c].at # "done", NEW at, at # "start", StageEnds(c, at),
           at = "done" \/ (/\ Cur(c) /\ connection = "running" /\ connects'[c].rt = runtimeId
                          /\ runtimeId # 0 /\ runtimes[runtimeId].state = "live"),
           connection' = connection \/ (Cur(c) /\ at = "done" /\ connection' # "running"),
           UNCHANGED <<version, runtimeId, shown>>,
           runtimeId # 0 => /\ runtimes'[runtimeId].key = runtimes[runtimeId].key
                            /\ runtimes'[runtimeId].state = runtimes[runtimeId].state
    PROVE  Latest' /\ pending' \in 0..Len(connects')
<1>1. pending \in 0..Len(connects)
      BY DEF TaskTyped
<1>2. pending' \in 0..Len(connects')
      BY <1>1 DEF StageEnds
<1>3. \A d \in DOMAIN connects : Cur(d)' <=> Cur(d)
      BY DEF StageEnds, Cur
<1>4. pending # 0 => pending \in DOMAIN connects
      BY <1>1 DEF TaskTyped
<1>5. Cur(c) => pending = c /\ \A d \in DOMAIN connects : Cur(d) => d = c
      BY DEF Latest, Cur
<1>6. /\ connection' = "running" => runtimeId' # 0 /\ runtimes'[runtimeId'].key = shown'
      /\ \A d \in DOMAIN connects' : connects'[d].version <= version' /\ (Cur(d)' => connects'[d].key = shown')
      BY <1>3 DEF Latest, StageEnds
<1>7. \A d, e \in DOMAIN connects' : connects'[d].version = connects'[e].version => d = e
      BY DEF Latest, StageEnds
<1>8. pending' # 0 => Cur(pending)' /\ connects'[pending'].at # "done"
      BY <1>3, <1>4 DEF Latest, StageEnds
<1>9. ASSUME NEW d \in DOMAIN connects', Cur(d)'
      PROVE  /\ connects'[d].at # "done" => pending' = d
             /\ connects'[d].at = "start" => connection' # "running"
             /\ connects'[d].at \in {"sync", "apply", "model"} =>
                   /\ connection' = "running" /\ connects'[d].rt = runtimeId'
                   /\ runtimes'[runtimeId'].state = "live"
  <2>1. d \in DOMAIN connects /\ Cur(d)
        BY <1>3, <1>9 DEF StageEnds
  <2>2. CASE d = c
        BY <1>5, <2>1, <2>2 DEF StageEnds
  <2>3. CASE d # c
        BY <1>5, <2>1, <2>3 DEF Latest, StageEnds
  <2>q. QED BY <2>2, <2>3
<1>q. QED BY <1>2, <1>6, <1>7, <1>8, <1>9 DEF Latest

\* A connect that begins leaves the others behind.
LEMMA BeginKeeps ==
    ASSUME TaskInv, NEW key \in Keys, Begin(key), send' \in Message,
           UNCHANGED <<runtimeId, model, default, picks, runtimes, listed>>
    PROVE  TaskInv'
<1>1. /\ version' = version + 1 /\ connection' = "starting" /\ shown' = key /\ queued' \in {queued, NoModel}
      /\ connects' \in Seq(Opening) /\ pending' = Len(connects') /\ pending' \notin DOMAIN connects /\ pending' # 0
      /\ DOMAIN connects' = DOMAIN connects \cup {pending'}
      /\ \A c \in DOMAIN connects : connects'[c] = connects[c]
      /\ connects'[pending'].version = version' /\ connects'[pending'].key = key
      /\ connects'[pending'].at = "start"
      BY BeginIs DEF TaskInv
<1>2. TaskTyped'
  <2>1. queued' \in Offered
        BY <1>1 DEF TaskInv, TaskTyped, Offered
  <2>2. version' \in Nat /\ pending' \in 0..Len(connects')
        BY <1>1 DEF TaskInv, TaskTyped
  <2>q. QED BY <1>1, <2>1, <2>2 DEF TaskInv, TaskTyped
<1>3. \A c \in DOMAIN connects : connects'[c].version <= version /\ connects'[c].version # version'
  <2>1. \A c \in DOMAIN connects : connects[c].version \in Nat
        BY Entries DEF TaskInv
  <2>2. version \in Nat
        BY DEF TaskInv, TaskTyped
  <2>q. QED BY <1>1, <2>1, <2>2 DEF TaskInv, Latest
<1>4. version <= version' /\ version' <= version'
      BY <1>1 DEF TaskInv, TaskTyped
<1>5. \A c \in DOMAIN connects' : connects'[c].version <= version' /\ (Cur(c)' => c = pending')
  <2>1. \A c \in DOMAIN connects : connects'[c].version \in Nat
        BY <1>1, Entries DEF TaskInv
  <2>2. version \in Nat /\ version' \in Nat
        BY <1>1 DEF TaskInv, TaskTyped
  <2>q. QED BY <1>1, <1>3, <1>4, <2>1, <2>2 DEF Cur
<1>6. \A c, d \in DOMAIN connects' : connects'[c].version = connects'[d].version => c = d
      BY <1>1, <1>3 DEF TaskInv, Latest
<1>7. Latest'
      BY <1>1, <1>5, <1>6 DEF Latest, Cur
<1>8. InOrder' /\ RuntimesAreListed'
      BY DEF TaskInv, InOrder, RuntimesAreListed, Changing, Behind
<1>q. QED BY <1>2, <1>7, <1>8 DEF TaskInv

\* What is not about the picks leaves their order, with a runtime that none of them is for on screen, too.
LEMMA OrderStays ==
    ASSUME TaskTyped, InOrder, UNCHANGED picks, DOMAIN runtimes \subseteq DOMAIN runtimes',
           \A r \in DOMAIN runtimes : runtimes'[r].model = runtimes[r].model,
           runtimeId' = runtimeId \/ runtimeId' \notin DOMAIN runtimes
    PROVE  InOrder'
      BY DEF InOrder, Changing, Behind

LEMMA LatestStays ==
    ASSUME TaskTyped, Latest, UNCHANGED <<version, connection, runtimeId, shown, connects, pending>>,
           \A r \in DOMAIN runtimes : runtimes'[r].key = runtimes[r].key /\ runtimes'[r].state = runtimes[r].state
    PROVE  Latest'
<1>1. runtimeId # 0 => runtimeId \in DOMAIN runtimes
      BY DEF TaskTyped
<1>2. connection = "running" => runtimeId # 0
      BY DEF Latest
<1>q. QED BY <1>1, <1>2 DEF Latest, Cur

\* A runtime that agent.start made: nobody's yet.
LEMMA RuntimeIs ==
    ASSUME TaskTyped, NEW r \in Made, runtimes' = Append(runtimes, r)
    PROVE  /\ runtimes' \in Seq(Made) /\ Len(runtimes') = Len(runtimes) + 1
           /\ Len(runtimes') \notin DOMAIN runtimes /\ Len(runtimes') # 0
           /\ DOMAIN runtimes' = DOMAIN runtimes \cup {Len(runtimes')}
           /\ runtimes'[Len(runtimes')] = r
           /\ \A t \in DOMAIN runtimes : runtimes'[t] = runtimes[t]
<1>1. runtimes \in Seq(Made) /\ Len(runtimes) \in Nat /\ DOMAIN runtimes = 1..Len(runtimes)
      BY Entries DEF TaskTyped
<1>2. /\ runtimes' \in Seq(Made) /\ Len(runtimes') = Len(runtimes) + 1 /\ runtimes'[Len(runtimes) + 1] = r
      /\ \A t \in 1..Len(runtimes) : runtimes'[t] = runtimes[t]
      BY <1>1
<1>3. DOMAIN runtimes' = 1..(Len(runtimes) + 1)
      BY <1>2
<1>q. QED BY <1>1, <1>2, <1>3

LEMMA RuntimeMade ==
    ASSUME NEW key \in Keys, NEW state \in {"live", "stopped", "left"}
    PROVE  /\ Runtime(key) \in Made /\ [Runtime(key) EXCEPT !.state = state] \in Made
           /\ Runtime(key).key = key /\ Runtime(key).state = "live"
           /\ [Runtime(key) EXCEPT !.state = state].state = state
           /\ StoppedRuntime(key) \in Made /\ StoppedRuntime(key).state = "stopped"
           /\ LeftRuntime(key) \in Made /\ LeftRuntime(key).state = "left"
      BY DEF Runtime, StoppedRuntime, LeftRuntime, Made, Offered

LEMMA ConnectStartedKeeps ==
    ASSUME TaskInv, ConnectStarted
    PROVE  TaskInv'
<1>1. PICK c \in DOMAIN connects : Started(c)
      BY DEF ConnectStarted
<1>2. UNCHANGED <<model, queued, default, picks, warmed, send>>
      BY DEF ConnectStarted, models
<1>3. connects[c].at = "start" /\ UNCHANGED <<version, shown>>
      BY <1>1 DEF Started
<1>4. TaskTyped /\ Latest /\ InOrder /\ RuntimesAreListed
      BY DEF TaskInv
<1>5. connects[c] \in Opening /\ connects[c].key \in Keys
      BY <1>4, Entries DEF Opening
<1>6. CASE ~Cur(c)
  <2>1. /\ Settled(c, "done") /\ runtimes' = Append(runtimes, StoppedRuntime(connects[c].key))
        /\ UNCHANGED <<runtimeId, connection, listed>>
        BY <1>1, <1>6 DEF Started, Current, Cur
  <2>2. StageEnds(c, "done")
        BY <1>4, <2>1, SettledIs
  <2>3. StoppedRuntime(connects[c].key) \in Made /\ StoppedRuntime(connects[c].key).state = "stopped"
        BY <1>5, RuntimeMade
  <2>4. /\ runtimes' \in Seq(Made) /\ Len(runtimes') = Len(runtimes) + 1
        /\ DOMAIN runtimes' = DOMAIN runtimes \cup {Len(runtimes')}
        /\ runtimes'[Len(runtimes')] = StoppedRuntime(connects[c].key)
        /\ \A t \in DOMAIN runtimes : runtimes'[t] = runtimes[t]
        BY <1>4, <2>1, <2>3, RuntimeIs
  <2>5. runtimeId # 0 => runtimeId \in DOMAIN runtimes
        BY <1>4 DEF TaskTyped
  <2>6. Latest' /\ pending' \in 0..Len(connects')
        BY <1>3, <1>4, <2>1, <2>2, <2>4, <2>5, MovedKeeps
  <2>7. InOrder'
        BY <1>2, <1>4, <2>1, <2>4, OrderStays
  <2>8. RuntimesAreListed'
        BY <1>4, <2>1, <2>3, <2>4 DEF RuntimesAreListed
  <2>9. TaskTyped'
        BY <1>2, <1>3, <1>4, <2>1, <2>2, <2>4, <2>6 DEF TaskTyped, StageEnds
  <2>q. QED BY <2>6, <2>7, <2>8, <2>9 DEF TaskInv
<1>7. CASE Cur(c)
  <2>1. /\ runtimes' = Append(runtimes, Runtime(connects[c].key))
        /\ runtimeId' = Len(runtimes') /\ connection' = "running" /\ listed' = listed \cup {runtimeId'}
        /\ connects' = [connects EXCEPT ![c].at = "sync", ![c].rt = Len(runtimes')]
        /\ pending' = pending
        BY <1>1, <1>7 DEF Started, Current, Cur
  <2>2. /\ Runtime(connects[c].key) \in Made /\ Runtime(connects[c].key).key = connects[c].key
        /\ Runtime(connects[c].key).state = "live"
        BY <1>5, RuntimeMade
  <2>3. /\ runtimes' \in Seq(Made) /\ Len(runtimes') = Len(runtimes) + 1
        /\ Len(runtimes') \notin DOMAIN runtimes /\ Len(runtimes') # 0
        /\ DOMAIN runtimes' = DOMAIN runtimes \cup {Len(runtimes')}
        /\ runtimes'[Len(runtimes')] = Runtime(connects[c].key)
        /\ \A t \in DOMAIN runtimes : runtimes'[t] = runtimes[t]
        BY <1>4, <2>1, <2>2, RuntimeIs
  <2>4. Len(runtimes') \in Nat
        BY <1>4, <2>3, Entries
  <2>5. StageEnds(c, "sync") /\ connects'[c].rt = runtimeId'
    <3>1. connects' = [connects EXCEPT ![c].at = "sync", ![c].rt = Len(runtimes'), ![c].pick = connects[c].pick]
          BY <1>4, <1>5, <2>1 DEF TaskTyped, Opening
    <3>2. connects[c].pick \in Nat
          BY <1>5 DEF Opening
    <3>3. StageEnds(c, "sync") /\ connects'[c].rt = Len(runtimes')
          BY <1>4, <2>1, <2>4, <3>1, <3>2, MovedIs
    <3>q. QED BY <2>1, <3>3
  <2>6. pending = c /\ shown = connects[c].key /\ \A d \in DOMAIN connects : Cur(d) => d = c
        BY <1>3, <1>4, <1>7 DEF Latest, Cur
  <2>7. Latest'
    <3>1. \A d \in DOMAIN connects : Cur(d)' <=> Cur(d)
          BY <1>3, <2>5 DEF StageEnds, Cur
    <3>2. runtimeId' # 0 /\ runtimes'[runtimeId'].key = shown' /\ runtimes'[runtimeId'].state = "live"
          BY <1>3, <2>1, <2>2, <2>3, <2>6
    <3>3. /\ \A d \in DOMAIN connects' : connects'[d].version <= version' /\ (Cur(d)' => connects'[d].key = shown')
          /\ \A d, e \in DOMAIN connects' : connects'[d].version = connects'[e].version => d = e
          BY <1>3, <1>4, <2>5, <3>1 DEF Latest, StageEnds
    <3>4. pending' # 0 => Cur(pending)' /\ connects'[pending'].at # "done"
          BY <1>3, <1>7, <2>1, <2>5, <2>6, <3>1 DEF StageEnds, Cur
    <3>5. ASSUME NEW d \in DOMAIN connects', Cur(d)'
          PROVE  d = c
          BY <2>5, <2>6, <3>1, <3>5 DEF StageEnds
    <3>q. QED BY <2>1, <2>5, <2>6, <3>2, <3>3, <3>4, <3>5 DEF Latest, StageEnds
  <2>8. InOrder'
        BY <1>2, <1>4, <2>1, <2>3, OrderStays
  <2>9. RuntimesAreListed'
        BY <1>4, <2>1, <2>3 DEF RuntimesAreListed
  <2>10. TaskTyped'
    <3>1. runtimeId' \in 0..Len(runtimes') /\ listed' \subseteq Nat
          BY <1>4, <2>1, <2>3, <2>4 DEF TaskTyped
    <3>2. pending' \in 0..Len(connects') /\ connects' \in Seq(Opening)
          BY <1>4, <2>1, <2>5 DEF TaskTyped, StageEnds
    <3>q. QED BY <1>2, <1>3, <1>4, <2>1, <2>3, <3>1, <3>2 DEF TaskTyped
  <2>q. QED BY <2>7, <2>8, <2>9, <2>10 DEF TaskInv
<1>q. QED BY <1>6, <1>7

\* A connect moves on, with nothing else but the model on screen, the picks and what is queued.
LEMMA ConnectMovesOn ==
    ASSUME TaskInv, NEW c \in DOMAIN connects, connects[c].at # "done", NEW at, at # "start", StageEnds(c, at),
           at = "done" \/ (/\ Cur(c) /\ connection = "running" /\ connects'[c].rt = runtimeId
                          /\ runtimeId # 0 /\ runtimes[runtimeId].state = "live"),
           connection' = connection \/ (Cur(c) /\ at = "done" /\ connection' = "exited"),
           model' \in Offered, queued' \in Offered, picks' \in Seq(Picked), InOrder',
           UNCHANGED <<version, runtimeId, shown, default, runtimes, listed, send>>
    PROVE  TaskInv'
<1>1. Latest' /\ pending' \in 0..Len(connects')
      BY MovedKeeps DEF TaskInv
<1>2. TaskTyped'
      BY <1>1 DEF TaskInv, TaskTyped, StageEnds
<1>q. QED BY <1>1, <1>2 DEF TaskInv, RuntimesAreListed

LEMMA ConnectFailsKeeps ==
    ASSUME TaskInv, ConnectFails
    PROVE  TaskInv'
<1>1. PICK c \in DOMAIN connects :
        /\ Settled(c, "done") /\ connection' = IF Current(c) THEN "exited" ELSE connection
        /\ \/ connects[c].at = "start" /\ runtimes' = Append(runtimes, LeftRuntime(connects[c].key))
           \/ connects[c].at = "sync" /\ UNCHANGED runtimes
      BY DEF ConnectFails
<1>2. UNCHANGED <<version, runtimeId, shown, model, queued, default, picks, listed, warmed, send>>
      BY DEF ConnectFails, models
<1>3. TaskTyped /\ Latest /\ InOrder /\ RuntimesAreListed
      BY DEF TaskInv
<1>4. StageEnds(c, "done")
      BY <1>1, <1>3, SettledIs
<1>5. connection' = connection \/ (Cur(c) /\ connection' = "exited")
      BY <1>1 DEF Cur, Current
<1>6. CASE connects[c].at = "start" /\ runtimes' = Append(runtimes, LeftRuntime(connects[c].key))
  <2>1. connects[c].key \in Keys
        BY <1>3, Entries DEF Opening
  <2>2. LeftRuntime(connects[c].key) \in Made /\ LeftRuntime(connects[c].key).state = "left"
        BY <2>1, RuntimeMade
  <2>3. /\ runtimes' \in Seq(Made) /\ Len(runtimes') = Len(runtimes) + 1
        /\ DOMAIN runtimes' = DOMAIN runtimes \cup {Len(runtimes')}
        /\ runtimes'[Len(runtimes')] = LeftRuntime(connects[c].key)
        /\ \A t \in DOMAIN runtimes : runtimes'[t] = runtimes[t]
        BY <1>3, <1>6, <2>2, RuntimeIs
  <2>4. runtimeId # 0 => runtimeId \in DOMAIN runtimes
        BY <1>3 DEF TaskTyped
  <2>5. Latest' /\ pending' \in 0..Len(connects')
        BY <1>2, <1>3, <1>4, <1>5, <1>6, <2>3, <2>4, MovedKeeps
  <2>6. InOrder'
        BY <1>2, <1>3, <2>3, OrderStays
  <2>7. RuntimesAreListed'
        BY <1>2, <1>3, <2>2, <2>3 DEF RuntimesAreListed
  <2>8. runtimeId' \in 0..Len(runtimes')
    <3>1. Len(runtimes) \in Nat /\ runtimeId \in 0..Len(runtimes)
          BY <1>3, Entries DEF TaskTyped
    <3>q. QED BY <1>2, <2>3, <3>1
  <2>9. TaskTyped'
        BY <1>2, <1>3, <1>4, <1>5, <2>3, <2>5, <2>8 DEF TaskTyped, StageEnds
  <2>q. QED BY <2>5, <2>6, <2>7, <2>9 DEF TaskInv
<1>7. CASE connects[c].at = "sync" /\ UNCHANGED runtimes
  <2>1. InOrder'
        BY <1>2, <1>3, <1>7, OrderStays
  <2>2. model' \in Offered /\ queued' \in Offered /\ picks' \in Seq(Picked)
        BY <1>2, <1>3 DEF TaskTyped
  <2>q. QED BY <1>2, <1>4, <1>5, <1>7, <2>1, <2>2, ConnectMovesOn
<1>q. QED BY <1>1, <1>6, <1>7

LEMMA ConnectEndsKeeps ==
    ASSUME TaskInv, ConnectEnds
    PROVE  TaskInv'
<1>1. PICK c \in DOMAIN connects : connects[c].at = "model" /\ Settled(c, "done")
      BY DEF ConnectEnds
<1>2. UNCHANGED <<version, connection, runtimeId, shown, model, queued, default, picks, runtimes, listed, warmed, send>>
      BY DEF ConnectEnds, models
<1>3. StageEnds(c, "done")
      BY <1>1, SettledIs DEF TaskInv
<1>4. InOrder'
      BY <1>2, OrderStays DEF TaskInv
<1>5. model' \in Offered /\ queued' \in Offered /\ picks' \in Seq(Picked)
      BY <1>2 DEF TaskInv, TaskTyped
<1>q. QED BY <1>1, <1>2, <1>3, <1>4, <1>5, ConnectMovesOn

LEMMA ConnectSyncedKeeps ==
    ASSUME TaskInv, ConnectSynced
    PROVE  TaskInv'
<1>1. PICK c \in DOMAIN connects :
        /\ connects[c].at = "sync"
        /\ \/ ~Current(c) /\ Settled(c, "done") /\ UNCHANGED model
           \/ /\ Current(c) /\ Settled(c, "apply")
              /\ model' = IF queued # NoModel THEN queued ELSE runtimes[runtimeId].model
      BY DEF ConnectSynced
<1>2. UNCHANGED <<version, connection, runtimeId, shown, queued, default, picks, runtimes, listed, warmed, send>>
      BY DEF ConnectSynced
<1>3. InOrder'
      BY <1>2, OrderStays DEF TaskInv
<1>4. queued' \in Offered /\ picks' \in Seq(Picked)
      BY <1>2 DEF TaskInv, TaskTyped
<1>5. CASE ~Cur(c)
  <2>1. StageEnds(c, "done") /\ model' \in Offered
        BY <1>1, <1>5, SettledIs DEF TaskInv, TaskTyped, Current, Cur
  <2>q. QED BY <1>1, <1>2, <1>3, <1>4, <2>1, ConnectMovesOn
<1>6. CASE Cur(c)
  <2>1. Settled(c, "apply") /\ model' = IF queued # NoModel THEN queued ELSE runtimes[runtimeId].model
        BY <1>1, <1>6 DEF Current, Cur
  <2>2. StageEnds(c, "apply") /\ connects'[c].rt = connects[c].rt
        BY <2>1, SettledIs DEF TaskInv
  <2>3. /\ connection = "running" /\ connects[c].rt = runtimeId /\ runtimeId \in DOMAIN runtimes
        /\ runtimeId # 0 /\ runtimes[runtimeId].state = "live"
    <3>1. connection = "running" /\ connects[c].rt = runtimeId /\ runtimeId # 0 /\ runtimes[runtimeId].state = "live"
          BY <1>1, <1>6 DEF TaskInv, Latest
    <3>q. QED BY <3>1 DEF TaskInv, TaskTyped
  <2>4. model' \in Offered
    <3>1. runtimes[runtimeId] \in Made
          BY <2>3, Entries DEF TaskInv
    <3>q. QED BY <2>1, <3>1 DEF TaskInv, TaskTyped, Made
  <2>q. QED BY <1>1, <1>2, <1>3, <1>4, <1>6, <2>2, <2>3, <2>4, ConnectMovesOn
<1>q. QED BY <1>5, <1>6

\* A model is picked for the runtime on screen: the pick is the last one.
LEMMA PickOnIs ==
    ASSUME TaskTyped, InOrder, NEW m \in Offered, PickOn(runtimeId, m), runtimeId # 0,
           UNCHANGED <<runtimeId, runtimes>>
    PROVE  picks' \in Seq(Picked) /\ Len(picks') = Len(picks) + 1 /\ InOrder' /\ Changing' /\ model' = m
           /\ picks'[Len(picks')].model = m
<1> DEFINE new == [rt |-> runtimeId, model |-> m, at |-> "asks"]
<1>1. picks' = Append(picks, new) /\ model' = m
      BY DEF PickOn
<1>2. picks \in Seq(Picked) /\ Len(picks) \in Nat /\ DOMAIN picks = 1..Len(picks) /\ runtimeId \in DOMAIN runtimes
      BY Entries DEF TaskTyped
<1>3. new \in Picked /\ new.rt = runtimeId /\ new.model = m /\ new.at = "asks"
      BY DEF Picked, TaskTyped
<1> HIDE DEF new
<1>4. /\ picks' \in Seq(Picked) /\ Len(picks') = Len(picks) + 1 /\ picks'[Len(picks')] = new
      /\ \A i \in DOMAIN picks : picks'[i] = picks[i]
      BY <1>1, <1>2, <1>3
<1>5. DOMAIN picks' = 1..(Len(picks) + 1)
      BY <1>4
<1>6. Changing'
      BY <1>2, <1>3, <1>4 DEF Changing
<1>7. ASSUME NEW i \in DOMAIN picks', picks'[i].at # "over"
      PROVE  /\ picks'[i].rt \in DOMAIN runtimes'
             /\ picks'[i].at # "asks" => Behind(i)'
             /\ picks'[i].rt = runtimeId' =>
                  Changing' /\ (picks'[i].at = "set" => runtimes'[runtimeId'].model = picks'[i].model)
  <2>1. CASE i = Len(picks')
        BY <1>2, <1>3, <1>4, <1>6, <2>1
  <2>2. CASE i # Len(picks')
    <3>1. i \in DOMAIN picks /\ picks'[i] = picks[i]
          BY <1>2, <1>4, <1>5, <2>2
    <3>2. \A j \in DOMAIN picks' : j < i => j \in DOMAIN picks /\ picks'[j] = picks[j]
          BY <1>2, <1>4, <1>5, <3>1
    <3>q. QED BY <1>6, <1>7, <3>1, <3>2 DEF InOrder, Behind
  <2>q. QED BY <2>1, <2>2
<1>q. QED BY <1>1, <1>3, <1>4, <1>6, <1>7 DEF InOrder

LEMMA ConnectAppliesKeeps ==
    ASSUME TaskInv, ConnectApplies
    PROVE  TaskInv'
<1> DEFINE Saves(c) == connects[c].key # "new"
           Wanted(c) == IF queued # NoModel \/ Saves(c) THEN queued ELSE IF default = model THEN NoModel ELSE default
           Change(c) == PendingChange(connects[c].rt)
<1>1. PICK c \in DOMAIN connects :
        /\ connects[c].at = "apply"
        /\ \/ ~Current(c) /\ Settled(c, "done") /\ UNCHANGED <<model, queued, picks>>
           \/ /\ Current(c) /\ (Change(c) # {} \/ Wanted(c) = NoModel)
              /\ queued' = IF Saves(c) THEN NoModel ELSE queued
              /\ connects' = [connects EXCEPT ![c].at = "model", ![c].pick = IF Change(c) = {} THEN 0 ELSE Len(picks)]
              /\ UNCHANGED <<model, picks, pending>>
           \/ /\ Current(c) /\ Change(c) = {} /\ Wanted(c) # NoModel
              /\ PickOn(runtimeId, Wanted(c))
              /\ queued' = IF Saves(c) THEN NoModel ELSE IF Unstarted THEN Wanted(c) ELSE queued
              /\ connects' = [connects EXCEPT ![c].at = "model", ![c].pick = Len(picks')]
              /\ UNCHANGED pending
      BY DEF ConnectApplies
<1>2. UNCHANGED <<version, connection, runtimeId, shown, default, runtimes, listed, warmed, send>>
      BY DEF ConnectApplies
<1>3. TaskTyped /\ Latest /\ InOrder
      BY DEF TaskInv
<1>4. /\ model \in Offered /\ queued \in Offered /\ default \in Offered /\ NoModel \in Offered
      /\ picks \in Seq(Picked) /\ Len(picks) \in Nat
      BY <1>3, Entries DEF TaskTyped, Offered
<1>5. Wanted(c) \in Offered
      BY <1>4
<1>6. connects[c] \in Opening /\ connects[c].rt \in Nat /\ connects[c].at # "done"
      BY <1>1, <1>3, Entries
<1> HIDE DEF Saves, Wanted, Change
<1>7. CASE ~Cur(c)
  <2>1. Settled(c, "done") /\ UNCHANGED <<model, queued, picks>>
        BY <1>1, <1>7 DEF Current, Cur
  <2>2. StageEnds(c, "done") /\ InOrder'
        BY <1>2, <1>3, <2>1, SettledIs, OrderStays
  <2>q. QED BY <1>2, <1>4, <1>6, <2>1, <2>2, ConnectMovesOn
<1>8. ASSUME Cur(c), NEW pick \in Nat, connects' = [connects EXCEPT ![c].at = "model", ![c].pick = pick],
             pending' = pending, model' \in Offered, queued' \in Offered, picks' \in Seq(Picked), InOrder'
      PROVE  TaskInv'
  <2>2. StageEnds(c, "model") /\ connects'[c].rt = connects[c].rt
        BY <1>3, <1>8, ModelStageIs
  <2>3. connection = "running" /\ connects[c].rt = runtimeId /\ runtimeId # 0 /\ runtimes[runtimeId].state = "live"
        BY <1>1, <1>3, <1>8 DEF Latest
  <2>q. QED BY <1>2, <1>6, <1>8, <2>2, <2>3, ConnectMovesOn
<1>9. CASE /\ Cur(c) /\ queued' = IF Saves(c) THEN NoModel ELSE queued
           /\ connects' = [connects EXCEPT ![c].at = "model", ![c].pick = IF Change(c) = {} THEN 0 ELSE Len(picks)]
           /\ UNCHANGED <<model, picks, pending>>
  <2>1. InOrder'
        BY <1>2, <1>3, <1>9, OrderStays
  <2>2. (IF Change(c) = {} THEN 0 ELSE Len(picks)) \in Nat
        BY <1>4
  <2>q. QED BY <1>4, <1>8, <1>9, <2>1, <2>2
<1>10. CASE /\ Cur(c) /\ PickOn(runtimeId, Wanted(c))
            /\ queued' = IF Saves(c) THEN NoModel ELSE IF Unstarted THEN Wanted(c) ELSE queued
            /\ connects' = [connects EXCEPT ![c].at = "model", ![c].pick = Len(picks')]
            /\ UNCHANGED pending
  <2>1. runtimeId # 0
        BY <1>1, <1>3, <1>10 DEF Latest
  <2>2. picks' \in Seq(Picked) /\ Len(picks') = Len(picks) + 1 /\ InOrder' /\ model' = Wanted(c)
        BY <1>2, <1>3, <1>5, <1>10, <2>1, PickOnIs
  <2>3. Len(picks') \in Nat /\ model' \in Offered /\ queued' \in Offered
        BY <1>4, <1>5, <1>10, <2>2
  <2>q. QED BY <1>8, <1>10, <2>2, <2>3
<1>q. QED BY <1>1, <1>7, <1>9, <1>10 DEF Current, Cur

\* A pick of a runtime moves on, and is forgotten once it is over.
PickMoved(i, at) ==
    /\ picks' \in Seq(Picked) /\ DOMAIN picks' = DOMAIN picks /\ Len(picks') = Len(picks)
    /\ \A j \in DOMAIN picks : j # i => picks'[j] = picks[j]
    /\ picks'[i].at = at /\ (at # "over" => picks'[i].rt = picks[i].rt /\ picks'[i].model = picks[i].model)

LEMMA PickMovedIs ==
    ASSUME TaskTyped, NEW i \in DOMAIN picks
    PROVE  /\ \A at \in {"set", "refused"} : picks' = [picks EXCEPT ![i].at = at] => PickMoved(i, at)
           /\ picks' = [picks EXCEPT ![i] = [@ EXCEPT !.at = "refused"]] => PickMoved(i, "refused")
           /\ picks' = [picks EXCEPT ![i] = Over] => PickMoved(i, "over")
<1>1. picks \in Seq(Picked) /\ picks[i] \in Picked
      BY Entries DEF TaskTyped
<1>2. ASSUME NEW new \in Picked, picks' = [picks EXCEPT ![i] = new]
      PROVE  /\ picks' \in Seq(Picked) /\ DOMAIN picks' = DOMAIN picks /\ Len(picks') = Len(picks)
             /\ \A j \in DOMAIN picks : j # i => picks'[j] = picks[j]
             /\ picks'[i] = new
      BY <1>1, <1>2
<1>3. ASSUME NEW at \in {"set", "refused"}, picks' = [picks EXCEPT ![i] = [picks[i] EXCEPT !.at = at]]
      PROVE  PickMoved(i, at)
  <2>1. /\ [picks[i] EXCEPT !.at = at] \in Picked /\ [picks[i] EXCEPT !.at = at].at = at
        /\ [picks[i] EXCEPT !.at = at].rt = picks[i].rt /\ [picks[i] EXCEPT !.at = at].model = picks[i].model
        BY <1>1 DEF Picked
  <2>q. QED BY <1>2, <1>3, <2>1 DEF PickMoved
<1>4. ASSUME NEW at \in {"set", "refused"}, picks' = [picks EXCEPT ![i].at = at]
      PROVE  PickMoved(i, at)
      BY <1>1, <1>3, <1>4
<1>5. picks' = [picks EXCEPT ![i] = [@ EXCEPT !.at = "refused"]] => PickMoved(i, "refused")
      BY <1>1, <1>3
<1>6. ASSUME picks' = [picks EXCEPT ![i] = Over]
      PROVE  PickMoved(i, "over")
  <2>1. Over \in Picked /\ Over.at = "over"
        BY DEF Over, Picked, Offered
  <2>q. QED BY <1>2, <1>6, <2>1 DEF PickMoved
<1>q. QED BY <1>4, <1>5, <1>6

LEMMA PickMovedKeeps ==
    ASSUME TaskTyped, InOrder, NEW i \in DOMAIN picks, picks[i].at # "over", NEW at \in {"set", "refused", "over"},
           PickMoved(i, at),
           at = "over" => picks[i].at # "asks" \/ picks[i].rt # runtimeId,
           at # "over" => picks[i].at = "asks" /\ Behind(i),
           at = "set" => runtimeId = picks[i].rt /\ runtimes'[runtimeId].model = picks[i].model,
           DOMAIN runtimes' = DOMAIN runtimes, UNCHANGED runtimeId,
           at # "set" => \A r \in DOMAIN runtimes : runtimes'[r].model = runtimes[r].model
    PROVE  InOrder'
<1>1. ASSUME NEW j \in DOMAIN picks, picks[j].at # "over", picks[j].rt = runtimeId, j # i
      PROVE  Changing'
  <2>1. Changing /\ Len(picks) \in DOMAIN picks
        BY <1>1, Entries DEF InOrder, Changing
  <2>2. CASE i # Len(picks)
        BY <2>1, <2>2 DEF PickMoved, Changing
  <2>3. CASE i = Len(picks)
    <3>1. j < i /\ picks[i].rt = runtimeId
          BY <1>1, <2>1, <2>3, Entries DEF Changing
    <3>2. ~Behind(i)
          BY <1>1, <3>1 DEF Behind
    <3>3. picks[i].at = "asks"
          BY <3>2 DEF InOrder
    <3>q. QED BY <3>1, <3>2, <3>3
  <2>q. QED BY <2>2, <2>3
<1>2. at # "over" /\ picks[i].rt = runtimeId => Changing'
  <2>1. picks[i].rt = runtimeId => Changing /\ Len(picks) \in DOMAIN picks
        BY Entries DEF InOrder, Changing
  <2>q. QED BY <2>1 DEF PickMoved, Changing
<1>3. ASSUME NEW j \in DOMAIN picks', picks'[j].at # "over"
      PROVE  /\ picks'[j].rt \in DOMAIN runtimes'
             /\ picks'[j].at # "asks" => Behind(j)'
             /\ picks'[j].rt = runtimeId' =>
                  Changing' /\ (picks'[j].at = "set" => runtimes'[runtimeId'].model = picks'[j].model)
  <2>1. \A k \in DOMAIN picks : picks'[k].at = "over" \/ picks'[k].rt = picks[k].rt
        BY DEF PickMoved
  <2>2. \A k \in DOMAIN picks : picks[k].at = "over" => picks'[k].at = "over"
        BY DEF PickMoved
  <2>3. Behind(j) => Behind(j)'
        BY <2>1, <2>2, <1>3 DEF Behind, PickMoved
  <2>4. CASE j = i
        BY <1>2, <1>3, <2>3, <2>4 DEF PickMoved, InOrder
  <2>5. CASE j # i
    <3>1. j \in DOMAIN picks /\ picks'[j] = picks[j]
          BY <1>3, <2>5 DEF PickMoved
    <3>2. picks[j].rt \in DOMAIN runtimes' /\ (picks[j].at # "asks" => Behind(j)')
          BY <1>3, <2>3, <3>1 DEF InOrder
    <3>3. picks[j].rt = runtimeId => Changing'
          BY <1>1, <1>3, <2>5, <3>1
    <3>4. ASSUME picks[j].rt = runtimeId, picks[j].at = "set"
          PROVE  runtimes'[runtimeId].model = picks[j].model
      <4>1. Behind(j) /\ runtimes[runtimeId].model = picks[j].model /\ runtimeId \in DOMAIN runtimes
            BY <1>3, <3>1, <3>4 DEF InOrder
      <4>2. CASE at = "set"
        <5>1. j < i \/ i < j
              BY <2>5, <3>1, Entries
        <5>q. QED BY <3>1, <3>4, <4>1, <4>2, <5>1 DEF Behind
      <4>3. CASE at # "set"
            BY <4>1, <4>3
      <4>q. QED BY <4>2, <4>3
    <3>q. QED BY <3>1, <3>2, <3>3, <3>4
  <2>q. QED BY <2>4, <2>5
<1>q. QED BY <1>3 DEF InOrder

LEMMA PrewarmKeeps ==
    ASSUME TaskInv, Prewarm
    PROVE  TaskInv'
<1>1. PICK state \in {"live", "stopped"} :
        /\ runtimes' = Append(runtimes, [Runtime("new") EXCEPT !.state = state])
        /\ listed' = IF state = "live" THEN listed \cup {Len(runtimes')} ELSE listed
      BY DEF Prewarm
<1>2. UNCHANGED <<version, connection, runtimeId, shown, connects, pending, model, queued, default, picks, send>>
      BY DEF Prewarm, task, models
<1>3. TaskTyped /\ Latest /\ InOrder /\ RuntimesAreListed
      BY DEF TaskInv
<1> DEFINE new == [Runtime("new") EXCEPT !.state = state]
<1>4. new \in Made /\ new.state = state
  <2>1. "new" \in Keys /\ state \in {"live", "stopped", "left"}
        BY DEF Keys
  <2>2. Runtime("new") \in Made
        BY <2>1, RuntimeMade
  <2>q. QED BY <2>1, <2>2 DEF Made
<1>5. runtimes' = Append(runtimes, new)
      BY <1>1
<1> HIDE DEF new
<1>6. /\ runtimes' \in Seq(Made) /\ Len(runtimes') = Len(runtimes) + 1
      /\ DOMAIN runtimes' = DOMAIN runtimes \cup {Len(runtimes')}
      /\ runtimes'[Len(runtimes')] = new
      /\ \A t \in DOMAIN runtimes : runtimes'[t] = runtimes[t]
      BY <1>3, <1>4, <1>5, RuntimeIs
<1>7. Latest' /\ InOrder'
      BY <1>2, <1>3, <1>6, LatestStays, OrderStays
<1>8. RuntimesAreListed'
      BY <1>1, <1>3, <1>4, <1>6 DEF RuntimesAreListed
<1>9. TaskTyped'
  <2>1. Len(runtimes) \in Nat /\ Len(runtimes') \in Nat
        BY <1>3, <1>6, Entries
  <2>2. listed \subseteq Nat /\ runtimeId \in 0..Len(runtimes)
        BY <1>3 DEF TaskTyped
  <2>3. listed' \subseteq Nat
        BY <1>1, <2>1, <2>2
  <2>4. runtimeId' \in 0..Len(runtimes')
        BY <1>2, <1>6, <2>1, <2>2
  <2>q. QED BY <1>2, <1>3, <1>6, <2>3, <2>4 DEF TaskTyped
<1>q. QED BY <1>7, <1>8, <1>9 DEF TaskInv

\* The task on screen is given up: every connect is overtaken.
LEMMA LeftKeeps ==
    ASSUME TaskInv, version' = version + 1, pending' = 0, runtimeId' = 0, connection' = "disconnected",
           shown' \in Keys, queued' \in Offered, DOMAIN runtimes' = DOMAIN runtimes, runtimes' \in Seq(Made),
           \A r \in DOMAIN runtimes : runtimes'[r].model = runtimes[r].model,
           listed' \subseteq Nat, RuntimesAreListed', UNCHANGED <<connects, model, default, picks, send>>
    PROVE  TaskInv'
<1>1. TaskTyped /\ Latest /\ InOrder
      BY DEF TaskInv
<1>2. \A c \in DOMAIN connects : connects[c].version <= version' /\ ~Cur(c)'
  <2>1. \A c \in DOMAIN connects : connects[c].version \in Nat /\ connects[c].version <= version
        BY <1>1, Entries DEF Latest
  <2>2. version \in Nat
        BY <1>1 DEF TaskTyped
  <2>q. QED BY <2>1, <2>2 DEF Cur
<1>3. Latest'
      BY <1>1, <1>2 DEF Latest
<1>4. 0 \notin DOMAIN runtimes
      BY <1>1, Entries
<1>5. InOrder'
      BY <1>1, <1>4, OrderStays
<1>6. TaskTyped'
  <2>1. version' \in Nat /\ pending' \in 0..Len(connects') /\ runtimeId' \in 0..Len(runtimes')
    <3>1. Len(runtimes') \in Nat /\ Len(connects') \in Nat
          BY <1>1, Entries
    <3>q. QED BY <1>1, <3>1 DEF TaskTyped
  <2>q. QED BY <1>1, <2>1 DEF TaskTyped
<1>q. QED BY <1>3, <1>5, <1>6 DEF TaskInv

LEMMA PrepareNewTaskKeeps ==
    ASSUME TaskInv, PrepareNewTask
    PROVE  TaskInv'
<1>1. /\ version' = version + 1 /\ pending' = 0 /\ runtimeId' = 0 /\ connection' = "disconnected" /\ shown' = "new"
      /\ UNCHANGED <<connects, model, queued, default, picks, runtimes, listed, send>>
      BY DEF PrepareNewTask, models
<1>2. shown' \in Keys
      BY <1>1 DEF Keys
<1>3. queued' \in Offered /\ runtimes' \in Seq(Made) /\ listed' \subseteq Nat /\ RuntimesAreListed'
      BY <1>1 DEF TaskInv, TaskTyped, RuntimesAreListed
<1>q. QED BY <1>1, <1>2, <1>3, LeftKeeps

LEMMA StoppedIs ==
    ASSUME TaskTyped, runtimes' = IF runtimeId = 0 THEN runtimes ELSE [runtimes EXCEPT ![runtimeId].state = "stopped"]
    PROVE  /\ DOMAIN runtimes' = DOMAIN runtimes /\ runtimes' \in Seq(Made)
           /\ runtimeId # 0 => runtimes'[runtimeId].state = "stopped"
           /\ \A r \in DOMAIN runtimes : runtimes'[r].model = runtimes[r].model /\ runtimes'[r].key = runtimes[r].key
           /\ \A r \in DOMAIN runtimes : r # runtimeId => runtimes'[r] = runtimes[r]
<1>1. CASE runtimeId = 0
  <2>1. runtimes' = runtimes /\ runtimes \in Seq(Made)
        BY <1>1 DEF TaskTyped
  <2>q. QED BY <1>1, <2>1
<1>2. CASE runtimeId # 0
  <2> DEFINE new == [runtimes[runtimeId] EXCEPT !.state = "stopped"]
  <2>1. runtimes \in Seq(Made) /\ runtimeId \in DOMAIN runtimes /\ runtimes[runtimeId] \in Made
        BY <1>2, Entries DEF TaskTyped
  <2>2. /\ new \in Made /\ new.state = "stopped" /\ new.model = runtimes[runtimeId].model
        /\ new.key = runtimes[runtimeId].key
        BY <2>1 DEF Made
  <2>3. runtimes' = [runtimes EXCEPT ![runtimeId] = new]
        BY <1>2, <2>1
  <2> HIDE DEF new
  <2>4. /\ DOMAIN runtimes' = DOMAIN runtimes /\ runtimes' \in Seq(Made) /\ runtimes'[runtimeId] = new
        /\ \A r \in DOMAIN runtimes : r # runtimeId => runtimes'[r] = runtimes[r]
        BY <2>1, <2>2, <2>3
  <2>q. QED BY <2>2, <2>4
<1>q. QED BY <1>1, <1>2

LEMMA DisconnectKeeps ==
    ASSUME TaskInv, Disconnect
    PROVE  TaskInv'
<1>1. /\ version' = version + 1 /\ pending' = 0 /\ runtimeId' = 0 /\ connection' = "disconnected" /\ shown' = shown
      /\ queued' = NoModel /\ listed' = listed \ {runtimeId}
      /\ runtimes' = IF runtimeId = 0 THEN runtimes ELSE [runtimes EXCEPT ![runtimeId].state = "stopped"]
      /\ UNCHANGED <<connects, model, default, picks, send>>
      BY DEF Disconnect, Leaves
<1>2. TaskTyped /\ RuntimesAreListed
      BY DEF TaskInv
<1>3. /\ DOMAIN runtimes' = DOMAIN runtimes /\ runtimes' \in Seq(Made)
      /\ runtimeId # 0 => runtimes'[runtimeId].state = "stopped"
      /\ \A r \in DOMAIN runtimes : runtimes'[r].model = runtimes[r].model /\ runtimes'[r].key = runtimes[r].key
      /\ \A r \in DOMAIN runtimes : r # runtimeId => runtimes'[r] = runtimes[r]
      BY <1>1, <1>2, StoppedIs
<1>4. 0 \notin DOMAIN runtimes
      BY <1>2, Entries
<1>5. RuntimesAreListed'
      BY <1>1, <1>2, <1>3, <1>4 DEF RuntimesAreListed
<1>6. shown' \in Keys /\ queued' \in Offered /\ listed' \subseteq Nat
      BY <1>1, <1>2 DEF TaskTyped, Offered
<1>q. QED BY <1>1, <1>3, <1>5, <1>6, LeftKeeps

LEMMA StopsSlowlyKeeps ==
    ASSUME TaskInv, StopsSlowly
    PROVE  TaskInv'
<1>1. /\ version' = version + 1 /\ pending' = 0 /\ queued' = NoModel /\ runtimeId # 0
      /\ runtimes' = IF runtimeId = 0 THEN runtimes ELSE [runtimes EXCEPT ![runtimeId].state = "stopped"]
      /\ UNCHANGED <<runtimeId, connection, shown, connects, model, default, picks, listed, send>>
      BY DEF StopsSlowly, Leaves
<1>2. TaskTyped /\ Latest /\ InOrder /\ RuntimesAreListed
      BY DEF TaskInv
<1>3. /\ DOMAIN runtimes' = DOMAIN runtimes /\ runtimes' \in Seq(Made) /\ runtimes'[runtimeId].state = "stopped"
      /\ \A r \in DOMAIN runtimes : runtimes'[r].model = runtimes[r].model /\ runtimes'[r].key = runtimes[r].key
      /\ \A r \in DOMAIN runtimes : r # runtimeId => runtimes'[r] = runtimes[r]
      BY <1>1, <1>2, StoppedIs
<1>4. \A c \in DOMAIN connects : connects[c].version <= version' /\ ~Cur(c)'
  <2>1. \A c \in DOMAIN connects : connects[c].version \in Nat /\ connects[c].version <= version
        BY <1>2, Entries DEF Latest
  <2>2. version \in Nat
        BY <1>2 DEF TaskTyped
  <2>q. QED BY <1>1, <2>1, <2>2 DEF Cur
<1>5. runtimeId \in DOMAIN runtimes
      BY <1>1, <1>2 DEF TaskTyped
<1>6. Latest'
      BY <1>1, <1>2, <1>3, <1>4, <1>5 DEF Latest
<1>7. InOrder'
      BY <1>1, <1>2, <1>3, OrderStays
<1>8. RuntimesAreListed'
      BY <1>1, <1>2, <1>3 DEF RuntimesAreListed
<1>9. TaskTyped'
  <2>1. version' \in Nat /\ pending' \in 0..Len(connects') /\ runtimeId' \in 0..Len(runtimes') /\ queued' \in Offered
    <3>1. Len(runtimes') = Len(runtimes) /\ Len(connects) \in Nat
          BY <1>2, <1>3, Entries DEF TaskTyped
    <3>q. QED BY <1>1, <1>2, <3>1 DEF TaskTyped, Offered
  <2>q. QED BY <1>1, <1>2, <1>3, <2>1 DEF TaskTyped
<1>q. QED BY <1>6, <1>7, <1>8, <1>9 DEF TaskInv

\* What a runtime that is being stopped shows goes when it is gone; no connect shows it by then.
LEMMA StopEndsKeeps ==
    ASSUME TaskInv, StopEnds
    PROVE  TaskInv'
<1>1. PICK rt \in listed \cap DOMAIN runtimes :
        /\ runtimes[rt].state = "stopped" /\ listed' = listed \ {rt}
        /\ runtimeId' = IF runtimeId = rt THEN 0 ELSE runtimeId
        /\ connection' = IF runtimeId = rt THEN "disconnected" ELSE connection
      BY DEF StopEnds
<1>2. UNCHANGED <<version, shown, connects, pending, model, queued, default, picks, runtimes, send>>
      BY DEF StopEnds, models
<1>3. TaskTyped /\ Latest /\ InOrder /\ RuntimesAreListed
      BY DEF TaskInv
<1>4. Latest'
  <2>1. CASE runtimeId = rt
    <3>1. runtimes[runtimeId].state # "live"
          BY <1>1, <2>1
    <3>2. \A c \in DOMAIN connects : Cur(c) => connects[c].at \notin {"sync", "apply", "model"}
          BY <1>3, <3>1 DEF Latest
    <3>3. connection' # "running"
          BY <1>1, <2>1
    <3>q. QED BY <1>2, <1>3, <3>2, <3>3 DEF Latest, Cur
  <2>2. CASE runtimeId # rt
        BY <1>1, <1>2, <1>3, <2>2 DEF Latest, Cur
  <2>q. QED BY <2>1, <2>2
<1>5. 0 \notin DOMAIN runtimes
      BY <1>3, Entries
<1>6. InOrder'
      BY <1>1, <1>2, <1>3, <1>5, OrderStays
<1>7. RuntimesAreListed'
      BY <1>1, <1>2, <1>3 DEF RuntimesAreListed
<1>8. TaskTyped'
  <2>1. runtimeId' \in 0..Len(runtimes') /\ listed' \subseteq Nat
    <3>1. Len(runtimes) \in Nat
          BY <1>3, Entries
    <3>q. QED BY <1>1, <1>2, <1>3, <3>1 DEF TaskTyped
  <2>q. QED BY <1>1, <1>2, <1>3, <2>1 DEF TaskTyped
<1>q. QED BY <1>4, <1>6, <1>7, <1>8 DEF TaskInv

LEMMA PickModelKeeps ==
    ASSUME TaskInv, NEW m \in Models, PickModel(m)
    PROVE  TaskInv'
<1>1. /\ \/ runtimeId # 0 /\ PickOn(runtimeId, m)
         \/ UNCHANGED picks
      /\ model' = m /\ queued' \in {queued, m}
      BY DEF PickModel, PickOn
<1>2. UNCHANGED <<version, connection, runtimeId, shown, connects, pending, default, runtimes, listed, send>>
      BY DEF PickModel, task
<1>3. TaskTyped /\ Latest /\ InOrder /\ RuntimesAreListed /\ m \in Offered
      BY DEF TaskInv, Offered
<1>4. picks' \in Seq(Picked) /\ InOrder'
  <2>1. CASE runtimeId # 0 /\ PickOn(runtimeId, m)
        BY <1>2, <1>3, <2>1, PickOnIs
  <2>2. CASE UNCHANGED picks
        BY <1>2, <1>3, <2>2, OrderStays DEF TaskTyped
  <2>q. QED BY <1>1, <2>1, <2>2
<1>5. Latest'
      BY <1>2, <1>3, LatestStays
<1>6. TaskTyped'
      BY <1>1, <1>2, <1>3, <1>4 DEF TaskTyped
<1>q. QED BY <1>2, <1>3, <1>4, <1>5, <1>6 DEF TaskInv, RuntimesAreListed

\* What a pick that moves on leaves as it is.
LEMMA PickMovesOn ==
    ASSUME TaskInv, NEW i \in DOMAIN picks, NEW at, PickMoved(i, at), InOrder', runtimes' \in Seq(Made),
           DOMAIN runtimes' = DOMAIN runtimes,
           \A r \in DOMAIN runtimes : runtimes'[r].key = runtimes[r].key /\ runtimes'[r].state = runtimes[r].state,
           model' \in Offered, queued' \in Offered, default' \in Offered, send' \in Message,
           UNCHANGED <<version, connection, runtimeId, shown, connects, pending, listed>>
    PROVE  TaskInv'
<1>1. Latest'
      BY LatestStays DEF TaskInv
<1>2. Len(runtimes') = Len(runtimes)
      BY DEF TaskInv, TaskTyped
<1>3. TaskTyped'
      BY <1>2 DEF TaskInv, TaskTyped, PickMoved
<1>q. QED BY <1>1, <1>3 DEF TaskInv, RuntimesAreListed

\* The runtime takes the model that was picked for it.
LEMMA ModelSet ==
    ASSUME TaskTyped, NEW rt \in DOMAIN runtimes, NEW m \in Offered, runtimes' = [runtimes EXCEPT ![rt].model = m]
    PROVE  /\ runtimes' \in Seq(Made) /\ DOMAIN runtimes' = DOMAIN runtimes /\ runtimes'[rt].model = m
           /\ \A r \in DOMAIN runtimes : runtimes'[r].key = runtimes[r].key /\ runtimes'[r].state = runtimes[r].state
                                      /\ runtimes'[r].turns = runtimes[r].turns
<1>1. runtimes \in Seq(Made) /\ runtimes[rt] \in Made
      BY DEF TaskTyped
<1> DEFINE new == [runtimes[rt] EXCEPT !.model = m]
<1>2. new \in Made /\ new.model = m /\ new.key = runtimes[rt].key /\ new.state = runtimes[rt].state
      /\ new.turns = runtimes[rt].turns
      BY <1>1 DEF Made
<1>3. runtimes' = [runtimes EXCEPT ![rt] = new]
      BY <1>1
<1> HIDE DEF new
<1>4. /\ runtimes' \in Seq(Made) /\ DOMAIN runtimes' = DOMAIN runtimes /\ runtimes'[rt] = new
      /\ \A r \in DOMAIN runtimes : r # rt => runtimes'[r] = runtimes[r]
      BY <1>1, <1>2, <1>3
<1>q. QED BY <1>2, <1>4

\* A message that waits for a pick that fails stays with the user.
LEMMA GivesUpIs ==
    ASSUME TaskTyped, NEW i
    PROVE  GivesUp(i) \in Message /\ (GivesUp(i) = send \/ GivesUp(i).at = "none")
<1>1. send \in Message
      BY DEF TaskTyped
<1>2. [send EXCEPT !.at = "none"] \in Message /\ [send EXCEPT !.at = "none"].at = "none"
      BY <1>1 DEF Message
<1>q. QED BY <1>1, <1>2 DEF GivesUp

LEMMA PickReachesKeeps ==
    ASSUME TaskInv, PickReaches
    PROVE  TaskInv'
<1>1. PICK i \in Running :
        /\ picks[i].at = "asks" /\ Earlier(i) = {}
        /\ \/ /\ runtimeId = picks[i].rt
              /\ runtimes' = [runtimes EXCEPT ![picks[i].rt].model = picks[i].model]
              /\ picks' = [picks EXCEPT ![i].at = "set"] /\ UNCHANGED send
           \/ /\ picks' = [picks EXCEPT ![i] = IF runtimeId = @.rt THEN [@ EXCEPT !.at = "refused"] ELSE Over]
              /\ send' = GivesUp(i) /\ UNCHANGED runtimes
      BY DEF PickReaches
<1>2. UNCHANGED <<version, connection, runtimeId, shown, connects, pending, model, queued, default, listed>>
      BY DEF PickReaches, task
<1>3. TaskTyped /\ InOrder /\ model' \in Offered /\ queued' \in Offered /\ default' \in Offered
      BY <1>2 DEF TaskInv, TaskTyped
<1>8. send' \in Message
      BY <1>1, <1>3, GivesUpIs DEF TaskTyped
<1>4. i \in DOMAIN picks /\ picks[i] \in Picked /\ picks[i].at # "over" /\ picks[i].at = "asks"
      BY <1>1, <1>3, Entries DEF Running
<1>5. Behind(i)
      BY <1>1 DEF Behind, Earlier, Running
<1>6. CASE /\ runtimeId = picks[i].rt
           /\ runtimes' = [runtimes EXCEPT ![picks[i].rt].model = picks[i].model]
           /\ picks' = [picks EXCEPT ![i].at = "set"]
  <2>1. picks[i].rt \in DOMAIN runtimes /\ picks[i].model \in Offered
        BY <1>3, <1>4 DEF InOrder, Picked
  <2>2. /\ runtimes' \in Seq(Made) /\ DOMAIN runtimes' = DOMAIN runtimes
        /\ runtimes'[picks[i].rt].model = picks[i].model
        /\ \A r \in DOMAIN runtimes : runtimes'[r].key = runtimes[r].key /\ runtimes'[r].state = runtimes[r].state
        BY <1>3, <1>6, <2>1, ModelSet
  <2>3. PickMoved(i, "set")
        BY <1>3, <1>4, <1>6, PickMovedIs
  <2>4. InOrder'
        BY <1>2, <1>3, <1>4, <1>5, <1>6, <2>2, <2>3, PickMovedKeeps
  <2>q. QED BY <1>2, <1>3, <1>4, <1>8, <2>2, <2>3, <2>4, PickMovesOn
<1>7. CASE /\ picks' = [picks EXCEPT ![i] = IF runtimeId = @.rt THEN [@ EXCEPT !.at = "refused"] ELSE Over]
           /\ UNCHANGED runtimes
  <2>1. runtimes' \in Seq(Made)
        BY <1>3, <1>7 DEF TaskTyped
  <2>2. CASE runtimeId = picks[i].rt
    <3>1. picks' = [picks EXCEPT ![i] = [@ EXCEPT !.at = "refused"]]
          BY <1>3, <1>4, <1>7, <2>2 DEF TaskTyped
    <3>2. PickMoved(i, "refused")
          BY <1>3, <1>4, <3>1, PickMovedIs
    <3>3. InOrder'
          BY <1>2, <1>3, <1>4, <1>5, <1>7, <3>2, PickMovedKeeps
    <3>q. QED BY <1>2, <1>3, <1>4, <1>7, <1>8, <2>1, <3>2, <3>3, PickMovesOn
  <2>3. CASE runtimeId # picks[i].rt
    <3>1. picks' = [picks EXCEPT ![i] = Over]
          BY <1>3, <1>4, <1>7, <2>3 DEF TaskTyped
    <3>2. PickMoved(i, "over")
          BY <1>3, <1>4, <3>1, PickMovedIs
    <3>3. InOrder'
          BY <1>2, <1>3, <1>4, <1>5, <1>7, <2>3, <3>2, PickMovedKeeps
    <3>q. QED BY <1>2, <1>3, <1>4, <1>7, <1>8, <2>1, <3>2, <3>3, PickMovesOn
  <2>q. QED BY <2>2, <2>3
<1>q. QED BY <1>1, <1>6, <1>7

\* A pick that the Host has answered is over.
LEMMA PickEnds ==
    ASSUME TaskInv, NEW i \in DOMAIN picks, picks[i].at \in {"set", "refused"},
           picks' = [picks EXCEPT ![i] = Over],
           model' \in Offered, queued' \in Offered, default' \in Offered, send' \in Message,
           UNCHANGED <<version, connection, runtimeId, shown, connects, pending, runtimes, listed>>
    PROVE  TaskInv' /\ PickMoved(i, "over")
<1>1. PickMoved(i, "over")
      BY PickMovedIs DEF TaskInv
<1>2. InOrder'
      BY <1>1, PickMovedKeeps DEF TaskInv
<1>3. runtimes' \in Seq(Made)
      BY DEF TaskInv, TaskTyped
<1>q. QED BY <1>1, <1>2, <1>3, PickMovesOn

LEMMA PickAnsweredKeeps ==
    ASSUME TaskInv, PickConfirmed \/ PickRefused
    PROVE  TaskInv'
<1>1. PICK i \in Running :
        /\ picks[i].at \in {"set", "refused"} /\ picks' = [picks EXCEPT ![i] = Over]
        /\ model' \in {model, picks[i].model, RolledBack(i)} /\ default' \in {default, picks[i].model}
        /\ queued' \in {queued, NoModel} /\ send' \in {send, GivesUp(i)}
  <2>1. CASE PickConfirmed
    <3>1. PICK i \in Running :
            /\ picks[i].at = "set" /\ picks' = [picks EXCEPT ![i] = Over]
            /\ \/ model' = picks[i].model /\ default' = picks[i].model /\ UNCHANGED send
               \/ send' = GivesUp(i) /\ UNCHANGED <<model, default>>
          BY <2>1 DEF PickConfirmed
    <3>2. UNCHANGED queued
          BY <2>1 DEF PickConfirmed
    <3>q. QED BY <3>1, <3>2
  <2>2. CASE PickRefused
    <3>1. PICK i \in Running :
            /\ picks[i].at = "refused" /\ picks' = [picks EXCEPT ![i] = Over]
            /\ model' = RolledBack(i) \/ UNCHANGED model
            /\ queued' \in {queued, NoModel}
          BY <2>2 DEF PickRefused
    <3>2. UNCHANGED <<default, send>>
          BY <2>2 DEF PickRefused
    <3>q. QED BY <3>1, <3>2
  <2>q. QED BY <2>1, <2>2
<1>2. UNCHANGED <<version, connection, runtimeId, shown, connects, pending, runtimes, listed>>
      BY DEF PickConfirmed, PickRefused, task
<1>3. i \in DOMAIN picks /\ picks[i] \in Picked /\ picks[i].rt \in DOMAIN runtimes
      BY <1>1, Entries DEF Running, TaskInv, InOrder
<1>4. RolledBack(i) \in Offered
  <2>1. runtimes[picks[i].rt] \in Made /\ model \in Offered
        BY <1>3, Entries DEF TaskInv, TaskTyped
  <2>q. QED BY <2>1 DEF RolledBack, Made
<1>5. model' \in Offered /\ queued' \in Offered /\ default' \in Offered /\ send' \in Message
  <2>1. GivesUp(i) \in Message
        BY GivesUpIs DEF TaskInv
  <2>q. QED BY <1>1, <1>3, <1>4, <2>1 DEF TaskInv, TaskTyped, Picked, Offered
<1>q. QED BY <1>1, <1>2, <1>3, <1>5, PickEnds

\* What is only about the message leaves the rest as it is.
LEMMA MessageKeeps ==
    ASSUME TaskInv, send' \in Message, queued' \in Offered, runtimes' \in Seq(Made),
           DOMAIN runtimes' = DOMAIN runtimes,
           \A r \in DOMAIN runtimes : /\ runtimes'[r].key = runtimes[r].key /\ runtimes'[r].state = runtimes[r].state
                                      /\ runtimes'[r].model = runtimes[r].model,
           UNCHANGED <<version, connection, runtimeId, shown, connects, pending, model, default, picks, listed>>
    PROVE  TaskInv'
<1>1. Latest' /\ InOrder'
      BY LatestStays, OrderStays DEF TaskInv
<1>2. Len(runtimes') = Len(runtimes)
      BY DEF TaskInv, TaskTyped
<1>3. TaskTyped'
      BY <1>2 DEF TaskInv, TaskTyped
<1>q. QED BY <1>1, <1>3 DEF TaskInv, RuntimesAreListed

\* The stages of a message: each is for the same task, and keeps what it does not say.
LEMMA StagesAre ==
    ASSUME TaskTyped, NEW s \in Message
    PROVE  /\ Going(s) \in Message /\ AwaitsPick(s) \in Message /\ Checked(s) \in Message
           /\ Going(s).key = s.key /\ Going(s).waits = s.waits
           /\ IF runtimeId = 0 THEN Going(s).at = "none" ELSE Going(s).at = "goes" /\ Going(s).rt = runtimeId
           /\ AwaitsPick(s).key = s.key /\ AwaitsPick(s).waits = Len(picks)
           /\ PendingChange(runtimeId) # {} => AwaitsPick(s).at = "picks"
           /\ PendingChange(runtimeId) = {} =>
                 IF runtimeId = 0 THEN AwaitsPick(s).at = "none"
                 ELSE AwaitsPick(s).at = "goes" /\ AwaitsPick(s).rt = runtimeId
           /\ Checked(s).key = s.key
           /\ pending # 0 /\ queued # NoModel => Checked(s).at = "connects" /\ Checked(s).waits = pending
           /\ ~(pending # 0 /\ queued # NoModel) => Checked(s) = AwaitsPick(s)
<1>1. runtimeId \in Nat /\ Len(picks) \in Nat /\ pending \in Nat
      BY Entries DEF TaskTyped
<1>2. ASSUME NEW r \in Message
      PROVE  /\ Going(r) \in Message /\ Going(r).key = r.key /\ Going(r).waits = r.waits
             /\ IF runtimeId = 0 THEN Going(r).at = "none" ELSE Going(r).at = "goes" /\ Going(r).rt = runtimeId
      BY <1>1 DEF Going, Message
<1> DEFINE asked == [s EXCEPT !.waits = Len(picks)]
<1>3. asked \in Message /\ asked.key = s.key /\ asked.waits = Len(picks)
      BY <1>1 DEF Message
<1>4. AwaitsPick(s) = IF PendingChange(runtimeId) = {} THEN Going(asked) ELSE [asked EXCEPT !.at = "picks"]
      BY DEF AwaitsPick
<1> HIDE DEF asked
<1>5. LET picking == [asked EXCEPT !.at = "picks"] IN
      picking \in Message /\ picking.key = s.key /\ picking.waits = Len(picks) /\ picking.at = "picks"
      BY <1>3 DEF Message
<1>6. /\ AwaitsPick(s) \in Message /\ AwaitsPick(s).key = s.key /\ AwaitsPick(s).waits = Len(picks)
      /\ PendingChange(runtimeId) # {} => AwaitsPick(s).at = "picks"
      /\ PendingChange(runtimeId) = {} =>
            IF runtimeId = 0 THEN AwaitsPick(s).at = "none"
            ELSE AwaitsPick(s).at = "goes" /\ AwaitsPick(s).rt = runtimeId
      BY <1>2, <1>3, <1>4, <1>5
<1>7. LET waiting == [s EXCEPT !.at = "connects", !.waits = pending] IN
      waiting \in Message /\ waiting.key = s.key /\ waiting.at = "connects" /\ waiting.waits = pending
      BY <1>1 DEF Message
<1>8. Checked(s) = IF pending # 0 /\ queued # NoModel THEN [s EXCEPT !.at = "connects", !.waits = pending]
                   ELSE AwaitsPick(s)
      BY DEF Checked
<1>9. /\ Checked(s) \in Message /\ Checked(s).key = s.key
      /\ pending # 0 /\ queued # NoModel => Checked(s).at = "connects" /\ Checked(s).waits = pending
      /\ ~(pending # 0 /\ queued # NoModel) => Checked(s) = AwaitsPick(s)
      BY <1>6, <1>7, <1>8
<1>q. QED BY <1>2, <1>6, <1>9

LEMMA NewMessageIs ==
    ASSUME TaskTyped, pending' \in Nat
    PROVE  LET new == [None EXCEPT !.key = shown, !.count = send.count + 1]
               opens == [new EXCEPT !.at = "opens", !.waits = pending'] IN
           /\ new \in Message /\ new.key = shown
           /\ opens \in Message /\ opens.key = shown /\ opens.at = "opens" /\ opens.waits = pending'
<1>1. send \in Message /\ shown \in Keys /\ "new" \in Keys
      BY DEF TaskTyped, Keys
<1>2. None \in Message /\ send.count + 1 \in Nat
      BY <1>1 DEF None, Message
<1> DEFINE new == [None EXCEPT !.key = shown, !.count = send.count + 1]
<1>3. new \in Message /\ new.key = shown
      BY <1>1, <1>2 DEF Message
<1> HIDE DEF new
<1>4. LET opens == [new EXCEPT !.at = "opens", !.waits = pending'] IN
      opens \in Message /\ opens.key = shown /\ opens.at = "opens" /\ opens.waits = pending'
      BY <1>3 DEF Message
<1>q. QED BY <1>3, <1>4 DEF new

LEMMA SendKeeps ==
    ASSUME TaskInv, Send
    PROVE  TaskInv'
<1> DEFINE new == [None EXCEPT !.key = shown, !.count = send.count + 1]
<1>1. /\ UNCHANGED <<model, default, picks, runtimes, listed>>
      /\ \/ send' = Checked(new) /\ UNCHANGED <<version, connection, runtimeId, shown, connects, pending, queued>>
         \/ /\ send' = [new EXCEPT !.at = "opens", !.waits = pending']
            /\ \/ UNCHANGED <<version, connection, runtimeId, shown, connects, pending, queued>>
               \/ Begin("new") /\ UNCHANGED runtimeId
      BY DEF Send, task
<1>2. TaskTyped /\ queued \in Offered /\ runtimes \in Seq(Made) /\ "new" \in Keys
      BY DEF TaskInv, TaskTyped, Keys
<1>3. pending' \in Nat => new \in Message /\ [new EXCEPT !.at = "opens", !.waits = pending'] \in Message
      BY <1>2, NewMessageIs
<1> HIDE DEF new
<1>4. CASE UNCHANGED <<version, connection, runtimeId, shown, connects, pending, queued>>
  <2>1. pending' \in Nat
        BY <1>2, <1>4, Entries DEF TaskTyped
  <2>2. send' \in Message
        BY <1>1, <1>2, <1>3, <2>1, StagesAre
  <2>q. QED BY <1>1, <1>2, <1>4, <2>2, MessageKeeps
<1>5. CASE send' = [new EXCEPT !.at = "opens", !.waits = pending'] /\ Begin("new") /\ UNCHANGED runtimeId
  <2>1. pending' = Len(connects') /\ connects' \in Seq(Opening)
        BY <1>2, <1>5, BeginIs
  <2>2. send' \in Message
        BY <1>3, <1>5, <2>1
  <2>q. QED BY <1>1, <1>2, <1>5, <2>2, BeginKeeps
<1>q. QED BY <1>1, <1>4, <1>5

LEMMA SendReachesIs ==
    ASSUME TaskTyped, SendReaches
    PROVE  /\ runtimes' \in Seq(Made) /\ DOMAIN runtimes' = DOMAIN runtimes
           /\ \A r \in DOMAIN runtimes : /\ runtimes'[r].key = runtimes[r].key /\ runtimes'[r].state = runtimes[r].state
                                         /\ runtimes'[r].model = runtimes[r].model
<1> DEFINE rt == send.rt
           new == [runtimes[rt] EXCEPT !.turns = 1]
<1>1. runtimes' = [runtimes EXCEPT ![rt].turns = 1] /\ runtimes \in Seq(Made)
      BY DEF SendReaches, TaskTyped
<1>2. CASE rt \notin DOMAIN runtimes
  <2>1. runtimes' = runtimes
        BY <1>1, <1>2
  <2>q. QED BY <1>1, <2>1
<1>3. CASE rt \in DOMAIN runtimes
  <2>1. runtimes[rt] \in Made
        BY <1>1, <1>3
  <2>2. /\ new \in Made /\ new.key = runtimes[rt].key /\ new.state = runtimes[rt].state
        /\ new.model = runtimes[rt].model
        BY <2>1 DEF Made
  <2>3. runtimes' = [runtimes EXCEPT ![rt] = new]
        BY <1>1, <1>3
  <2> HIDE DEF new, rt
  <2>4. /\ runtimes' \in Seq(Made) /\ DOMAIN runtimes' = DOMAIN runtimes /\ runtimes'[rt] = new
        /\ \A r \in DOMAIN runtimes : r # rt => runtimes'[r] = runtimes[r]
        BY <1>1, <1>3, <2>2, <2>3
  <2>q. QED BY <2>2, <2>4
<1>q. QED BY <1>2, <1>3

LEMMA SendMovesKeeps ==
    ASSUME TaskInv, SendOpened \/ SendConnected \/ SendPicked \/ SendReaches \/ SendFails
    PROVE  TaskInv'
<1>1. TaskTyped /\ queued \in Offered /\ runtimes \in Seq(Made) /\ send \in Message
      BY DEF TaskInv, TaskTyped
<1>2. UNCHANGED <<version, connection, runtimeId, shown, connects, pending, model, default, picks, listed>>
      BY DEF SendOpened, SendConnected, SendPicked, SendReaches, SendFails, task, models
<1>3. send' \in Message
  <2>1. \A at \in {"none", "sent"} : [send EXCEPT !.at = at] \in Message
        BY <1>1 DEF Message
  <2>2. Going(send) \in Message /\ AwaitsPick(send) \in Message /\ Checked(send) \in Message
        BY <1>1, StagesAre
  <2>q. QED BY <2>1, <2>2 DEF SendOpened, SendConnected, SendPicked, SendReaches, SendFails
<1>4. CASE SendOpened \/ SendConnected \/ SendPicked \/ SendFails
  <2>1. UNCHANGED <<runtimes, queued>>
        BY <1>4 DEF SendOpened, SendConnected, SendPicked, SendFails, models
  <2>q. QED BY <1>1, <1>2, <1>3, <2>1, MessageKeeps
<1>5. CASE SendReaches
  <2>1. queued' \in Offered
        BY <1>1, <1>5 DEF SendReaches, Offered
  <2>2. /\ runtimes' \in Seq(Made) /\ DOMAIN runtimes' = DOMAIN runtimes
        /\ \A r \in DOMAIN runtimes : /\ runtimes'[r].key = runtimes[r].key /\ runtimes'[r].state = runtimes[r].state
                                      /\ runtimes'[r].model = runtimes[r].model
        BY <1>1, <1>5, SendReachesIs
  <2>q. QED BY <1>2, <1>3, <2>1, <2>2, MessageKeeps
<1>q. QED BY <1>4, <1>5

LEMMA TaskKept ==
    ASSUME TaskInv, [TasksNext]_taskVars
    PROVE  TaskInv'
<1>1. ASSUME NEW key \in Keys, Connect(key)
      PROVE  TaskInv'
  <2>1. Begin(key) /\ UNCHANGED <<runtimeId, model, default, picks, runtimes, listed, send>>
        BY <1>1 DEF Connect
  <2>2. send' \in Message
        BY <2>1 DEF TaskInv, TaskTyped
  <2>q. QED BY <2>1, <2>2, BeginKeeps
<1>2. CASE ConnectStarted
      BY <1>2, ConnectStartedKeeps
<1>3. CASE ConnectFails
      BY <1>3, ConnectFailsKeeps
<1>4. CASE ConnectSynced
      BY <1>4, ConnectSyncedKeeps
<1>5. CASE ConnectApplies
      BY <1>5, ConnectAppliesKeeps
<1>6. CASE ConnectEnds
      BY <1>6, ConnectEndsKeeps
<1>7. CASE Prewarm
      BY <1>7, PrewarmKeeps
<1>8. CASE PrepareNewTask
      BY <1>8, PrepareNewTaskKeeps
<1>9. CASE Disconnect
      BY <1>9, DisconnectKeeps
<1>10. CASE StopsSlowly
      BY <1>10, StopsSlowlyKeeps
<1>11. CASE StopEnds
      BY <1>11, StopEndsKeeps
<1>12. ASSUME NEW m \in Models, PickModel(m)
       PROVE  TaskInv'
      BY <1>12, PickModelKeeps
<1>13. CASE PickReaches
      BY <1>13, PickReachesKeeps
<1>14. CASE PickConfirmed \/ PickRefused
      BY <1>14, PickAnsweredKeeps
<1>15. CASE Send
      BY <1>15, SendKeeps
<1>16. CASE SendOpened \/ SendConnected \/ SendPicked \/ SendReaches \/ SendFails
      BY <1>16, SendMovesKeeps
<1>17. CASE UNCHANGED taskVars
  <2>1. /\ UNCHANGED <<version, connection, runtimeId, shown, connects, pending, model, queued, default, picks>>
        /\ UNCHANGED <<runtimes, listed, send>>
        BY <1>17 DEF taskVars
  <2>q. QED BY <2>1, MessageKeeps DEF TaskInv, TaskTyped
<1>q. QED BY <1>1, <1>2, <1>3, <1>4, <1>5, <1>6, <1>7, <1>8, <1>9, <1>10, <1>11, <1>12, <1>13, <1>14, <1>15, <1>16,
             <1>17
          DEF TasksNext

\* However connects overtake each other, the task that counts as running is the one on screen, and every
\* runtime that works is one that the store lists, but for what a start that failed has left: with every
\* race of the model.
THEOREM ShownTaskWorks == TasksSpec => [](ScreenIsTask /\ RuntimesAreListed)
<1>1. TasksInit => TaskInv
      BY TaskStarts
<1>2. TaskInv /\ [TasksNext]_taskVars => TaskInv'
      BY TaskKept
<1>3. TaskInv => ScreenIsTask /\ RuntimesAreListed
      BY DEF TaskInv, Latest, ScreenIsTask
<1>q. QED BY <1>1, <1>2, <1>3, PTL DEF TasksSpec

-----------------------------------------------------------------------------
(* The model on screen and the message that is sent *)

\* What lets the message be sent to the task that is on screen with its model, and the model be read.
Settling == {"switch", "early", "unread", "slow stop"} \cap TaskRaces = {}

LEMMA ChangingIs ==
    ASSUME TaskTyped
    PROVE  Changing <=> PendingChange(runtimeId) # {}
<1>1. Len(picks) \in Nat /\ DOMAIN picks = 1..Len(picks)
      BY Entries
<1>q. QED BY <1>1 DEF Changing, PendingChange, Running

\* The stage that a connect for the task on screen is at is the stage there is, and that connect is pending.
LEMMA StageIs ==
    ASSUME Latest, NEW c \in DOMAIN connects, Cur(c)
    PROVE  \A stage : At(stage) <=> connects[c].at = stage
<1>1. \A d \in DOMAIN connects : Cur(d) => d = c
      BY DEF Latest, Cur
<1>q. QED BY <1>1 DEF At

LEMMA StagePends ==
    ASSUME TaskTyped, Latest
    PROVE  At("sync") \/ At("apply") => pending # 0
<1>1. ASSUME NEW c \in DOMAIN connects, Cur(c), connects[c].at \in {"sync", "apply"}
      PROVE  pending # 0
  <2>1. pending = c
        BY <1>1 DEF Latest
  <2>2. c # 0
        BY Entries
  <2>q. QED BY <2>1, <2>2
<1>q. QED BY <1>1 DEF At

LEMMA StageAfter ==
    ASSUME Latest, NEW c \in DOMAIN connects, NEW at, StageEnds(c, at), UNCHANGED version
    PROVE  \A stage : At(stage)' <=> IF Cur(c) THEN stage = at ELSE At(stage)
<1>1. \A d \in DOMAIN connects : Cur(d)' <=> Cur(d)
      BY DEF StageEnds, Cur
<1>2. Cur(c) => \A d \in DOMAIN connects : Cur(d) => d = c
      BY DEF Latest, Cur
<1>q. QED BY <1>1, <1>2 DEF At, StageEnds

\* A message that is not on its way is nowhere.
LEMMA NothingSent ==
    ASSUME send'.at \in {"none", "sent"}
    PROVE  SentHere'
      BY DEF SentHere

\* A pick that is made later changes nothing for a message that waits, or is on its way.
LEMMA SentHereStays ==
    ASSUME TaskTyped, SentHere, UNCHANGED <<version, connection, runtimeId, shown, send>>,
           pending' \in {pending, 0}, DOMAIN connects \subseteq DOMAIN connects',
           \A c \in DOMAIN connects : connects'[c].version = connects[c].version,
           \/ Len(picks') = Len(picks) /\ (Changing' => Changing)
           \/ Len(picks') = Len(picks) + 1
    PROVE  SentHere'
<1>1. Len(picks) \in Nat /\ send.waits \in Nat
      BY Entries DEF TaskTyped, Message
<1>2. Len(picks) <= Len(picks') /\ (send.waits <= Len(picks) => send.waits <= Len(picks'))
      BY <1>1
<1>3. send.waits < Len(picks) => send.waits < Len(picks')
      BY <1>1
<1>4. Len(picks') = Len(picks) + 1 /\ send.waits <= Len(picks) => send.waits < Len(picks')
      BY <1>1
<1>5. ASSUME send.at = "goes" PROVE Changing' => send.waits < Len(picks')
      BY <1>3, <1>4, <1>5 DEF SentHere
<1>q. QED BY <1>2, <1>5 DEF SentHere, Cur

\* Nothing is shown as running.
LEMMA NothingRuns ==
    ASSUME connection' # "running"
    PROVE  ModelShown'
      BY DEF ModelShown

\* The runtime has the model on screen, or a pick is about to set it.
LEMMA ShownWhen ==
    ASSUME Agrees' \/ Changing'
    PROVE  ModelShown'
      BY DEF ModelShown

\* What is about other runtimes, other connects and other picks changes nothing for the model on screen.
LEMMA ShownStays ==
    ASSUME TaskTyped, Latest, ModelShown, UNCHANGED <<connection, runtimeId, model>>,
           At("sync")' <=> At("sync"), At("apply")' <=> At("apply"), At("apply") => UNCHANGED queued,
           Changing' <=> Changing, \A r \in DOMAIN runtimes : runtimes'[r].model = runtimes[r].model
    PROVE  ModelShown'
<1>1. connection = "running" => runtimeId \in DOMAIN runtimes
      BY DEF Latest, TaskTyped
<1>2. connection = "running" => (Agrees' <=> Agrees)
      BY <1>1 DEF Agrees
<1>q. QED BY <1>2 DEF ModelShown

LEMMA PicksStay ==
    ASSUME UNCHANGED <<picks, runtimeId>>
    PROVE  (Changing' <=> Changing) /\ Len(picks') = Len(picks)
      BY DEF Changing

\* A connect that is overtaken, or that has nothing left to show.
LEMMA ConnectShows ==
    ASSUME TaskTyped, Latest, MessageInv, NEW c \in DOMAIN connects, NEW at, StageEnds(c, at),
           ~Cur(c) \/ {connects[c].at, at} \cap {"sync", "apply"} = {},
           UNCHANGED <<version, connection, runtimeId, shown, model, queued, send, picks>>,
           \A r \in DOMAIN runtimes : runtimes'[r].model = runtimes[r].model
    PROVE  MessageInv'
<1>1. \A stage : At(stage)' <=> IF Cur(c) THEN stage = at ELSE At(stage)
      BY StageAfter
<1>2. Cur(c) => \A stage : At(stage) <=> connects[c].at = stage
      BY StageIs
<1>3. (At("sync")' <=> At("sync")) /\ (At("apply")' <=> At("apply"))
      BY <1>1, <1>2
<1>4. (Changing' <=> Changing) /\ Len(picks') = Len(picks)
      BY PicksStay
<1>5. ModelShown'
      BY <1>3, <1>4, ShownStays DEF MessageInv
<1>6. SentHere'
      BY <1>4, SentHereStays DEF MessageInv, StageEnds
<1>q. QED BY <1>5, <1>6 DEF MessageInv

LEMMA ConnectStartedShows ==
    ASSUME TaskInv, MessageInv, ConnectStarted
    PROVE  MessageInv'
<1>1. PICK c \in DOMAIN connects : Started(c)
      BY DEF ConnectStarted
<1>2. UNCHANGED <<model, queued, default, picks, warmed, send>>
      BY DEF ConnectStarted, models
<1>3. connects[c].at = "start" /\ UNCHANGED <<version, shown>>
      BY <1>1 DEF Started
<1>4. TaskTyped /\ Latest
      BY DEF TaskInv
<1>5. connects[c].key \in Keys /\ connects[c] \in Opening
      BY <1>4, Entries DEF Opening
<1>6. CASE ~Cur(c)
  <2>1. /\ Settled(c, "done") /\ runtimes' = Append(runtimes, StoppedRuntime(connects[c].key))
        /\ UNCHANGED <<runtimeId, connection>>
        BY <1>1, <1>6 DEF Started, Current, Cur
  <2>2. StageEnds(c, "done")
        BY <1>4, <2>1, SettledIs
  <2>3. StoppedRuntime(connects[c].key) \in Made
        BY <1>5, RuntimeMade
  <2>4. \A t \in DOMAIN runtimes : runtimes'[t] = runtimes[t]
        BY <1>4, <2>1, <2>3, RuntimeIs
  <2>q. QED BY <1>2, <1>3, <1>4, <1>6, <2>1, <2>2, <2>4, ConnectShows
<1>7. CASE Cur(c)
  <2>1. /\ runtimes' = Append(runtimes, Runtime(connects[c].key))
        /\ runtimeId' = Len(runtimes') /\ connection' = "running"
        /\ connects' = [connects EXCEPT ![c].at = "sync", ![c].rt = Len(runtimes')]
        BY <1>1, <1>7 DEF Started, Current, Cur
  <2>2. /\ DOMAIN connects' = DOMAIN connects /\ connects'[c].at = "sync"
        /\ \A d \in DOMAIN connects : connects'[d].version = connects[d].version
    <3>1. connects \in Seq(Opening)
          BY <1>4 DEF TaskTyped
    <3>q. QED BY <1>5, <2>1, <3>1 DEF Opening
  <2>3. At("sync")'
        BY <1>3, <1>7, <2>2 DEF At, Cur
  <2>4. connection # "running"
        BY <1>3, <1>4, <1>7 DEF Latest
  <2>5. send'.at \notin {"connects", "picks", "goes"} /\ send' = send
        BY <1>2, <2>4 DEF MessageInv, SentHere
  <2>6. ModelShown'
        BY <2>3 DEF ModelShown
  <2>7. SentHere'
        BY <1>3, <2>2, <2>5 DEF MessageInv, SentHere, Cur
  <2>q. QED BY <2>6, <2>7 DEF MessageInv
<1>q. QED BY <1>6, <1>7

\* A start that fails is one for a task that does not run yet.
LEMMA ConnectFailsShows ==
    ASSUME Settling, TaskInv, MessageInv, ConnectFails
    PROVE  MessageInv'
<1>1. PICK c \in DOMAIN connects :
        /\ connects[c].at = "start" /\ Settled(c, "done") /\ runtimes' = Append(runtimes, LeftRuntime(connects[c].key))
        /\ connection' = IF Current(c) THEN "exited" ELSE connection
      BY DEF ConnectFails, Settling
<1>2. UNCHANGED <<version, runtimeId, shown, model, queued, default, picks, listed, warmed, send>>
      BY DEF ConnectFails, models
<1>3. TaskTyped /\ Latest
      BY DEF TaskInv
<1>4. StageEnds(c, "done")
      BY <1>1, <1>3, SettledIs
<1>5. \A t \in DOMAIN runtimes : runtimes'[t] = runtimes[t]
  <2>1. connects[c].key \in Keys
        BY <1>3, Entries DEF Opening
  <2>2. LeftRuntime(connects[c].key) \in Made
        BY <2>1, RuntimeMade
  <2>q. QED BY <1>1, <1>3, <2>2, RuntimeIs
<1>6. CASE ~Cur(c)
  <2>1. UNCHANGED connection
        BY <1>1, <1>6 DEF Cur, Current
  <2>q. QED BY <1>2, <1>3, <1>4, <1>5, <1>6, <2>1, ConnectShows
<1>7. CASE Cur(c)
  <2>1. connection' # "running" /\ connection # "running"
        BY <1>1, <1>3, <1>7 DEF Latest, Cur, Current
  <2>2. send.at \notin {"connects", "picks", "goes"}
        BY <2>1 DEF MessageInv, SentHere
  <2>3. ModelShown'
        BY <2>1, NothingRuns
  <2>4. \A d \in DOMAIN connects : connects'[d].version = connects[d].version
        BY <1>4 DEF StageEnds
  <2>5. SentHere'
        BY <1>2, <1>4, <2>2, <2>4 DEF MessageInv, SentHere, Cur, StageEnds
  <2>q. QED BY <2>3, <2>5 DEF MessageInv
<1>q. QED BY <1>6, <1>7

LEMMA ConnectEndsShows ==
    ASSUME TaskInv, MessageInv, ConnectEnds
    PROVE  MessageInv'
<1>1. PICK c \in DOMAIN connects : connects[c].at = "model" /\ Settled(c, "done")
      BY DEF ConnectEnds
<1>2. UNCHANGED <<version, connection, runtimeId, shown, model, queued, default, picks, runtimes, listed, warmed, send>>
      BY DEF ConnectEnds, models
<1>3. TaskTyped /\ Latest
      BY DEF TaskInv
<1>4. StageEnds(c, "done")
      BY <1>1, <1>3, SettledIs
<1>5. {connects[c].at, "done"} \cap {"sync", "apply"} = {}
      BY <1>1
<1>q. QED BY <1>2, <1>3, <1>4, <1>5, ConnectShows

LEMMA ConnectSyncedShows ==
    ASSUME TaskInv, MessageInv, ConnectSynced
    PROVE  MessageInv'
<1>1. PICK c \in DOMAIN connects :
        /\ connects[c].at = "sync"
        /\ \/ ~Current(c) /\ Settled(c, "done") /\ UNCHANGED model
           \/ /\ Current(c) /\ Settled(c, "apply")
              /\ model' = IF queued # NoModel THEN queued ELSE runtimes[runtimeId].model
      BY DEF ConnectSynced
<1>2. UNCHANGED <<version, connection, runtimeId, shown, queued, default, picks, runtimes, listed, warmed, send>>
      BY DEF ConnectSynced
<1>3. TaskTyped /\ Latest
      BY DEF TaskInv
<1>4. CASE ~Cur(c)
  <2>1. Settled(c, "done") /\ UNCHANGED model
        BY <1>1, <1>4 DEF Cur, Current
  <2>2. StageEnds(c, "done")
        BY <1>3, <2>1, SettledIs
  <2>q. QED BY <1>2, <1>3, <1>4, <2>1, <2>2, ConnectShows
<1>5. CASE Cur(c)
  <2>1. Settled(c, "apply") /\ model' = IF queued # NoModel THEN queued ELSE runtimes[runtimeId].model
        BY <1>1, <1>5 DEF Cur, Current
  <2>2. StageEnds(c, "apply")
        BY <1>3, <2>1, SettledIs
  <2>3. At("apply")'
        BY <1>2, <1>3, <1>5, <2>2, StageAfter
  <2>4. (Changing' <=> Changing) /\ Len(picks') = Len(picks)
        BY <1>2, PicksStay
  <2>5. SentHere'
        BY <1>2, <1>3, <2>2, <2>4, SentHereStays DEF MessageInv, StageEnds
  <2>6. queued = NoModel => Agrees'
        BY <1>2, <2>1 DEF Agrees
  <2>7. ModelShown'
        BY <1>2, <2>1, <2>3, <2>6 DEF ModelShown
  <2>q. QED BY <2>5, <2>7 DEF MessageInv
<1>q. QED BY <1>4, <1>5

LEMMA ConnectAppliesShows ==
    ASSUME TaskInv, MessageInv, ConnectApplies
    PROVE  MessageInv'
<1> DEFINE Saves(c) == connects[c].key # "new"
           Wanted(c) == IF queued # NoModel \/ Saves(c) THEN queued ELSE IF default = model THEN NoModel ELSE default
           Change(c) == PendingChange(connects[c].rt)
<1>1. PICK c \in DOMAIN connects :
        /\ connects[c].at = "apply"
        /\ \/ ~Current(c) /\ Settled(c, "done") /\ UNCHANGED <<model, queued, picks>>
           \/ /\ Current(c) /\ (Change(c) # {} \/ Wanted(c) = NoModel)
              /\ queued' = IF Saves(c) THEN NoModel ELSE queued
              /\ connects' = [connects EXCEPT ![c].at = "model", ![c].pick = IF Change(c) = {} THEN 0 ELSE Len(picks)]
              /\ UNCHANGED <<model, picks, pending>>
           \/ /\ Current(c) /\ Change(c) = {} /\ Wanted(c) # NoModel
              /\ PickOn(runtimeId, Wanted(c))
              /\ queued' = IF Saves(c) THEN NoModel ELSE IF Unstarted THEN Wanted(c) ELSE queued
              /\ connects' = [connects EXCEPT ![c].at = "model", ![c].pick = Len(picks')]
              /\ UNCHANGED pending
      BY DEF ConnectApplies
<1>2. UNCHANGED <<version, connection, runtimeId, shown, default, runtimes, listed, warmed, send>>
      BY DEF ConnectApplies
<1>3. TaskTyped /\ Latest /\ InOrder
      BY DEF TaskInv
<1>4. Wanted(c) \in Offered /\ (queued # NoModel => Wanted(c) # NoModel)
      BY <1>3 DEF TaskTyped, Offered
<1> HIDE DEF Saves, Wanted
<1>5. CASE ~Cur(c)
  <2>1. Settled(c, "done") /\ UNCHANGED <<model, queued, picks>>
        BY <1>1, <1>5 DEF Current, Cur
  <2>2. StageEnds(c, "done")
        BY <1>3, <2>1, SettledIs
  <2>q. QED BY <1>2, <1>3, <1>5, <2>1, <2>2, ConnectShows
<1>6. CASE Cur(c)
  <2>1. connection = "running" /\ connects[c].rt = runtimeId /\ runtimeId # 0
        BY <1>1, <1>3, <1>6 DEF Latest
  <2>2. Change(c) # {} <=> Changing
        BY <1>3, <2>1, ChangingIs
  <2> HIDE DEF Change
  <2>3. PICK pick : connects' = [connects EXCEPT ![c].at = "model", ![c].pick = pick] /\ pending' = pending
        BY <1>1, <1>6 DEF Current, Cur
  <2>4. /\ DOMAIN connects' = DOMAIN connects
        /\ \A d \in DOMAIN connects : connects'[d].version = connects[d].version
    <3>1. connects \in Seq(Opening) /\ connects[c] \in Opening
          BY <1>3 DEF TaskTyped
    <3>q. QED BY <2>3, <3>1 DEF Opening
  <2>5. CASE (Change(c) # {} \/ Wanted(c) = NoModel) /\ UNCHANGED <<model, picks>>
    <3>1. (Changing' <=> Changing) /\ Len(picks') = Len(picks)
          BY <1>2, <2>5, PicksStay
    <3>2. ~At("sync") /\ At("apply")
          BY <1>1, <1>3, <1>6, StageIs
    <3>3. Changing \/ Agrees
          BY <1>4, <2>1, <2>2, <2>5, <3>2 DEF MessageInv, ModelShown
    <3>4. Agrees' <=> Agrees
          BY <1>2, <2>5 DEF Agrees
    <3>5. SentHere'
          BY <1>2, <1>3, <2>3, <2>4, <3>1, SentHereStays DEF MessageInv
    <3>q. QED BY <3>1, <3>3, <3>4, <3>5, ShownWhen DEF MessageInv
  <2>6. CASE PickOn(runtimeId, Wanted(c))
    <3>1. Changing' /\ Len(picks') = Len(picks) + 1
          BY <1>2, <1>3, <1>4, <2>1, <2>6, PickOnIs
    <3>2. SentHere'
          BY <1>2, <1>3, <2>3, <2>4, <3>1, SentHereStays DEF MessageInv
    <3>q. QED BY <3>1, <3>2, ShownWhen DEF MessageInv
  <2>q. QED BY <1>1, <1>6, <2>5, <2>6 DEF Current, Cur
<1>q. QED BY <1>5, <1>6

LEMMA PrewarmShows ==
    ASSUME TaskInv, MessageInv, Prewarm
    PROVE  MessageInv'
<1>1. PICK state \in {"live", "stopped"} : runtimes' = Append(runtimes, [Runtime("new") EXCEPT !.state = state])
      BY DEF Prewarm
<1>2. UNCHANGED <<version, connection, runtimeId, shown, connects, pending, model, queued, default, picks, send>>
      BY DEF Prewarm, task, models
<1>3. TaskTyped /\ Latest
      BY DEF TaskInv
<1>4. [Runtime("new") EXCEPT !.state = state] \in Made
  <2>1. "new" \in Keys /\ state \in {"live", "stopped", "left"}
        BY DEF Keys
  <2>q. QED BY <2>1, RuntimeMade
<1>5. \A t \in DOMAIN runtimes : runtimes'[t] = runtimes[t]
      BY <1>1, <1>3, <1>4, RuntimeIs
<1>6. (At("sync")' <=> At("sync")) /\ (At("apply")' <=> At("apply"))
      BY <1>2 DEF At, Cur
<1>7. (Changing' <=> Changing) /\ Len(picks') = Len(picks)
      BY <1>2, PicksStay
<1>8. ModelShown'
      BY <1>2, <1>3, <1>5, <1>6, <1>7, ShownStays DEF MessageInv
<1>9. SentHere'
      BY <1>2, <1>3, <1>7, SentHereStays DEF MessageInv
<1>q. QED BY <1>8, <1>9 DEF MessageInv

\* Another task comes on screen only while nothing is being sent.
LEMMA LeavingShows ==
    ASSUME Settling, TaskInv, MessageInv,
           (\E key \in Keys : Connect(key)) \/ PrepareNewTask \/ Disconnect
    PROVE  MessageInv'
<1>1. send' = send /\ send.at \in {"none", "sent"}
      BY DEF Settling, Connect, PrepareNewTask, Disconnect, Leaves, MayLeave
<1>2. connection' # "running"
      BY DEF Connect, Begin, PrepareNewTask, Disconnect
<1>3. ModelShown' /\ SentHere'
      BY <1>1, <1>2, NothingRuns, NothingSent
<1>q. QED BY <1>3 DEF MessageInv

LEMMA PickModelShows ==
    ASSUME TaskInv, MessageInv, NEW m \in Models, PickModel(m)
    PROVE  MessageInv'
<1>1. UNCHANGED <<version, connection, runtimeId, shown, connects, pending, default, runtimes, listed, send>>
      BY DEF PickModel, task
<1>2. TaskTyped /\ Latest /\ InOrder /\ m \in Offered
      BY DEF TaskInv, Offered
<1>3. CASE runtimeId = 0 \/ connection = "starting"
  <2>1. connection # "running" /\ UNCHANGED picks
        BY <1>2, <1>3 DEF Latest, PickModel
  <2>2. (Changing' <=> Changing) /\ Len(picks') = Len(picks)
        BY <1>1, <2>1, PicksStay
  <2>3. SentHere' /\ ModelShown'
        BY <1>1, <1>2, <2>1, <2>2, SentHereStays, NothingRuns DEF MessageInv
  <2>q. QED BY <2>3 DEF MessageInv
<1>4. CASE ~(runtimeId = 0 \/ connection = "starting")
  <2>1. PickOn(runtimeId, m)
        BY <1>4 DEF PickModel
  <2>2. Changing' /\ Len(picks') = Len(picks) + 1
        BY <1>1, <1>2, <1>4, <2>1, PickOnIs
  <2>3. SentHere' /\ ModelShown'
        BY <1>1, <1>2, <2>2, SentHereStays, ShownWhen DEF MessageInv
  <2>q. QED BY <2>3 DEF MessageInv
<1>q. QED BY <1>3, <1>4

\* Unless it was the last for the runtime on screen, a pick that moves on leaves the last one as it is.
LEMMA LastStays ==
    ASSUME TaskTyped, NEW i \in DOMAIN picks, picks[i].at # "over", NEW at, PickMoved(i, at), UNCHANGED runtimeId
    PROVE  /\ Len(picks') = Len(picks) /\ (Changing' => Changing)
           /\ at # "over" \/ picks[i].rt # runtimeId => (Changing' <=> Changing)
<1>1. Len(picks) \in Nat /\ DOMAIN picks = 1..Len(picks) /\ Len(picks') = Len(picks)
      BY Entries DEF PickMoved
<1>2. CASE i = Len(picks)
      BY <1>1, <1>2 DEF PickMoved, Changing
<1>3. CASE i # Len(picks)
  <2>1. Len(picks) # 0 => picks'[Len(picks)] = picks[Len(picks)]
        BY <1>1, <1>3 DEF PickMoved
  <2>q. QED BY <1>1, <2>1 DEF Changing
<1>q. QED BY <1>1, <1>2, <1>3

\* A message goes on as it did, or is given up.
LEMMA SentOrNot ==
    ASSUME TaskTyped, Latest, MessageInv, NEW i \in DOMAIN picks, picks[i].at # "over", NEW at, PickMoved(i, at),
           UNCHANGED <<version, connection, runtimeId, shown, connects, pending>>, send' \in {send, GivesUp(i)}
    PROVE  SentHere'
<1>1. CASE send' = send
  <2>1. Len(picks') = Len(picks) /\ (Changing' => Changing)
        BY LastStays
  <2>q. QED BY <1>1, <2>1, SentHereStays DEF MessageInv
<1>2. CASE send' # send
  <2>1. send'.at = "none"
        BY <1>2, GivesUpIs
  <2>q. QED BY <2>1, NothingSent
<1>q. QED BY <1>1, <1>2

\* Until its last pick is over, the model on screen may be another.
LEMMA PickShows ==
    ASSUME TaskTyped, Latest, MessageInv, NEW i \in DOMAIN picks, picks[i].at # "over", NEW at, PickMoved(i, at),
           at # "over" \/ picks[i].rt # runtimeId,
           UNCHANGED <<version, connection, runtimeId, shown, connects, pending, model, queued>>,
           send' \in {send, GivesUp(i)},
           Changing \/ \A r \in DOMAIN runtimes : runtimes'[r].model = runtimes[r].model
    PROVE  MessageInv'
<1>1. Changing' <=> Changing
      BY LastStays
<1>2. (At("sync")' <=> At("sync")) /\ (At("apply")' <=> At("apply"))
      BY DEF At, Cur
<1>3. SentHere'
      BY SentOrNot
<1>4. CASE Changing
      BY <1>1, <1>3, <1>4, ShownWhen DEF MessageInv
<1>5. CASE ~Changing
  <2>1. ModelShown'
        BY <1>1, <1>2, <1>5, ShownStays DEF MessageInv
  <2>q. QED BY <1>3, <2>1 DEF MessageInv
<1>q. QED BY <1>4, <1>5

LEMMA PickReachesShows ==
    ASSUME TaskInv, MessageInv, PickReaches
    PROVE  MessageInv'
<1>1. PICK i \in Running :
        /\ picks[i].at = "asks"
        /\ \/ /\ runtimeId = picks[i].rt
              /\ runtimes' = [runtimes EXCEPT ![picks[i].rt].model = picks[i].model]
              /\ picks' = [picks EXCEPT ![i].at = "set"] /\ UNCHANGED send
           \/ /\ picks' = [picks EXCEPT ![i] = IF runtimeId = @.rt THEN [@ EXCEPT !.at = "refused"] ELSE Over]
              /\ send' = GivesUp(i) /\ UNCHANGED runtimes
      BY DEF PickReaches
<1>2. UNCHANGED <<version, connection, runtimeId, shown, connects, pending, model, queued, default, listed>>
      BY DEF PickReaches, task
<1>3. TaskTyped /\ Latest /\ InOrder
      BY DEF TaskInv
<1>4. i \in DOMAIN picks /\ picks[i] \in Picked /\ picks[i].at # "over"
      BY <1>1, <1>3, Entries DEF Running
<1>5. send' \in {send, GivesUp(i)}
      BY <1>1
<1>6. CASE /\ runtimeId = picks[i].rt
           /\ runtimes' = [runtimes EXCEPT ![picks[i].rt].model = picks[i].model]
           /\ picks' = [picks EXCEPT ![i].at = "set"]
  <2>1. PickMoved(i, "set")
        BY <1>3, <1>4, <1>6, PickMovedIs
  <2>2. Changing
        BY <1>3, <1>4, <1>6 DEF InOrder
  <2>q. QED BY <1>2, <1>3, <1>4, <1>5, <2>1, <2>2, PickShows
<1>7. CASE /\ picks' = [picks EXCEPT ![i] = IF runtimeId = @.rt THEN [@ EXCEPT !.at = "refused"] ELSE Over]
           /\ UNCHANGED runtimes
  <2>1. PICK at \in {"refused", "over"} : PickMoved(i, at) /\ (at = "over" => picks[i].rt # runtimeId)
    <3>1. CASE runtimeId = picks[i].rt
      <4>1. picks' = [picks EXCEPT ![i] = [@ EXCEPT !.at = "refused"]]
            BY <1>3, <1>4, <1>7, <3>1 DEF TaskTyped
      <4>q. QED BY <1>3, <1>4, <4>1, PickMovedIs
    <3>2. CASE runtimeId # picks[i].rt
      <4>1. picks' = [picks EXCEPT ![i] = Over]
            BY <1>3, <1>4, <1>7, <3>2 DEF TaskTyped
      <4>q. QED BY <1>3, <1>4, <3>2, <4>1, PickMovedIs
    <3>q. QED BY <3>1, <3>2
  <2>2. UNCHANGED runtimes
        BY <1>7
  <2>q. QED BY <1>2, <1>3, <1>4, <1>5, <2>1, <2>2, PickShows
<1>q. QED BY <1>1, <1>6, <1>7

\* The runtime's model is shown once its last pick is over.
LEMMA PickAnsweredShows ==
    ASSUME Settling, TaskInv, MessageInv, PickConfirmed \/ PickRefused
    PROVE  MessageInv'
<1>1. PICK i \in Running :
        /\ picks[i].at \in {"set", "refused"} /\ picks' = [picks EXCEPT ![i] = Over]
        /\ IF runtimeId = picks[i].rt
           THEN model' = (IF picks[i].at = "set" THEN picks[i].model ELSE runtimes[runtimeId].model)
           ELSE UNCHANGED <<model, queued>>
        /\ send' \in {send, GivesUp(i)}
  <2>1. CASE PickConfirmed
        BY <2>1 DEF PickConfirmed
  <2>2. CASE PickRefused
    <3>1. \A rt : ~Unreadable(rt)
          BY DEF Unreadable, Settling
    <3>2. PICK i \in Running :
            /\ picks[i].at = "refused" /\ picks' = [picks EXCEPT ![i] = Over] /\ model' = RolledBack(i)
            /\ queued' = IF runtimeId = picks[i].rt /\ queued = picks[i].model THEN NoModel ELSE queued
          BY <2>2, <3>1 DEF PickRefused
    <3>3. UNCHANGED send
          BY <2>2 DEF PickRefused
    <3>q. QED BY <3>2, <3>3 DEF RolledBack
  <2>q. QED BY <2>1, <2>2
<1>2. UNCHANGED <<version, connection, runtimeId, shown, connects, pending, runtimes, listed>>
      BY DEF PickConfirmed, PickRefused, task
<1>3. TaskTyped /\ Latest /\ InOrder
      BY DEF TaskInv
<1>4. i \in DOMAIN picks /\ picks[i].at # "over"
      BY DEF Running
<1>5. PickMoved(i, "over")
      BY <1>1, <1>3, <1>4, PickMovedIs
<1>6. CASE runtimeId # picks[i].rt
      BY <1>1, <1>2, <1>3, <1>4, <1>5, <1>6, PickShows
<1>7. CASE runtimeId = picks[i].rt
  <2>1. picks[i].at = "set" => runtimes[runtimeId].model = picks[i].model
        BY <1>3, <1>4, <1>7 DEF InOrder
  <2>2. Agrees'
        BY <1>1, <1>2, <1>7, <2>1 DEF Agrees
  <2>3. SentHere'
        BY <1>1, <1>2, <1>3, <1>4, <1>5, SentOrNot
  <2>q. QED BY <2>2, <2>3, ShownWhen DEF MessageInv
<1>q. QED BY <1>6, <1>7

\* A message that waits for no connect and for no pick goes to the runtime on screen.
LEMMA AwaitsPickShows ==
    ASSUME TaskTyped, Latest, connection = "running", pending = 0, NEW s \in Message, s.key = shown,
           send' = AwaitsPick(s), UNCHANGED <<version, connection, runtimeId, shown, connects, pending, picks>>
    PROVE  SentHere'
<1>1. runtimeId # 0 /\ Len(picks) \in Nat
      BY Entries DEF Latest
<1>2. /\ send'.key = shown /\ send'.waits = Len(picks)
      /\ IF PendingChange(runtimeId) # {} THEN send'.at = "picks" ELSE send'.at = "goes" /\ send'.rt = runtimeId
      BY <1>1, StagesAre
<1>3. Changing' <=> PendingChange(runtimeId) # {}
      BY PicksStay, ChangingIs
<1>q. QED BY <1>1, <1>2, <1>3 DEF SentHere

\* A message waits for the connect that is about to apply what was picked.
LEMMA CheckedShows ==
    ASSUME TaskTyped, Latest, connection = "running", pending = 0 \/ queued # NoModel, NEW s \in Message, s.key = shown,
           send' = Checked(s), UNCHANGED <<version, connection, runtimeId, shown, connects, pending, picks>>
    PROVE  SentHere'
<1>1. CASE pending = 0
  <2>1. send' = AwaitsPick(s)
        BY <1>1, StagesAre
  <2>q. QED BY <1>1, <2>1, AwaitsPickShows
<1>2. CASE pending # 0
  <2>1. pending \in DOMAIN connects /\ Cur(pending)
        BY <1>2, Entries DEF Latest, TaskTyped
  <2>2. send'.at = "connects" /\ send'.waits = pending /\ send'.key = shown
        BY <1>2, StagesAre
  <2>q. QED BY <2>1, <2>2 DEF SentHere, Cur
<1>q. QED BY <1>1, <1>2

\* What is only about the message leaves the model on screen as it is.
LEMMA MessageShows ==
    ASSUME TaskTyped, Latest, MessageInv,
           UNCHANGED <<version, connection, runtimeId, connects, model, picks>>, At("apply") => UNCHANGED queued,
           \A r \in DOMAIN runtimes : runtimes'[r].model = runtimes[r].model
    PROVE  ModelShown'
<1>1. (At("sync")' <=> At("sync")) /\ (At("apply")' <=> At("apply"))
      BY DEF At, Cur
<1>q. QED BY <1>1, PicksStay, ShownStays DEF MessageInv

\* A message is sent from a task that runs, once its model is settled, or waits for the connect of a new task.
LEMMA SendShows ==
    ASSUME Settling, TaskInv, MessageInv, Send
    PROVE  MessageInv'
<1> DEFINE new == [None EXCEPT !.key = shown, !.count = send.count + 1]
<1>1. UNCHANGED <<model, default, picks, runtimes, listed>>
      BY DEF Send
<1>2. TaskTyped /\ Latest /\ "new" \in Keys
      BY DEF TaskInv, Keys
<1>3. \/ /\ connection = "running" /\ send' = Checked(new) /\ (pending = 0 \/ queued # NoModel)
         /\ UNCHANGED <<version, connection, runtimeId, shown, connects, pending, queued>>
      \/ /\ connection # "running" /\ shown = "new" /\ send' = [new EXCEPT !.at = "opens", !.waits = pending']
         /\ \/ pending # 0 /\ UNCHANGED <<version, connection, runtimeId, shown, connects, pending, queued>>
            \/ Begin("new")
      BY DEF Settling, Send, task
<1>4. pending' \in Nat
  <2>1. Len(connects) \in Nat /\ pending \in Nat
        BY <1>2, Entries DEF TaskTyped
  <2>2. Begin("new") => pending' \in Nat
    <3>1. Begin("new") => connects' \in Seq(Opening) /\ pending' = Len(connects')
          BY <1>2, BeginIs
    <3>q. QED BY <3>1
  <2>q. QED BY <1>3, <2>1, <2>2
<1>5. /\ new \in Message /\ new.key = shown
      /\ LET opens == [new EXCEPT !.at = "opens", !.waits = pending'] IN
         opens.at = "opens" /\ opens.key = shown /\ opens.waits = pending'
      BY <1>2, <1>4, NewMessageIs
<1> HIDE DEF new
<1>6. CASE /\ connection = "running" /\ send' = Checked(new) /\ (pending = 0 \/ queued # NoModel)
           /\ UNCHANGED <<version, connection, runtimeId, shown, connects, pending, queued>>
  <2>1. SentHere'
        BY <1>1, <1>2, <1>5, <1>6, CheckedShows
  <2>2. ModelShown'
        BY <1>1, <1>2, <1>6, MessageShows
  <2>q. QED BY <2>1, <2>2 DEF MessageInv
<1>7. CASE /\ connection # "running" /\ send' = [new EXCEPT !.at = "opens", !.waits = pending'] /\ pending # 0
           /\ UNCHANGED <<version, connection, runtimeId, shown, connects, pending, queued>>
  <2>1. pending \in DOMAIN connects /\ Cur(pending)
        BY <1>2, <1>7, Entries DEF Latest, TaskTyped
  <2>2. send'.at = "opens" /\ send'.key = shown /\ send'.waits = pending
        BY <1>5, <1>7
  <2>3. SentHere'
        BY <1>7, <2>1, <2>2 DEF SentHere, Cur
  <2>4. ModelShown'
        BY <1>7, NothingRuns
  <2>q. QED BY <2>3, <2>4 DEF MessageInv
<1>8. CASE /\ shown = "new" /\ send' = [new EXCEPT !.at = "opens", !.waits = pending'] /\ Begin("new")
  <2>1. /\ connection' = "starting" /\ shown' = "new" /\ pending' \in DOMAIN connects'
        /\ connects'[pending'].version = version'
        BY <1>2, <1>8, BeginIs
  <2>2. send'.at = "opens" /\ send'.key = shown /\ send'.waits = pending'
        BY <1>5, <1>8
  <2>3. SentHere'
        BY <1>8, <2>1, <2>2 DEF SentHere, Cur
  <2>4. ModelShown'
        BY <2>1, NothingRuns
  <2>q. QED BY <2>3, <2>4 DEF MessageInv
<1>q. QED BY <1>3, <1>6, <1>7, <1>8

\* When the connect that a message waits for is over, no other one is pending.
LEMMA SendConnectsShows ==
    ASSUME TaskInv, MessageInv, SendOpened \/ SendConnected
    PROVE  MessageInv'
<1>1. UNCHANGED <<version, connection, runtimeId, shown, connects, pending, model, queued, picks, runtimes>>
      BY DEF SendOpened, SendConnected, task, models
<1>2. TaskTyped /\ Latest /\ send \in Message
      BY DEF TaskInv, TaskTyped
<1>3. /\ send.at \in {"opens", "connects"} /\ connects[send.waits].at = "done"
      /\ send.key = shown /\ send.waits \in DOMAIN connects /\ Cur(send.waits)
      BY DEF SendOpened, SendConnected, MessageInv, SentHere
<1>4. pending = 0
  <2>1. \A d \in DOMAIN connects : Cur(d) => d = send.waits
        BY <1>2, <1>3 DEF Latest, Cur
  <2>2. pending # 0 => pending \in DOMAIN connects
        BY <1>2, Entries DEF TaskTyped
  <2>q. QED BY <1>2, <1>3, <2>1, <2>2 DEF Latest
<1>5. SentHere'
  <2>1. CASE SendOpened /\ connection # "running"
    <3>1. send' = [send EXCEPT !.at = "none"]
          BY <2>1 DEF SendOpened
    <3>2. send'.at = "none"
          BY <1>2, <3>1 DEF Message
    <3>q. QED BY <3>2, NothingSent
  <2>2. CASE SendOpened /\ connection = "running"
    <3>1. send' = Checked(send)
          BY <2>2 DEF SendOpened
    <3>q. QED BY <1>1, <1>2, <1>3, <1>4, <2>2, <3>1, CheckedShows
  <2>3. CASE SendConnected
    <3>1. send' = AwaitsPick(send) /\ connection = "running"
          BY <2>3 DEF SendConnected, MessageInv, SentHere
    <3>q. QED BY <1>1, <1>2, <1>3, <1>4, <3>1, AwaitsPickShows
  <2>q. QED BY <2>1, <2>2, <2>3
<1>6. ModelShown'
      BY <1>1, <1>2, MessageShows
<1>q. QED BY <1>5, <1>6 DEF MessageInv

\* The pick that a message waited for is over: what is still on its way was picked later.
LEMMA SendPickedShows ==
    ASSUME TaskInv, MessageInv, SendPicked
    PROVE  MessageInv'
<1>1. UNCHANGED <<version, connection, runtimeId, shown, connects, pending, model, queued, picks, runtimes>>
      BY DEF SendPicked, task, models
<1>2. TaskTyped /\ Latest /\ send \in Message
      BY DEF TaskInv, TaskTyped
<1>3. send.at = "picks" /\ send.waits \notin Running /\ send' = Going(send)
      BY DEF SendPicked
<1>4. send.key = shown /\ connection = "running" /\ pending = 0 /\ send.waits <= Len(picks) /\ runtimeId # 0
      BY <1>2, <1>3 DEF MessageInv, SentHere, Latest
<1>5. send'.at = "goes" /\ send'.rt = runtimeId /\ send'.key = shown /\ send'.waits = send.waits
      BY <1>2, <1>3, <1>4, StagesAre
<1>6. Changing => send.waits < Len(picks)
  <2>1. Len(picks) \in Nat /\ DOMAIN picks = 1..Len(picks) /\ send.waits \in Nat
        BY <1>2, Entries DEF Message
  <2>2. Changing => Len(picks) \in Running
        BY <2>1 DEF Changing, Running
  <2>q. QED BY <1>3, <1>4, <2>1, <2>2
<1>7. Changing' => Changing
      BY <1>1, PicksStay
<1>8. SentHere'
      BY <1>1, <1>4, <1>5, <1>6, <1>7 DEF SentHere
<1>9. ModelShown'
      BY <1>1, <1>2, MessageShows
<1>q. QED BY <1>8, <1>9 DEF MessageInv

\* What was queued may be forgotten when a message arrives: no connect is about to apply it.
LEMMA SendEndsShows ==
    ASSUME TaskInv, MessageInv, SendReaches \/ SendFails
    PROVE  MessageInv'
<1>1. UNCHANGED <<version, connection, runtimeId, shown, connects, pending, model, picks>>
      BY DEF SendReaches, SendFails, task, models
<1>2. TaskTyped /\ Latest /\ send \in Message
      BY DEF TaskInv, TaskTyped
<1>3. send'.at \in {"none", "sent"}
      BY <1>2 DEF SendReaches, SendFails, Message
<1>4. ~At("apply")
  <2>1. pending = 0
        BY DEF SendReaches, SendFails, MessageInv, SentHere
  <2>q. QED BY <1>2, <2>1, StagePends
<1>5. \A r \in DOMAIN runtimes : runtimes'[r].model = runtimes[r].model
  <2>1. CASE SendReaches
        BY <1>2, <2>1, SendReachesIs
  <2>2. CASE SendFails
        BY <2>2 DEF SendFails
  <2>q. QED BY <2>1, <2>2
<1>6. ModelShown'
      BY <1>1, <1>2, <1>4, <1>5, MessageShows
<1>q. QED BY <1>3, <1>6, NothingSent DEF MessageInv

LEMMA MessageKept ==
    ASSUME Settling, TaskInv, MessageInv, [TasksNext]_taskVars
    PROVE  MessageInv'
<1>1. ASSUME NEW key \in Keys, Connect(key)
      PROVE  MessageInv'
      BY <1>1, LeavingShows
<1>2. CASE PrepareNewTask \/ Disconnect
      BY <1>2, LeavingShows
<1>3. CASE StopsSlowly \/ StopEnds
      BY <1>3 DEF StopsSlowly, StopEnds, Settling
<1>4. CASE ConnectStarted
      BY <1>4, ConnectStartedShows
<1>5. CASE ConnectFails
      BY <1>5, ConnectFailsShows
<1>6. CASE ConnectSynced
      BY <1>6, ConnectSyncedShows
<1>7. CASE ConnectApplies
      BY <1>7, ConnectAppliesShows
<1>8. CASE ConnectEnds
      BY <1>8, ConnectEndsShows
<1>9. CASE Prewarm
      BY <1>9, PrewarmShows
<1>10. ASSUME NEW m \in Models, PickModel(m)
       PROVE  MessageInv'
      BY <1>10, PickModelShows
<1>11. CASE PickReaches
      BY <1>11, PickReachesShows
<1>12. CASE PickConfirmed \/ PickRefused
      BY <1>12, PickAnsweredShows
<1>13. CASE Send
      BY <1>13, SendShows
<1>14. CASE SendOpened \/ SendConnected
      BY <1>14, SendConnectsShows
<1>15. CASE SendPicked
      BY <1>15, SendPickedShows
<1>16. CASE SendReaches \/ SendFails
      BY <1>16, SendEndsShows
<1>17. CASE UNCHANGED taskVars
  <2>1. /\ UNCHANGED <<version, connection, runtimeId, shown, connects, pending, model, queued, default, picks>>
        /\ UNCHANGED <<runtimes, listed, send>>
        BY <1>17 DEF taskVars
  <2>q. QED BY <2>1 DEF MessageInv, SentHere, ModelShown, Cur, At, Agrees, Changing
<1>q. QED BY <1>1, <1>2, <1>3, <1>4, <1>5, <1>6, <1>7, <1>8, <1>9, <1>10, <1>11, <1>12, <1>13, <1>14, <1>15, <1>16,
             <1>17
          DEF TasksNext

LEMMA TaskShown ==
    ASSUME TaskInv, MessageInv
    PROVE  TaskIsTrue
<1>1. TaskTyped /\ Latest
      BY DEF TaskInv
<1>2. ScreenIsTask /\ RuntimesAreListed
      BY DEF TaskInv, Latest, ScreenIsTask
<1>3. PromptGoesAsShown
  <2>1. SUFFICES ASSUME send.at = "goes"
                 PROVE  /\ runtimes[send.rt].key = send.key
                        /\ \/ PendingChange(send.rt) # {} /\ Len(picks) > send.waits
                           \/ runtimes[send.rt].model = model
        BY DEF PromptGoesAsShown
  <2>2. /\ send.rt = runtimeId /\ send.key = shown /\ connection = "running" /\ pending = 0
        /\ Changing => send.waits < Len(picks)
        BY <2>1 DEF MessageInv, SentHere
  <2>3. Agrees \/ Changing
        BY <1>1, <2>2, StagePends DEF MessageInv, ModelShown
  <2>4. Len(picks) \in Nat /\ send.waits \in Nat
        BY <1>1, Entries DEF TaskTyped, Message
  <2>5. Changing => PendingChange(send.rt) # {} /\ Len(picks) > send.waits
        BY <1>1, <2>2, <2>4, ChangingIs
  <2>q. QED BY <1>1, <2>2, <2>3, <2>5 DEF Latest, Agrees
<1>4. ModelIsTrue
  <2>1. SUFFICES ASSUME connection = "running", Running = {}, \A c \in DOMAIN connects : connects[c].at = "done"
                 PROVE  model = runtimes[runtimeId].model
        BY DEF ModelIsTrue
  <2>2. ~Changing
        BY <1>1, <2>1, Entries DEF Changing, Running
  <2>3. ~At("sync") /\ ~At("apply")
        BY <2>1 DEF At
  <2>q. QED BY <2>1, <2>2, <2>3 DEF MessageInv, ModelShown, Agrees
<1>q. QED BY <1>2, <1>3, <1>4 DEF TaskIsTrue

\* As long as nobody leaves a task while a message is on its way to it, nor sends one before the model of a
\* task that opens is known, and the Host tells what a runtime shows and stops it when it is asked to, a
\* message goes to the task it was typed in, to the model the composer showed unless another was picked
\* since; and the composer shows the model that the runtime has, once nothing is under way.
THEOREM TaskShownIsTrue == Settling => (TasksSpec => []TaskIsTrue)
<1> SUFFICES ASSUME Settling PROVE TasksSpec => []TaskIsTrue
      OBVIOUS
<1>1. TasksInit => TaskInv /\ MessageInv
      BY TaskStarts
<1>2. TaskInv /\ MessageInv /\ [TasksNext]_taskVars => (TaskInv /\ MessageInv)'
      BY TaskKept, MessageKept
<1>3. TaskInv /\ MessageInv => TaskIsTrue
      BY TaskShown
<1>q. QED BY <1>1, <1>2, <1>3, PTL DEF TasksSpec

==============================================================================
