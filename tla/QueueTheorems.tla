---------------------------- MODULE QueueTheorems ----------------------------
(***************************************************************************)
(* What putting at the back of a queue and taking from its front or its    *)
(* back does to the set of messages in it, to their being distinct and to  *)
(* their total size; and the induction over the numbers that totals need.  *)
(***************************************************************************)
EXTENDS Integers, Sequences, SequencesExt, SequenceTheorems,
        WellFoundedInduction, Totals, TLAPS

\* A queue of S holds only members of S.
LEMMA MessagesTyped ==
    ASSUME NEW S, NEW s \in Seq(S)
    PROVE  ToSet(s) \subseteq S
BY DEF ToSet

\* WaitingQueue::put adds one message.
LEMMA AppendQueue ==
    ASSUME NEW S, NEW s \in Seq(S), NEW x \in S
    PROVE  /\ Append(s, x) \in Seq(S)
           /\ Append(s, x) # <<>>
           /\ ToSet(Append(s, x)) = ToSet(s) \cup {x}
           /\ IsInjective(s) /\ x \notin ToSet(s) => IsInjective(Append(s, x))
  <1> DEFINE a == Append(s, x)
  <1>1. /\ a \in Seq(S)
        /\ a # <<>>
        /\ Len(a) = Len(s) + 1
        /\ \A i \in 1 .. Len(s) : a[i] = s[i]
        /\ a[Len(s) + 1] = x
    BY AppendProperties
  <1>2. /\ DOMAIN s = 1 .. Len(s)
        /\ DOMAIN a = 1 .. Len(s) + 1
        /\ Len(s) \in Nat
    BY <1>1
  <1> HIDE DEF a
  <1>3. ToSet(a) = ToSet(s) \cup {x}
    <2>1. ASSUME NEW y \in ToSet(a) PROVE y \in ToSet(s) \cup {x}
      <3>1. PICK i \in 1 .. Len(s) + 1 : y = a[i]
        BY <1>2 DEF ToSet
      <3>2. QED
        BY <1>1, <1>2, <3>1 DEF ToSet
    <2>2. ASSUME NEW y \in ToSet(s) PROVE y \in ToSet(a)
      <3>1. PICK i \in 1 .. Len(s) : y = s[i]
        BY <1>2 DEF ToSet
      <3>2. i \in DOMAIN a /\ y = a[i]
        BY <1>1, <1>2, <3>1
      <3>3. QED
        BY <3>2 DEF ToSet
    <2>3. x \in ToSet(a)
      <3>1. Len(s) + 1 \in DOMAIN a
        BY <1>2
      <3>2. QED
        BY <1>1, <3>1 DEF ToSet
    <2>4. QED
      BY <2>1, <2>2, <2>3
  <1>4. ASSUME IsInjective(s), x \notin ToSet(s) PROVE IsInjective(a)
    <2> SUFFICES ASSUME NEW i \in 1 .. Len(s) + 1, NEW j \in 1 .. Len(s) + 1,
                        a[i] = a[j]
                 PROVE  i = j
      BY <1>2 DEF IsInjective
    <2>1. \A n \in 1 .. Len(s) : s[n] # x
      BY <1>2, <1>4 DEF ToSet
    <2>2. CASE i \in 1 .. Len(s) /\ j \in 1 .. Len(s)
      BY <1>1, <1>2, <1>4, <2>2 DEF IsInjective
    <2>3. CASE i = Len(s) + 1 \/ j = Len(s) + 1
      BY <1>1, <1>2, <2>1, <2>3
    <2>4. QED
      BY <1>2, <2>2, <2>3
  <1>5. QED
    BY <1>1, <1>3, <1>4 DEF a

\* WaitingQueue::pop takes the first message and leaves the others.
LEMMA TailQueue ==
    ASSUME NEW S, NEW s \in Seq(S), s # <<>>
    PROVE  /\ Head(s) \in S
           /\ Head(s) \in ToSet(s)
           /\ Tail(s) \in Seq(S)
           /\ ToSet(s) = ToSet(Tail(s)) \cup {Head(s)}
           /\ IsInjective(s) => /\ IsInjective(Tail(s))
                                /\ Head(s) \notin ToSet(Tail(s))
  <1> DEFINE t == Tail(s)
  <1>1. /\ Len(s) \in Nat \ {0}
        /\ DOMAIN s = 1 .. Len(s)
        /\ Head(s) = s[1]
        /\ Head(s) \in S
        /\ t \in Seq(S)
        /\ Len(t) = Len(s) - 1
        /\ DOMAIN t = 1 .. Len(s) - 1
        /\ \A i \in 1 .. Len(s) - 1 : t[i] = s[i + 1]
    BY HeadTailProperties
  <1> HIDE DEF t
  <1>2. Head(s) \in ToSet(s)
    BY <1>1 DEF ToSet
  <1>3. ASSUME NEW y \in ToSet(s), y # Head(s) PROVE y \in ToSet(t)
    <2>1. PICK i \in 1 .. Len(s) : y = s[i]
      BY <1>1 DEF ToSet
    <2>2. i - 1 \in DOMAIN t /\ t[i - 1] = s[i]
      BY <1>1, <1>3, <2>1
    <2>3. QED
      BY <2>1, <2>2 DEF ToSet
  <1>4. ASSUME NEW y \in ToSet(t) PROVE y \in ToSet(s)
    <2>1. PICK i \in 1 .. Len(s) - 1 : y = t[i]
      BY <1>1 DEF ToSet
    <2>2. i + 1 \in DOMAIN s /\ s[i + 1] = y
      BY <1>1, <2>1
    <2>3. QED
      BY <2>2 DEF ToSet
  <1>5. ASSUME IsInjective(s) PROVE IsInjective(t) /\ Head(s) \notin ToSet(t)
    <2>1. \A i, j \in 1 .. Len(s) : s[i] = s[j] => i = j
      BY <1>1, <1>5 DEF IsInjective
    <2>2. \A i \in 1 .. Len(s) - 1 : i + 1 \in 1 .. Len(s) /\ i + 1 # 1
      BY <1>1
    <2>3. \A i \in 1 .. Len(s) - 1 : t[i] # Head(s)
      BY <1>1, <2>1, <2>2
    <2>4. \A i, j \in 1 .. Len(s) - 1 : t[i] = t[j] => i = j
      BY <1>1, <2>1, <2>2
    <2>5. QED
      BY <1>1, <2>3, <2>4 DEF IsInjective, ToSet
  <1>6. QED
    BY <1>1, <1>2, <1>3, <1>4, <1>5 DEF t

\* WaitingQueue::pop_back takes the last message and leaves the others.
LEMMA FrontQueue ==
    ASSUME NEW S, NEW s \in Seq(S), s # <<>>
    PROVE  /\ Last(s) \in S
           /\ Last(s) \in ToSet(s)
           /\ Front(s) \in Seq(S)
           /\ Len(s) \in Nat \ {0}
           /\ Len(Front(s)) = Len(s) - 1
           /\ ToSet(s) = ToSet(Front(s)) \cup {Last(s)}
           /\ IsInjective(s) => /\ IsInjective(Front(s))
                                /\ Last(s) \notin ToSet(Front(s))
  <1> DEFINE f == Front(s)
  <1>0. /\ Len(s) \in Nat \ {0}
        /\ DOMAIN s = 1 .. Len(s)
        /\ \A i \in 1 .. Len(s) - 1 : s[i] \in S
        /\ s[Len(s)] \in S
    OBVIOUS
  <1>1. /\ f \in Seq(S)
        /\ Len(f) = Len(s) - 1
        /\ \A i \in 1 .. Len(s) - 1 : f[i] = s[i]
    <2> DEFINE n == Len(s) - 1
    <2>1. n \in Int /\ 1 \in Int
      BY <1>0
    <2>2. /\ SubSeq(s, 1, n) \in Seq(S)
          /\ Len(SubSeq(s, 1, n)) = IF 1 <= n THEN n - 1 + 1 ELSE 0
          /\ \A i \in 1 .. n - 1 + 1 : SubSeq(s, 1, n)[i] = s[1 + i - 1]
      BY <1>0, <2>1, SubSeqProperties
    <2>3. \A i \in 1 .. n : i \in 1 .. n - 1 + 1 /\ 1 + i - 1 = i
      BY <1>0
    <2>4. \A i \in 1 .. n : SubSeq(s, 1, n)[i] = s[i]
      BY <2>2, <2>3
    <2>5. Len(SubSeq(s, 1, n)) = n
      BY <1>0, <2>2
    <2>6. QED
      BY <2>2, <2>4, <2>5 DEF Front
  <1>2. DOMAIN f = 1 .. Len(s) - 1
    BY <1>1
  <1> HIDE DEF f
  <1>3. Last(s) = s[Len(s)] /\ Last(s) \in ToSet(s)
    BY <1>0 DEF Last, ToSet
  <1>4. ASSUME NEW y \in ToSet(s), y # Last(s) PROVE y \in ToSet(f)
    <2>1. PICK i \in 1 .. Len(s) : y = s[i]
      BY <1>0 DEF ToSet
    <2>2. i \in 1 .. Len(s) - 1
      BY <1>0, <1>3, <1>4, <2>1
    <2>3. QED
      BY <1>1, <1>2, <2>1, <2>2 DEF ToSet
  <1>5. ASSUME NEW y \in ToSet(f) PROVE y \in ToSet(s)
    <2>1. PICK i \in 1 .. Len(s) - 1 : y = f[i]
      BY <1>2 DEF ToSet
    <2>2. i \in DOMAIN s /\ y = s[i]
      BY <1>0, <1>1, <2>1
    <2>3. QED
      BY <2>2 DEF ToSet
  <1>6. ASSUME IsInjective(s) PROVE IsInjective(f) /\ Last(s) \notin ToSet(f)
    <2>1. \A i, j \in 1 .. Len(s) : s[i] = s[j] => i = j
      BY <1>0, <1>6 DEF IsInjective
    <2>2. ASSUME NEW n \in Nat \ {0}, NEW i \in 1 .. n - 1
          PROVE  i \in 1 .. n /\ i # n /\ n \in 1 .. n
      OBVIOUS
    <2>3. ASSUME NEW i \in 1 .. Len(s) - 1 PROVE f[i] # Last(s)
      <3>1. i \in 1 .. Len(s) /\ i # Len(s) /\ Len(s) \in 1 .. Len(s)
        BY <1>0, <2>2
      <3>2. f[i] = s[i] /\ Last(s) = s[Len(s)]
        BY <1>1, <1>3
      <3>3. s[i] # s[Len(s)]
        BY <2>1, <3>1
      <3>4. QED
        BY <3>2, <3>3
    <2>4. \A i, j \in 1 .. Len(s) - 1 : f[i] = f[j] => i = j
      BY <1>0, <1>1, <2>1, <2>2
    <2>5. QED
      BY <1>2, <2>3, <2>4 DEF IsInjective, ToSet
  <1>7. QED
    BY <1>0, <1>1, <1>3, <1>4, <1>5, <1>6 DEF f, Last

\* The messages from the a-th to the b-th.
LEMMA Piece ==
    ASSUME NEW S, NEW s \in Seq(S), NEW a \in Nat, NEW b \in Nat,
           1 <= a, a <= b + 1, b <= Len(s)
    PROVE  /\ SubSeq(s, a, b) \in Seq(S)
           /\ Len(SubSeq(s, a, b)) = b - a + 1
           /\ \A j \in 1 .. b - a + 1 : SubSeq(s, a, b)[j] = s[a + j - 1]
  <1>1. \A k \in a .. b : s[k] \in S
    OBVIOUS
  <1>2. /\ SubSeq(s, a, b) \in Seq(S)
        /\ Len(SubSeq(s, a, b)) = IF a <= b THEN b - a + 1 ELSE 0
        /\ \A j \in 1 .. b - a + 1 : SubSeq(s, a, b)[j] = s[a + j - 1]
    BY <1>1, SubSeqProperties
  <1>3. QED
    BY <1>2

\* Where the messages stand once those before the i-th were moved back.
LEMMA RotatedOrder ==
    ASSUME NEW S, NEW s \in Seq(S), NEW n \in Nat, n = Len(s),
           NEW i \in 1 .. n
    PROVE  LET r == SubSeq(s, i + 1, n) \o SubSeq(s, 1, i - 1)
           IN  /\ r \in Seq(S)
               /\ DOMAIN r = 1 .. n - 1
               /\ \A j \in 1 .. n - 1 :
                      r[j] = s[IF j <= n - i THEN i + j ELSE j - (n - i)]
  <1> DEFINE a == SubSeq(s, i + 1, n)
             b == SubSeq(s, 1, i - 1)
             r == a \o b
  <1>1. /\ i \in Nat /\ i + 1 \in Nat /\ i - 1 \in Nat /\ 1 \in Nat
        /\ 1 <= i /\ i <= n
        /\ n - (i + 1) + 1 = n - i /\ i - 1 - 1 + 1 = i - 1
        /\ 1 <= i + 1 /\ i + 1 <= n + 1 /\ n <= n
        /\ 1 <= i - 1 + 1 /\ i - 1 <= n
    OBVIOUS
  <1>2. /\ a \in Seq(S)
        /\ Len(a) = n - i
        /\ \A j \in 1 .. n - i : a[j] = s[i + 1 + j - 1]
    BY <1>1, Piece
  <1>3. /\ b \in Seq(S)
        /\ Len(b) = i - 1
        /\ \A j \in 1 .. i - 1 : b[j] = s[1 + j - 1]
    BY <1>1, Piece
  <1> HIDE DEF a, b
  <1>4. /\ r \in Seq(S)
        /\ Len(r) = Len(a) + Len(b)
        /\ \A j \in 1 .. Len(a) + Len(b) :
               r[j] = IF j <= Len(a) THEN a[j] ELSE b[j - Len(a)]
    BY <1>2, <1>3, ConcatProperties
  <1> HIDE DEF r
  <1>5. Len(r) = n - 1 /\ DOMAIN r = 1 .. n - 1
    BY <1>1, <1>2, <1>3, <1>4
  <1>6. ASSUME NEW j \in 1 .. n - 1
        PROVE  r[j] = s[IF j <= n - i THEN i + j ELSE j - (n - i)]
    <2>1. CASE j <= n - i
      <3>1. /\ j \in 1 .. n - i
            /\ i + 1 + j - 1 = i + j
            /\ n - i + (i - 1) = n - 1
        BY <1>1, <2>1
      <3>2. r[j] = a[j]
        BY <1>2, <1>3, <1>4, <2>1, <3>1
      <3>3. QED
        BY <1>2, <2>1, <3>1, <3>2
    <2>2. CASE ~(j <= n - i)
      <3>1. /\ j - (n - i) \in 1 .. i - 1
            /\ 1 + (j - (n - i)) - 1 = j - (n - i)
            /\ n - i + (i - 1) = n - 1
        BY <1>1, <2>2
      <3>2. r[j] = b[j - (n - i)]
        BY <1>2, <1>3, <1>4, <2>2, <3>1
      <3>3. QED
        BY <1>3, <2>2, <3>1, <3>2
    <2>3. QED
      BY <2>1, <2>2
  <1>7. QED
    BY <1>4, <1>5, <1>6 DEF r, a, b

\* WaitingQueue::get_or_wait takes the i-th message and moves those before it
\* to the back.
LEMMA RotateQueue ==
    ASSUME NEW S, NEW s \in Seq(S), NEW i \in DOMAIN s
    PROVE  LET r == SubSeq(s, i + 1, Len(s)) \o SubSeq(s, 1, i - 1)
           IN  /\ r \in Seq(S)
               /\ IsInjective(s) => /\ IsInjective(r)
                                    /\ ToSet(r) = ToSet(s) \ {s[i]}
  <1> DEFINE n == Len(s)
             r == SubSeq(s, i + 1, n) \o SubSeq(s, 1, i - 1)
             from(j) == IF j <= n - i THEN i + j ELSE j - (n - i)
  <1>1. n \in Nat /\ n = Len(s) /\ DOMAIN s = 1 .. n /\ i \in 1 .. n
    OBVIOUS
  <1>2. /\ r \in Seq(S)
        /\ DOMAIN r = 1 .. n - 1
        /\ \A j \in 1 .. n - 1 : r[j] = s[from(j)]
    BY <1>1, RotatedOrder
  <1> HIDE DEF n, r
  <1>3. ASSUME NEW j \in 1 .. n - 1
        PROVE  from(j) \in 1 .. n /\ from(j) # i
    BY <1>1
  <1>4. ASSUME NEW j \in 1 .. n - 1, NEW k \in 1 .. n - 1, from(j) = from(k)
        PROVE  j = k
    BY <1>1, <1>4
  <1>5. ASSUME NEW k \in 1 .. n, k # i
        PROVE  \E j \in 1 .. n - 1 : from(j) = k
    <2>1. CASE k > i
      <3>1. k - i \in 1 .. n - 1 /\ from(k - i) = k
        BY <1>1, <2>1
      <3>2. QED
        BY <3>1
    <2>2. CASE k < i
      <3>1. k + (n - i) \in 1 .. n - 1 /\ from(k + (n - i)) = k
        BY <1>1, <2>2
      <3>2. QED
        BY <3>1
    <2>3. QED
      BY <1>1, <1>5, <2>1, <2>2
  <1> HIDE DEF from
  <1>6. ASSUME IsInjective(s)
        PROVE  IsInjective(r) /\ ToSet(r) = ToSet(s) \ {s[i]}
    <2>1. \A j, k \in 1 .. n : s[j] = s[k] => j = k
      BY <1>1, <1>6 DEF IsInjective
    <2>2. IsInjective(r)
      <3> SUFFICES ASSUME NEW j \in 1 .. n - 1, NEW k \in 1 .. n - 1,
                          r[j] = r[k]
                   PROVE  j = k
        BY <1>2 DEF IsInjective
      <3>1. from(j) = from(k)
        BY <1>2, <1>3, <2>1
      <3>2. QED
        BY <1>4, <3>1
    <2>3. ASSUME NEW y \in ToSet(r) PROVE y \in ToSet(s) \ {s[i]}
      <3>1. PICK j \in 1 .. n - 1 : y = r[j]
        BY <1>2 DEF ToSet
      <3>2. from(j) \in DOMAIN s /\ from(j) # i /\ y = s[from(j)]
        BY <1>1, <1>2, <1>3, <3>1
      <3>3. y \in ToSet(s)
        BY <3>2 DEF ToSet
      <3>4. y # s[i]
        BY <1>1, <2>1, <3>2
      <3>5. QED
        BY <3>3, <3>4
    <2>4. ASSUME NEW y \in ToSet(s), y # s[i] PROVE y \in ToSet(r)
      <3>1. PICK k \in 1 .. n : y = s[k]
        BY <1>1 DEF ToSet
      <3>2. k # i
        BY <2>4, <3>1
      <3>3. PICK j \in 1 .. n - 1 : from(j) = k
        BY <1>5, <3>2
      <3>4. j \in DOMAIN r /\ r[j] = y
        BY <1>2, <3>1, <3>3
      <3>5. QED
        BY <3>4 DEF ToSet
    <2>5. QED
      BY <2>2, <2>3, <2>4
  <1>7. QED
    BY <1>2, <1>6 DEF r, n


\* One queue after another.
LEMMA ConcatQueue ==
    ASSUME NEW S, NEW s \in Seq(S), NEW t \in Seq(S)
    PROVE  /\ s \o t \in Seq(S)
           /\ ToSet(s \o t) = ToSet(s) \cup ToSet(t)
           /\ IsInjective(s) /\ IsInjective(t) /\ ToSet(s) \cap ToSet(t) = {}
                 => IsInjective(s \o t)
  <1> DEFINE m == Len(s)
             n == Len(t)
             r == s \o t
  <1>1. /\ r \in Seq(S)
        /\ Len(r) = m + n
        /\ \A i \in 1 .. m + n : r[i] = IF i <= m THEN s[i] ELSE t[i - m]
    BY ConcatProperties
  <1>2. /\ m \in Nat /\ n \in Nat
        /\ DOMAIN s = 1 .. m /\ DOMAIN t = 1 .. n /\ DOMAIN r = 1 .. m + n
    BY <1>1, LenProperties
  <1> HIDE DEF m, n, r
  <1>3. \A i \in 1 .. m : r[i] = s[i]
    BY <1>1, <1>2
  <1>4. ASSUME NEW i \in 1 .. n PROVE m + i \in 1 .. m + n /\ r[m + i] = t[i]
    <2>1. m + i \in 1 .. m + n /\ ~(m + i <= m) /\ (m + i) - m = i
      BY <1>2
    <2>2. QED
      BY <1>1, <2>1
  <1>5. ASSUME NEW k \in 1 .. m + n
        PROVE  \/ k \in 1 .. m /\ r[k] = s[k]
               \/ ~(k <= m) /\ k - m \in 1 .. n /\ r[k] = t[k - m]
    BY <1>1, <1>2
  <1>6. ToSet(r) = ToSet(s) \cup ToSet(t)
    <2>1. ASSUME NEW y \in ToSet(r) PROVE y \in ToSet(s) \cup ToSet(t)
      <3>1. PICK k \in 1 .. m + n : y = r[k]
        BY <1>2 DEF ToSet
      <3>2. QED
        BY <1>2, <1>5, <3>1 DEF ToSet
    <2>2. ASSUME NEW y \in ToSet(s) PROVE y \in ToSet(r)
      <3>1. PICK k \in 1 .. m : y = s[k]
        BY <1>2 DEF ToSet
      <3>2. k \in DOMAIN r /\ r[k] = y
        BY <1>2, <1>3, <3>1
      <3>3. QED
        BY <3>2 DEF ToSet
    <2>3. ASSUME NEW y \in ToSet(t) PROVE y \in ToSet(r)
      <3>1. PICK k \in 1 .. n : y = t[k]
        BY <1>2 DEF ToSet
      <3>2. m + k \in DOMAIN r /\ r[m + k] = y
        BY <1>2, <1>4, <3>1
      <3>3. QED
        BY <3>2 DEF ToSet
    <2>4. QED
      BY <2>1, <2>2, <2>3
  <1>7. ASSUME IsInjective(s), IsInjective(t), ToSet(s) \cap ToSet(t) = {}
        PROVE  IsInjective(r)
    <2> SUFFICES ASSUME NEW j \in 1 .. m + n, NEW k \in 1 .. m + n, r[j] = r[k]
                 PROVE  j = k
      BY <1>2 DEF IsInjective
    <2>1. \A a \in 1 .. m, b \in 1 .. n : s[a] # t[b]
      BY <1>2, <1>7 DEF ToSet
    <2>2. /\ \A a, b \in 1 .. m : s[a] = s[b] => a = b
          /\ \A a, b \in 1 .. n : t[a] = t[b] => a = b
      BY <1>2, <1>7 DEF IsInjective
    <2>3. CASE j <= m
      BY <1>2, <1>5, <2>1, <2>2, <2>3
    <2>4. CASE ~(j <= m)
      <3>1. j - m \in 1 .. n /\ r[j] = t[j - m]
        BY <1>5, <2>4
      <3>2. ~(k <= m) /\ k - m \in 1 .. n /\ r[k] = t[k - m]
        BY <1>5, <2>1, <3>1
      <3>3. j - m = k - m
        BY <2>2, <3>1, <3>2
      <3>4. QED
        BY <1>2, <3>3
    <2>5. QED
      BY <2>3, <2>4
  <1>8. QED
    BY <1>1, <1>6, <1>7 DEF r

\* A queue cut before its i-th message.
LEMMA SplitQueue ==
    ASSUME NEW S, NEW s \in Seq(S), NEW i \in 1 .. Len(s)
    PROVE  LET a == SubSeq(s, 1, i - 1)
               b == SubSeq(s, i, Len(s))
           IN  /\ a \in Seq(S) /\ b \in Seq(S)
               /\ ToSet(s) = ToSet(a) \cup ToSet(b)
               /\ IsInjective(s) => /\ IsInjective(a) /\ IsInjective(b)
                                    /\ ToSet(a) \cap ToSet(b) = {}
  <1> DEFINE n == Len(s)
             a == SubSeq(s, 1, i - 1)
             b == SubSeq(s, i, n)
  <1>1. /\ n \in Nat /\ DOMAIN s = 1 .. n /\ i \in Nat /\ 1 <= i /\ i <= n
        /\ i - 1 \in Nat /\ 1 \in Nat /\ 1 <= i - 1 + 1 /\ i - 1 <= n
        /\ i <= n + 1 /\ n <= n /\ n = Len(s) /\ 1 <= 1
    BY LenProperties
  <1>2. /\ a \in Seq(S) /\ Len(a) = i - 1 - 1 + 1
        /\ \A j \in 1 .. i - 1 - 1 + 1 : a[j] = s[1 + j - 1]
    BY <1>1, Piece
  <1>3. /\ b \in Seq(S) /\ Len(b) = n - i + 1
        /\ \A j \in 1 .. n - i + 1 : b[j] = s[i + j - 1]
    BY <1>1, Piece
  <1> HIDE DEF n, a, b
  <1>4. /\ DOMAIN a = 1 .. i - 1 /\ DOMAIN b = 1 .. n - i + 1
        /\ \A j \in 1 .. i - 1 : a[j] = s[j] /\ j \in 1 .. n
        /\ \A j \in 1 .. n - i + 1 : i + j - 1 \in 1 .. n /\ i + j - 1 >= i
    BY <1>1, <1>2, <1>3
  <1>5. ToSet(a) \subseteq ToSet(s)
    <2> SUFFICES ASSUME NEW y \in ToSet(a) PROVE y \in ToSet(s)
      OBVIOUS
    <2>1. PICK j \in 1 .. i - 1 : y = a[j]
      BY <1>4 DEF ToSet
    <2>2. QED
      BY <1>1, <1>4, <2>1 DEF ToSet
  <1>6. ToSet(b) \subseteq ToSet(s)
    <2> SUFFICES ASSUME NEW y \in ToSet(b) PROVE y \in ToSet(s)
      OBVIOUS
    <2>1. PICK j \in 1 .. n - i + 1 : y = b[j]
      BY <1>4 DEF ToSet
    <2>2. i + j - 1 \in DOMAIN s /\ y = s[i + j - 1]
      BY <1>1, <1>3, <1>4, <2>1
    <2>3. QED
      BY <2>2 DEF ToSet
  <1>7. ASSUME NEW y \in ToSet(s) PROVE y \in ToSet(a) \cup ToSet(b)
    <2>1. PICK j \in 1 .. n : y = s[j]
      BY <1>1 DEF ToSet
    <2>2. CASE j < i
      <3>1. j \in DOMAIN a /\ a[j] = y
        BY <1>1, <1>4, <2>1, <2>2
      <3>2. QED
        BY <3>1 DEF ToSet
    <2>3. CASE ~(j < i)
      <3>1. /\ j - i + 1 \in 1 .. n - i + 1 /\ i + (j - i + 1) - 1 = j
        BY <1>1, <2>3
      <3>2. b[j - i + 1] = y
        BY <1>3, <2>1, <3>1
      <3>3. QED
        BY <1>4, <3>1, <3>2 DEF ToSet
    <2>4. QED
      BY <2>2, <2>3
  <1>8. ASSUME IsInjective(s)
        PROVE  IsInjective(a) /\ IsInjective(b) /\ ToSet(a) \cap ToSet(b) = {}
    <2>1. \A j, k \in 1 .. n : s[j] = s[k] => j = k
      BY <1>1, <1>8 DEF IsInjective
    <2>2. IsInjective(a)
      BY <1>4, <2>1 DEF IsInjective
    <2>3. IsInjective(b)
      <3> SUFFICES ASSUME NEW j \in 1 .. n - i + 1, NEW k \in 1 .. n - i + 1,
                          b[j] = b[k]
                   PROVE  j = k
        BY <1>4 DEF IsInjective
      <3>1. i + j - 1 = i + k - 1
        BY <1>3, <1>4, <2>1
      <3>2. QED
        BY <1>1, <3>1
    <2>4. ASSUME NEW y, y \in ToSet(a), y \in ToSet(b) PROVE FALSE
      <3>1. PICK j \in 1 .. i - 1 : y = a[j]
        BY <1>4, <2>4 DEF ToSet
      <3>2. PICK k \in 1 .. n - i + 1 : y = b[k]
        BY <1>4, <2>4 DEF ToSet
      <3>3. s[j] = s[i + k - 1]
        BY <1>3, <1>4, <3>1, <3>2
      <3>4. j = i + k - 1
        BY <1>4, <2>1, <3>3
      <3>5. QED
        BY <1>1, <3>4
    <2>5. QED
      BY <2>2, <2>3, <2>4
  <1>9. QED
    BY <1>2, <1>3, <1>5, <1>6, <1>7, <1>8 DEF a, b, n

\* A queue without its i-th message.
LEMMA RemoveQueue ==
    ASSUME NEW S, NEW s \in Seq(S), NEW i \in 1 .. Len(s)
    PROVE  /\ s[i] \in ToSet(s)
           /\ IsInjective(s) => /\ IsInjective(RemoveAt(s, i))
                                /\ ToSet(RemoveAt(s, i)) = ToSet(s) \ {s[i]}
  <1> DEFINE n == Len(s)
             a == SubSeq(s, 1, i - 1)
             b == SubSeq(s, i, n)
             c == SubSeq(s, i + 1, n)
  <1>1. /\ n \in Nat /\ DOMAIN s = 1 .. n /\ i \in Nat /\ 1 <= i /\ i <= n
        /\ i + 1 \in Nat /\ 1 <= i + 1 /\ i + 1 <= n + 1 /\ n <= n
        /\ i <= n + 1 /\ n = Len(s)
    BY LenProperties
  <1>2. s[i] \in ToSet(s)
    BY <1>1 DEF ToSet
  <1>3. /\ a \in Seq(S) /\ b \in Seq(S)
        /\ ToSet(s) = ToSet(a) \cup ToSet(b)
        /\ IsInjective(s) => /\ IsInjective(a) /\ IsInjective(b)
                             /\ ToSet(a) \cap ToSet(b) = {}
    BY SplitQueue
  <1>4. /\ Len(b) = n - i + 1
        /\ \A j \in 1 .. n - i + 1 : b[j] = s[i + j - 1]
    BY <1>1, Piece
  <1>5. /\ c \in Seq(S) /\ Len(c) = n - (i + 1) + 1
        /\ \A j \in 1 .. n - (i + 1) + 1 : c[j] = s[(i + 1) + j - 1]
    BY <1>1, Piece
  <1>6. RemoveAt(s, i) = a \o c
    BY DEF RemoveAt
  <1> HIDE DEF n, a, b, c
  <1>7. b # <<>> /\ Head(b) = s[i] /\ Tail(b) = c
    <2>1. b # <<>>
      BY <1>1, <1>3, <1>4
    <2>2. 1 \in 1 .. n - i + 1 /\ i + 1 - 1 = i
      BY <1>1
    <2>3. b[1] = s[i]
      BY <1>4, <2>2
    <2>4. /\ Head(b) = b[1] /\ Tail(b) \in Seq(S) /\ Len(Tail(b)) = Len(b) - 1
          /\ \A j \in 1 .. Len(Tail(b)) : Tail(b)[j] = b[j + 1]
      BY <1>3, <2>1, HeadTailProperties
    <2>5. Len(Tail(b)) = Len(c) /\ Len(c) = n - i
      BY <1>1, <1>4, <1>5, <2>4
    <2>6. ASSUME NEW j \in 1 .. Len(c) PROVE Tail(b)[j] = c[j]
      <3>1. /\ j \in 1 .. n - (i + 1) + 1 /\ j + 1 \in 1 .. n - i + 1
            /\ i + (j + 1) - 1 = (i + 1) + j - 1
        <4>1. j \in Nat /\ 1 <= j /\ j <= n - i
          BY <2>5, <1>1
        <4>2. QED
          BY <1>1, <4>1
      <3>2. Tail(b)[j] = b[j + 1]
        BY <2>4, <2>5
      <3>3. b[j + 1] = s[(i + 1) + j - 1]
        BY <1>4, <3>1
      <3>4. QED
        BY <1>5, <3>1, <3>2, <3>3
    <2>7. Tail(b) = c
      BY <1>5, <2>4, <2>5, <2>6, SeqEqual
    <2>8. QED
      BY <2>1, <2>3, <2>4, <2>7
  <1>8. /\ ToSet(b) = ToSet(c) \cup {s[i]}
        /\ IsInjective(b) => IsInjective(c) /\ s[i] \notin ToSet(c)
    <2>1. /\ ToSet(b) = ToSet(Tail(b)) \cup {Head(b)}
          /\ IsInjective(b) => /\ IsInjective(Tail(b))
                               /\ Head(b) \notin ToSet(Tail(b))
      BY <1>3, <1>7, TailQueue
    <2>2. QED
      BY <1>7, <2>1
  <1>9. /\ ToSet(a \o c) = ToSet(a) \cup ToSet(c)
        /\ IsInjective(a) /\ IsInjective(c) /\ ToSet(a) \cap ToSet(c) = {}
              => IsInjective(a \o c)
    BY <1>3, <1>5, ConcatQueue
  <1>10. QED
    BY <1>2, <1>3, <1>6, <1>8, <1>9

-----------------------------------------------------------------------------
(* Induction over the numbers, and totals.  The induction theorems of the  *)
(* library take the property as an operator; here it is a set, and the     *)
(* induction comes from the least number outside it.                       *)

\* A set of numbers that is not empty has a least one.
LEMMA LeastNat ==
    ASSUME NEW T, T \subseteq Nat, T # {}
    PROVE  \E n \in T : \A m \in T : n <= m
  <1> DEFINE R == OpToRel(<, Nat)
  <1>1. IsWellFoundedOn(R, Nat)
    BY NatLessThanWellFounded
  <1>2. \A x, y \in Nat : <<x, y>> \in R <=> x < y
    BY DEF OpToRel
  <1> HIDE DEF R
  <1>3. PICK x \in T : \A y \in T : ~ (<<y, x>> \in R)
    BY <1>1, WFMin
  <1>4. ASSUME NEW m \in T PROVE x <= m
    <2>1. x \in Nat /\ m \in Nat
      OBVIOUS
    <2>2. ~(m < x)
      BY <1>2, <1>3, <2>1
    <2>3. QED
      BY <2>1, <2>2
  <1>5. QED
    BY <1>4

\* Induction, the property being a set of numbers.
LEMMA SetInduction ==
    ASSUME NEW I, 0 \in I, \A n \in Nat : n \in I => n + 1 \in I
    PROVE  \A n \in Nat : n \in I
  <1> SUFFICES ASSUME Nat \ I # {} PROVE FALSE
    OBVIOUS
  <1>1. PICK n \in Nat \ I : \A m \in Nat \ I : n <= m
    BY LeastNat
  <1>2. n # 0 /\ n - 1 \in Nat
    OBVIOUS
  <1>3. n - 1 \in I
    BY <1>1, <1>2
  <1>4. (n - 1) + 1 = n
    OBVIOUS
  <1>5. QED
    BY <1>2, <1>3, <1>4

\* g counts f over s, from the front.
CountsUp(g, f, s) ==
    g = [i \in 0 .. Len(s) |-> IF i = 0 THEN 0 ELSE g[i - 1] + f[s[i]]]

\* There is such a count, of natural numbers.
LEMMA CountExists ==
    ASSUME NEW S, NEW f \in [S -> Nat], NEW s \in Seq(S)
    PROVE  \E g \in [0 .. Len(s) -> Nat] : CountsUp(g, f, s)
  <1> DEFINE n == Len(s)
             upto(k, g) == /\ g[0] = 0
                           /\ \A i \in 1 .. k : g[i] = g[i - 1] + f[s[i]]
             there(k) == \E g \in [0 .. k -> Nat] : upto(k, g)
             I == {k \in Nat : k <= n => there(k)}
  <1>0. n \in Nat /\ \A i \in 1 .. n : f[s[i]] \in Nat
    BY LenProperties, ElementOfSeq
  <1> HIDE DEF n
  <1>1. 0 \in I
    <2> DEFINE g == [i \in 0 .. 0 |-> 0]
    <2>1. g \in [0 .. 0 -> Nat] /\ upto(0, g)
      OBVIOUS
    <2>2. QED
      BY <2>1
  <1>2. ASSUME NEW k \in Nat, k \in I PROVE k + 1 \in I
    <2> SUFFICES ASSUME k + 1 <= n
                 PROVE  \E g \in [0 .. k + 1 -> Nat] : upto(k + 1, g)
      OBVIOUS
    <2>0. there(k)
      <3> HIDE DEF there
      <3>1. k <= n
        BY <1>0
      <3>2. QED
        BY <1>2, <3>1
    <2>1. PICK g \in [0 .. k -> Nat] : upto(k, g)
      BY <2>0
    <2> DEFINE h == [i \in 0 .. k + 1 |->
                        IF i = k + 1 THEN g[k] + f[s[k + 1]] ELSE g[i]]
    <2>2. f[s[k + 1]] \in Nat /\ g[k] \in Nat
      BY <1>0
    <2>3. h \in [0 .. k + 1 -> Nat]
      BY <2>2
    <2>4. h[0] = 0
      BY <2>1
    <2>5. ASSUME NEW i \in 1 .. k + 1 PROVE h[i] = h[i - 1] + f[s[i]]
      <3>1. CASE i = k + 1
        <4>1. h[k + 1] = g[k] + f[s[k + 1]] /\ h[k] = g[k] /\ (k + 1) - 1 = k
          OBVIOUS
        <4>2. QED
          BY <3>1, <4>1
      <3>2. CASE i # k + 1
        <4>1. i \in 1 .. k /\ i - 1 \in 0 .. k
          BY <3>2
        <4>2. h[i] = g[i] /\ h[i - 1] = g[i - 1]
          BY <4>1
        <4>3. QED
          BY <2>1, <4>1, <4>2
      <3>3. QED
        BY <3>1, <3>2
    <2> HIDE DEF h
    <2>6. upto(k + 1, h)
      BY <2>4, <2>5
    <2> HIDE DEF upto
    <2>7. QED
      BY <2>3, <2>6
  <1>3. \A k \in Nat : k \in I
    <2> HIDE DEF I
    <2>1. QED
      BY <1>1, <1>2, SetInduction
  <1>4. PICK g \in [0 .. n -> Nat] : upto(n, g)
    <2>1. there(n)
      <3> HIDE DEF there
      <3>1. QED
        BY <1>0, <1>3
    <2>2. QED
      BY <2>1
  <1>5. g = [i \in 0 .. n |-> IF i = 0 THEN 0 ELSE g[i - 1] + f[s[i]]]
    BY <1>0, <1>4
  <1>6. QED
    BY <1>5 DEF CountsUp, n

\* Induction up to n.
LEMMA InductionUpTo ==
    ASSUME NEW n \in Nat, NEW J, 0 \in J, \A i \in 1 .. n : i - 1 \in J => i \in J
    PROVE  \A i \in 0 .. n : i \in J
  <1> DEFINE I == {k \in Nat : k <= n => k \in J}
  <1>1. 0 \in I
    OBVIOUS
  <1>2. ASSUME NEW k \in Nat, k \in I PROVE k + 1 \in I
    <2> SUFFICES ASSUME k + 1 <= n PROVE k + 1 \in J
      OBVIOUS
    <2>1. k <= n /\ k + 1 \in 1 .. n /\ (k + 1) - 1 = k
      OBVIOUS
    <2>2. k \in J
      BY <1>2, <2>1
    <2>3. QED
      BY <2>1, <2>2
  <1>3. \A k \in Nat : k \in I
    <2> HIDE DEF I
    <2>1. QED
      BY <1>1, <1>2, SetInduction
  <1>4. QED
    BY <1>3

\* Total is the end of a count.
LEMMA TotalIs ==
    ASSUME NEW S, NEW f \in [S -> Nat], NEW s \in Seq(S)
    PROVE  \E g \in [0 .. Len(s) -> Nat] :
               /\ g[0] = 0
               /\ \A i \in 1 .. Len(s) : g[i] = g[i - 1] + f[s[i]]
               /\ Total(f, s) = g[Len(s)]
  <1> DEFINE n == Len(s)
             upto[i \in 0 .. Len(s)] ==
                 IF i = 0 THEN 0 ELSE upto[i - 1] + f[s[i]]
  <1>0. n \in Nat
    BY LenProperties
  <1>1. upto = CHOOSE g : CountsUp(g, f, s)
    BY DEF CountsUp
  <1>2. PICK h \in [0 .. Len(s) -> Nat] : CountsUp(h, f, s)
    BY CountExists
  <1>3. Total(f, s) = upto[Len(s)]
    BY DEF Total
  <1> HIDE DEF upto
  <1>4. CountsUp(upto, f, s)
    BY <1>1, <1>2
  <1> HIDE DEF n
  <1>5. /\ DOMAIN upto = 0 .. n /\ upto[0] = 0
        /\ \A i \in 1 .. n : upto[i] = upto[i - 1] + f[s[i]]
    BY <1>0, <1>4 DEF CountsUp, n
  <1>6. /\ h \in [0 .. n -> Nat] /\ h[0] = 0
        /\ \A i \in 1 .. n : h[i] = h[i - 1] + f[s[i]]
    <2>1. h = [i \in 0 .. n |-> IF i = 0 THEN 0 ELSE h[i - 1] + f[s[i]]]
      BY <1>2 DEF CountsUp, n
    <2>2. h \in [0 .. n -> Nat]
      BY <1>2 DEF n
    <2>3. 0 \in 0 .. n /\ \A i \in 1 .. n : i \in 0 .. n /\ i # 0
      BY <1>0
    <2>4. h[0] = 0
      BY <2>1, <2>3
    <2>5. \A i \in 1 .. n : h[i] = h[i - 1] + f[s[i]]
      BY <2>1, <2>3
    <2>6. QED
      BY <2>2, <2>4, <2>5
  <1>7. \A i \in 0 .. n : h[i] = upto[i]
    <2>1. h[0] = upto[0]
      BY <1>5, <1>6
    <2>2. \A i \in 1 .. n : h[i - 1] = upto[i - 1] => h[i] = upto[i]
      BY <1>5, <1>6
    <2> DEFINE J == {i \in 0 .. n : h[i] = upto[i]}
    <2>11. 0 \in J
      BY <1>0, <2>1
    <2>12. \A i \in 1 .. n : i - 1 \in J => i \in J
      BY <1>0, <2>2
    <2> HIDE DEF J
    <2>13. \A i \in 0 .. n : i \in J
      BY <1>0, <2>11, <2>12, InductionUpTo
    <2>14. QED
      BY <2>13 DEF J
  <1>8. h[n] = upto[n]
    BY <1>0, <1>7
  <1>9. QED
    BY <1>3, <1>6, <1>8 DEF n

\* Nothing has a total of zero.
LEMMA TotalEmpty ==
    ASSUME NEW S, NEW f \in [S -> Nat]
    PROVE  Total(f, <<>>) = 0
  <1>1. <<>> \in Seq(S) /\ Len(<<>>) = 0
    OBVIOUS
  <1>2. PICK g \in [0 .. Len(<<>>) -> Nat] :
            /\ g[0] = 0
            /\ \A i \in 1 .. Len(<<>>) : g[i] = g[i - 1] + f[<<>>[i]]
            /\ Total(f, <<>>) = g[Len(<<>>)]
    BY <1>1, TotalIs
  <1>3. QED
    BY <1>1, <1>2

\* A total is a natural number, no less than the total of a part.
LEMMA TotalConcat ==
    ASSUME NEW S, NEW f \in [S -> Nat], NEW s \in Seq(S), NEW t \in Seq(S)
    PROVE  /\ Total(f, s) \in Nat
           /\ Total(f, t) \in Nat
           /\ Total(f, s \o t) = Total(f, s) + Total(f, t)
  <1> DEFINE m == Len(s)
             n == Len(t)
             r == s \o t
  <1>1. /\ r \in Seq(S)
        /\ Len(r) = m + n
        /\ \A i \in 1 .. m + n : r[i] = IF i <= m THEN s[i] ELSE t[i - m]
    BY ConcatProperties
  <1>2. m \in Nat /\ n \in Nat
    BY LenProperties
  <1>3. PICK g \in [0 .. m -> Nat] :
            /\ g[0] = 0 /\ \A i \in 1 .. m : g[i] = g[i - 1] + f[s[i]]
            /\ Total(f, s) = g[m]
    BY TotalIs
  <1>4. PICK h \in [0 .. n -> Nat] :
            /\ h[0] = 0 /\ \A i \in 1 .. n : h[i] = h[i - 1] + f[t[i]]
            /\ Total(f, t) = h[n]
    BY TotalIs
  <1> HIDE DEF m, n, r
  <1>5. PICK u \in [0 .. m + n -> Nat] :
            /\ u[0] = 0 /\ \A i \in 1 .. m + n : u[i] = u[i - 1] + f[r[i]]
            /\ Total(f, r) = u[m + n]
    <2>1. \E u \in [0 .. Len(r) -> Nat] :
              /\ u[0] = 0 /\ \A i \in 1 .. Len(r) : u[i] = u[i - 1] + f[r[i]]
              /\ Total(f, r) = u[Len(r)]
      BY <1>1, TotalIs
    <2>2. QED
      BY <1>1, <2>1
  <1>6. \A i \in 0 .. m : u[i] = g[i]
    <2>1. ASSUME NEW i \in 1 .. m, u[i - 1] = g[i - 1] PROVE u[i] = g[i]
      <3>1. i \in 1 .. m + n /\ i <= m
        BY <1>2
      <3>2. u[i] = u[i - 1] + f[s[i]]
        BY <1>1, <1>5, <3>1
      <3>3. QED
        BY <1>3, <2>1, <3>2
    <2>2. u[0] = g[0]
      BY <1>3, <1>5
    <2>3. \A i \in 1 .. m : u[i - 1] = g[i - 1] => u[i] = g[i]
      BY <2>1
    <2> DEFINE J == {i \in 0 .. m : u[i] = g[i]}
    <2>11. 0 \in J
      BY <1>2, <2>2
    <2>12. \A i \in 1 .. m : i - 1 \in J => i \in J
      BY <1>2, <2>3
    <2> HIDE DEF J
    <2>13. \A i \in 0 .. m : i \in J
      BY <1>2, <2>11, <2>12, InductionUpTo
    <2>14. QED
      BY <2>13 DEF J
  <1>7. u[m] = g[m]
    BY <1>2, <1>6
  <1> DEFINE v == [i \in 0 .. n |-> u[m + i]]
             w == [i \in 0 .. n |-> g[m] + h[i]]
  <1>8. v[0] = w[0]
    BY <1>2, <1>3, <1>4, <1>7
  <1>9. ASSUME NEW i \in 1 .. n, v[i - 1] = w[i - 1] PROVE v[i] = w[i]
    <2>1. /\ m + i \in 1 .. m + n /\ ~(m + i <= m) /\ (m + i) - m = i
          /\ (m + i) - 1 = m + (i - 1) /\ i - 1 \in 0 .. n /\ i \in 0 .. n
      BY <1>2
    <2>2. u[m + i] = u[m + (i - 1)] + f[t[i]]
      BY <1>1, <1>5, <2>1
    <2>3. u[m + (i - 1)] = g[m] + h[i - 1]
      BY <1>9, <2>1
    <2>4. h[i] = h[i - 1] + f[t[i]]
      BY <1>4
    <2>5. t[i] \in S
      BY <2>1, ElementOfSeq DEF n
    <2>6. f[t[i]] \in Nat /\ g[m] \in Nat /\ h[i - 1] \in Nat
      BY <1>2, <2>1, <2>5
    <2>7. u[m + i] = g[m] + h[i]
      BY <2>2, <2>3, <2>4, <2>6
    <2>8. QED
      BY <2>1, <2>7
  <1>10. \A i \in 0 .. n : v[i] = w[i]
    <2> HIDE DEF v, w
    <2>1. \A i \in 1 .. n : v[i - 1] = w[i - 1] => v[i] = w[i]
      BY <1>9
    <2> DEFINE J == {i \in 0 .. n : v[i] = w[i]}
    <2>11. 0 \in J
      BY <1>2, <1>8
    <2>12. \A i \in 1 .. n : i - 1 \in J => i \in J
      BY <1>2, <2>1
    <2> HIDE DEF J
    <2>13. \A i \in 0 .. n : i \in J
      BY <1>2, <2>11, <2>12, InductionUpTo
    <2>14. QED
      BY <2>13 DEF J
  <1>11. u[m + n] = g[m] + h[n]
    BY <1>2, <1>10
  <1>12. g[m] \in Nat /\ h[n] \in Nat
    BY <1>2
  <1>13. QED
    BY <1>3, <1>4, <1>5, <1>11, <1>12 DEF r

\* The total of one.
LEMMA TotalOne ==
    ASSUME NEW S, NEW f \in [S -> Nat], NEW x \in S
    PROVE  Total(f, <<x>>) = f[x]
  <1>1. <<x>> \in Seq(S) /\ Len(<<x>>) = 1 /\ <<x>>[1] = x /\ f[x] \in Nat
    OBVIOUS
  <1>2. PICK g \in [0 .. 1 -> Nat] :
            /\ g[0] = 0 /\ \A i \in 1 .. 1 : g[i] = g[i - 1] + f[<<x>>[i]]
            /\ Total(f, <<x>>) = g[1]
    BY <1>1, TotalIs
  <1>3. g[1] = g[0] + f[x]
    <2>1. 1 \in 1 .. 1 /\ 1 - 1 = 0
      OBVIOUS
    <2>2. QED
      BY <1>1, <1>2, <2>1
  <1>4. QED
    BY <1>1, <1>2, <1>3

\* The total after one more.
LEMMA TotalAppend ==
    ASSUME NEW S, NEW f \in [S -> Nat], NEW s \in Seq(S), NEW x \in S
    PROVE  /\ Total(f, s) \in Nat
           /\ Total(f, Append(s, x)) = Total(f, s) + f[x]
  <1>1. Append(s, x) = s \o <<x>> /\ <<x>> \in Seq(S)
    BY AppendIsConcat
  <1>2. Total(f, s) \in Nat /\ Total(f, s \o <<x>>) = Total(f, s) + Total(f, <<x>>)
    BY <1>1, TotalConcat
  <1>3. Total(f, <<x>>) = f[x]
    BY TotalOne
  <1>4. QED
    BY <1>1, <1>2, <1>3

\* One more of the first elements.
LEMMA PrefixGrows ==
    ASSUME NEW S, NEW s \in Seq(S), NEW i \in 1 .. Len(s)
    PROVE  /\ SubSeq(s, 1, i - 1) \in Seq(S)
           /\ s[i] \in S
           /\ SubSeq(s, 1, i) = Append(SubSeq(s, 1, i - 1), s[i])
  <1> DEFINE a == SubSeq(s, 1, i - 1)
             b == SubSeq(s, 1, i)
             c == Append(a, s[i])
  <1>0. Len(s) \in Nat /\ s[i] \in S
    BY LenProperties, ElementOfSeq
  <1>1. /\ 1 \in Nat /\ i - 1 \in Nat /\ i \in Nat /\ 1 <= 1
        /\ 1 <= (i - 1) + 1 /\ i - 1 <= Len(s) /\ 1 <= i + 1 /\ i <= Len(s)
        /\ (i - 1) - 1 + 1 = i - 1 /\ i - 1 + 1 = i
    BY <1>0
  <1>2. /\ a \in Seq(S) /\ Len(a) = i - 1
        /\ \A j \in 1 .. i - 1 : a[j] = s[1 + j - 1]
    BY <1>1, Piece
  <1>3. /\ b \in Seq(S) /\ Len(b) = i
        /\ \A j \in 1 .. i : b[j] = s[1 + j - 1]
    BY <1>1, Piece
  <1> HIDE DEF a, b
  <1>4. /\ c \in Seq(S) /\ Len(c) = i
        /\ \A j \in 1 .. i - 1 : c[j] = a[j]
        /\ c[i] = s[i]
    BY <1>0, <1>1, <1>2, AppendProperties
  <1> HIDE DEF c
  <1>5. ASSUME NEW j \in 1 .. i PROVE b[j] = c[j]
    <2>1. 1 + j - 1 = j /\ (j = i \/ j \in 1 .. i - 1)
      BY <1>1
    <2>2. b[j] = s[j]
      BY <1>3, <2>1
    <2>3. CASE j = i
      BY <1>4, <2>2, <2>3
    <2>4. CASE j \in 1 .. i - 1
      BY <1>2, <1>4, <2>1, <2>2, <2>4
    <2>5. QED
      BY <2>1, <2>3, <2>4
  <1>6. b = c
    BY <1>3, <1>4, <1>5, SeqEqual
  <1>7. QED
    BY <1>0, <1>2, <1>6 DEF a, b, c

\* The first elements and the others.
LEMMA CutInTwo ==
    ASSUME NEW S, NEW s \in Seq(S), NEW k \in 0 .. Len(s)
    PROVE  /\ SubSeq(s, 1, k) \in Seq(S)
           /\ SubSeq(s, k + 1, Len(s)) \in Seq(S)
           /\ s = SubSeq(s, 1, k) \o SubSeq(s, k + 1, Len(s))
  <1> DEFINE n == Len(s)
             a == SubSeq(s, 1, k)
             b == SubSeq(s, k + 1, n)
             c == a \o b
  <1>0. n \in Nat
    BY LenProperties
  <1>1. /\ 1 \in Nat /\ k \in Nat /\ k + 1 \in Nat /\ 1 <= 1 /\ 1 <= k + 1
        /\ k <= n /\ k + 1 <= n + 1 /\ n <= n /\ n - (k + 1) + 1 = n - k
        /\ k - 1 + 1 = k
    BY <1>0
  <1>2. /\ a \in Seq(S) /\ Len(a) = k
        /\ \A j \in 1 .. k : a[j] = s[1 + j - 1]
    BY <1>1, Piece
  <1>3. /\ b \in Seq(S) /\ Len(b) = n - k
        /\ \A j \in 1 .. n - k : b[j] = s[(k + 1) + j - 1]
    <2>0. ASSUME NEW x \in Nat, 1 <= x, x <= n + 1
          PROVE  /\ SubSeq(s, x, n) \in Seq(S)
                 /\ Len(SubSeq(s, x, n)) = n - x + 1
                 /\ \A j \in 1 .. n - x + 1 : SubSeq(s, x, n)[j] = s[x + j - 1]
      BY <1>0, <1>1, <2>0, Piece
    <2> HIDE DEF n
    <2>1. /\ b \in Seq(S) /\ Len(b) = n - (k + 1) + 1
          /\ \A j \in 1 .. n - (k + 1) + 1 : b[j] = s[(k + 1) + j - 1]
      BY <1>0, <1>1, <2>0
    <2> HIDE DEF b
    <2>2. QED
      BY <1>1, <2>1
  <1> HIDE DEF a, b
  <1>4. /\ c \in Seq(S) /\ Len(c) = n
        /\ \A j \in 1 .. n : c[j] = IF j <= k THEN a[j] ELSE b[j - k]
    <2>1. /\ c \in Seq(S) /\ Len(c) = Len(a) + Len(b)
          /\ \A j \in 1 .. Len(a) + Len(b) :
                c[j] = IF j <= Len(a) THEN a[j] ELSE b[j - Len(a)]
      BY <1>2, <1>3, ConcatProperties
    <2>2. Len(a) + Len(b) = n
      BY <1>0, <1>1, <1>2, <1>3
    <2>3. QED
      BY <1>2, <2>1, <2>2
  <1> HIDE DEF c, n
  <1>5. ASSUME NEW j \in 1 .. n PROVE s[j] = c[j]
    <2>1. CASE j <= k
      <3>1. j \in 1 .. k /\ 1 + j - 1 = j
        BY <1>0, <2>1
      <3>2. QED
        BY <1>2, <1>4, <2>1, <3>1
    <2>2. CASE ~(j <= k)
      <3>1. j - k \in 1 .. n - k /\ (k + 1) + (j - k) - 1 = j
        BY <1>0, <1>1, <2>2
      <3>2. QED
        BY <1>3, <1>4, <2>2, <3>1
    <2>3. QED
      BY <2>1, <2>2
  <1>6. s = c
    BY <1>4, <1>5, SeqEqual DEF n
  <1>7. QED
    BY <1>2, <1>3, <1>6 DEF a, b, c, n

\* The total of the first elements is part of the whole.
LEMMA TotalPrefix ==
    ASSUME NEW S, NEW f \in [S -> Nat], NEW s \in Seq(S), NEW k \in 0 .. Len(s)
    PROVE  /\ Total(f, SubSeq(s, 1, k)) \in Nat
           /\ Total(f, SubSeq(s, k + 1, Len(s))) \in Nat
           /\ Total(f, s) = Total(f, SubSeq(s, 1, k))
                            + Total(f, SubSeq(s, k + 1, Len(s)))
           /\ Total(f, SubSeq(s, 1, k)) <= Total(f, s)
  <1> DEFINE a == SubSeq(s, 1, k)
             b == SubSeq(s, k + 1, Len(s))
  <1>1. a \in Seq(S) /\ b \in Seq(S) /\ s = a \o b
    BY CutInTwo
  <1> HIDE DEF a, b
  <1>2. /\ Total(f, a) \in Nat /\ Total(f, b) \in Nat
        /\ Total(f, a \o b) = Total(f, a) + Total(f, b)
    BY <1>1, TotalConcat
  <1>3. Total(f, s) = Total(f, a) + Total(f, b)
    BY <1>1, <1>2
  <1>4. Total(f, a) <= Total(f, s)
    BY <1>2, <1>3
  <1>5. QED
    BY <1>2, <1>3, <1>4 DEF a, b

\* The total of all but the last.
LEMMA TotalFront ==
    ASSUME NEW S, NEW f \in [S -> Nat], NEW s \in Seq(S), s # <<>>
    PROVE  /\ Total(f, Front(s)) \in Nat
           /\ Total(f, s) \in Nat
           /\ Total(f, Front(s)) <= Total(f, s)
  <1>1. Len(s) \in Nat /\ Len(s) - 1 \in 0 .. Len(s)
    BY EmptySeq, LenProperties
  <1>2. Front(s) = SubSeq(s, 1, Len(s) - 1)
    BY DEF Front
  <1>3. /\ Total(f, SubSeq(s, 1, Len(s) - 1)) \in Nat
        /\ Total(f, SubSeq(s, 1, Len(s) - 1)) <= Total(f, s)
    BY <1>1, TotalPrefix
  <1>4. Total(f, s) \in Nat
    BY TotalConcat
  <1>5. QED
    BY <1>2, <1>3, <1>4

\* The total of all but one.
LEMMA TotalRemove ==
    ASSUME NEW S, NEW f \in [S -> Nat], NEW s \in Seq(S), NEW i \in 1 .. Len(s)
    PROVE  /\ Total(f, RemoveAt(s, i)) \in Nat
           /\ f[s[i]] \in Nat
           /\ Total(f, s) = Total(f, RemoveAt(s, i)) + f[s[i]]
  <1> DEFINE a == SubSeq(s, 1, i - 1)
             b == SubSeq(s, i + 1, Len(s))
  <1>1. Len(s) \in Nat /\ i \in 0 .. Len(s) /\ i - 1 \in 0 .. Len(s)
    BY LenProperties
  <1>2. a \in Seq(S) /\ s[i] \in S /\ SubSeq(s, 1, i) = Append(a, s[i])
    BY PrefixGrows
  <1>3. /\ b \in Seq(S) /\ Total(f, b) \in Nat
        /\ Total(f, s) = Total(f, SubSeq(s, 1, i)) + Total(f, b)
    BY <1>1, CutInTwo, TotalPrefix
  <1>4. RemoveAt(s, i) = a \o b
    BY DEF RemoveAt
  <1> HIDE DEF a, b
  <1>5. Total(f, a) \in Nat /\ Total(f, Append(a, s[i])) = Total(f, a) + f[s[i]]
    BY <1>2, TotalAppend
  <1>6. Total(f, a \o b) = Total(f, a) + Total(f, b)
    BY <1>2, <1>3, TotalConcat
  <1>7. f[s[i]] \in Nat
    BY <1>2
  <1>8. Total(f, RemoveAt(s, i)) = Total(f, a) + Total(f, b)
    BY <1>4, <1>6
  <1>9. Total(f, s) = (Total(f, a) + f[s[i]]) + Total(f, b)
    BY <1>2, <1>3, <1>5
  <1>10. QED
    BY <1>3, <1>5, <1>7, <1>8, <1>9

\* The total of the first and of the others.
LEMMA TotalTail ==
    ASSUME NEW S, NEW f \in [S -> Nat], NEW s \in Seq(S), s # <<>>
    PROVE  /\ Total(f, Tail(s)) \in Nat
           /\ f[Head(s)] \in Nat
           /\ Total(f, s) = f[Head(s)] + Total(f, Tail(s))
  <1> DEFINE h == Head(s)
             t == Tail(s)
  <1>1. h \in S /\ t \in Seq(S) /\ s = <<h>> \o t
    <2> DEFINE r == <<h>> \o t
    <2>1. /\ t \in Seq(S) /\ Len(t) = Len(s) - 1 /\ Len(s) \in Nat
          /\ h = s[1] /\ h \in S /\ \A i \in 1 .. Len(t) : t[i] = s[i + 1]
      BY HeadTailProperties, LenProperties
    <2> HIDE DEF h, t
    <2>2. <<h>> \in Seq(S) /\ Len(<<h>>) = 1 /\ <<h>>[1] = h
      BY <2>1
    <2>3. /\ r \in Seq(S) /\ Len(r) = 1 + Len(t)
          /\ \A i \in 1 .. 1 + Len(t) :
                r[i] = IF i <= 1 THEN <<h>>[i] ELSE t[i - 1]
      BY <2>1, <2>2, ConcatProperties
    <2> HIDE DEF r
    <2>4. ASSUME NEW i \in 1 .. Len(s) PROVE s[i] = r[i]
      <3>1. CASE i = 1
        BY <2>1, <2>2, <2>3, <3>1
      <3>2. CASE i # 1
        <4>1. /\ i - 1 \in 1 .. Len(t) /\ (i - 1) + 1 = i /\ ~(i <= 1)
              /\ i \in 1 .. 1 + Len(t)
          BY <2>1, <3>2
        <4>2. QED
          BY <2>1, <2>3, <4>1
      <3>3. QED
        BY <3>1, <3>2
    <2>5. Len(r) = Len(s)
      BY <2>1, <2>3
    <2>6. s = r
      BY <2>3, <2>4, <2>5, SeqEqual
    <2>7. QED
      BY <2>1, <2>6 DEF r
  <1> HIDE DEF h, t
  <1>2. /\ Total(f, t) \in Nat
        /\ Total(f, <<h>> \o t) = Total(f, <<h>>) + Total(f, t)
    <2>1. <<h>> \in Seq(S)
      BY <1>1
    <2>2. QED
      BY <1>1, <2>1, TotalConcat
  <1>3. Total(f, <<h>>) = f[h] /\ f[h] \in Nat
    BY <1>1, TotalOne
  <1>4. QED
    BY <1>1, <1>2, <1>3 DEF h, t
=============================================================================
