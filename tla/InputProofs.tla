---------------------------- MODULE InputProofs -----------------------------
(***************************************************************************)
(* Theorems about input, for any events, keys and sizes of the queues: the *)
(* driver's buffers agree, its array is two queues, and what a program     *)
(* takes for pressed is pressed, with either library, but for the ways an  *)
(* event may miss it.                                                      *)
(***************************************************************************)
EXTENDS InputQueue, Keys, SequenceTheorems, WellFoundedInduction, TLAPS

-----------------------------------------------------------------------------
(* What stays of a sequence of events (Only).  Its recursion is over the   *)
(* places of the sequence, and so is the induction.                        *)

\* Induction up to n.
LEMMA UpTo ==
    ASSUME NEW n \in Nat, NEW P, 0 \in P, \A i \in 0..(n - 1) : i \in P => i + 1 \in P
    PROVE  \A i \in 0..n : i \in P
  <1>. SUFFICES ASSUME \E i \in 0..n : i \notin P PROVE FALSE
    OBVIOUS
  <1>. DEFINE Bad == (0..n) \ P
  <1>1. Bad \subseteq Nat /\ Bad # {}
    OBVIOUS
  <1>2. PICK x \in Bad : \A y \in Bad : ~(<<y, x>> \in OpToRel(<, Nat))
    BY <1>1, NatLessThanWellFounded, WFMin
  <1>. HIDE DEF Bad
  <1>3. \A y \in Bad : ~(y < x)
    BY <1>1, <1>2, Zenon DEF OpToRel
  <1>4. x \in 0..n /\ x \notin P
    BY DEF Bad
  <1>5. x # 0
    BY <1>4
  <1>6. x - 1 \in 0..(n - 1) /\ x - 1 < x /\ x - 1 + 1 = x
    BY <1>4, <1>5
  <1>7. x - 1 \in P
    BY <1>3, <1>6 DEF Bad
  <1>. QED
    BY <1>4, <1>6, <1>7

\* One step of Only's recursion.
OnlyStep(f, s, K, i) ==
    IF i = 0 THEN <<>>
    ELSE IF s[i] \in K THEN Append(f[i - 1], s[i]) ELSE f[i - 1]

\* The recursion of Only defines a function, and Only is its last value.
LEMMA OnlyIs ==
    ASSUME NEW s \in Seq(Event), NEW K
    PROVE  \E f : /\ f = [i \in 0..Len(s) |-> OnlyStep(f, s, K, i)]
                  /\ Only(s, K) = f[Len(s)]
  <1>. DEFINE n == Len(s)
              P == {m \in 0..n : \E f : f = [i \in 0..m |-> OnlyStep(f, s, K, i)]}
  <1>1. n \in Nat
    OBVIOUS
  <1>2. 0 \in P
    <2>. DEFINE f == [i \in 0..0 |-> <<>>]
    <2>1. f = [i \in 0..0 |-> OnlyStep(f, s, K, i)]
      BY DEF OnlyStep
    <2>. QED
      BY <1>1, <2>1
  <1>3. ASSUME NEW m \in 0..(n - 1), m \in P
        PROVE  m + 1 \in P
    <2>1. PICK f : f = [i \in 0..m |-> OnlyStep(f, s, K, i)]
      BY <1>3
    <2>. DEFINE g == [i \in 0..(m + 1) |-> OnlyStep(f, s, K, i)]
    <2>2. \A i \in 0..m : g[i] = f[i]
      BY <2>1
    <2>3. \A i \in 0..(m + 1) : i # 0 => i - 1 \in 0..m
      BY <1>1
    <2>4. \A i \in 0..(m + 1) : OnlyStep(g, s, K, i) = OnlyStep(f, s, K, i)
      <3>. HIDE DEF g
      <3>. QED
        BY <2>2, <2>3 DEF OnlyStep
    <2>5. g = [i \in 0..(m + 1) |-> OnlyStep(g, s, K, i)]
      BY <2>4
    <2>6. m + 1 \in 0..n
      BY <1>1
    <2>. QED
      BY <2>5, <2>6
  <1>. HIDE DEF P
  <1>4. n \in P
    <2>1. \A i \in 0..n : i \in P
      BY <1>1, <1>2, <1>3, UpTo
    <2>. QED
      BY <1>1, <2>1
  <1>5. \E f : f = [i \in 0..n |-> OnlyStep(f, s, K, i)]
    BY <1>4 DEF P
  <1>6. \E f : f = [i \in 0..n |-> IF i = 0 THEN <<>>
                                   ELSE IF s[i] \in K THEN Append(f[i - 1], s[i]) ELSE f[i - 1]]
    BY <1>5 DEF OnlyStep
  <1>. DEFINE g == CHOOSE f : f = [i \in 0..n |-> IF i = 0 THEN <<>>
                                   ELSE IF s[i] \in K THEN Append(f[i - 1], s[i]) ELSE f[i - 1]]
  <1>7. Only(s, K) = g[n]
    BY DEF Only
  <1>8. g = [i \in 0..n |-> IF i = 0 THEN <<>>
                            ELSE IF s[i] \in K THEN Append(g[i - 1], s[i]) ELSE g[i - 1]]
    BY <1>6
  <1>. HIDE DEF g
  <1>9. g = [i \in 0..n |-> OnlyStep(g, s, K, i)]
    BY <1>8 DEF OnlyStep
  <1>. QED
    BY <1>7, <1>9


\* Induction along a sequence.
LEMMA Along ==
    ASSUME NEW S, NEW P, <<>> \in P,
           \A s \in Seq(S), e \in S : s \in P => Append(s, e) \in P
    PROVE  \A s \in Seq(S) : s \in P
  <1>. SUFFICES ASSUME NEW s \in Seq(S) PROVE s \in P
    OBVIOUS
  <1>. DEFINE n == Len(s)
              Q == {i \in 0..n : SubSeq(s, 1, i) \in P}
  <1>1. n \in Nat
    OBVIOUS
  <1>2. 0 \in Q
    <2>1. SubSeq(s, 1, 0) = <<>>
      BY SubSeqEmpty
    <2>2. 0 \in 0..n
      BY <1>1
    <2>. QED
      BY <2>1, <2>2, Zenon
  <1>3. ASSUME NEW i \in 0..(n - 1), i \in Q
        PROVE  i + 1 \in Q
    <2>1. i + 1 \in 1..n /\ 1 \in 1..n /\ i + 1 - 1 = i
      BY <1>1
    <2>2. SubSeq(s, 1, i + 1) = SubSeq(s, 1, i) \o <<s[i + 1]>>
      BY <2>1, SubSeqRecursiveSecond
    <2>3. SubSeq(s, 1, i) \in Seq(S) /\ s[i + 1] \in S
      BY <1>1, <2>1
    <2>4. SubSeq(s, 1, i + 1) = Append(SubSeq(s, 1, i), s[i + 1])
      BY <2>2, <2>3, AppendIsConcat
    <2>5. SubSeq(s, 1, i) \in P
      BY <1>3
    <2>6. Append(SubSeq(s, 1, i), s[i + 1]) \in P
      BY <2>3, <2>5, Zenon
    <2>7. i + 1 \in 0..n
      BY <1>1
    <2>. QED
      BY <2>4, <2>6, <2>7, Zenon
  <1>. HIDE DEF Q
  <1>4. \A i \in 0..n : i \in Q
    BY <1>1, <1>2, <1>3, UpTo
  <1>5. SubSeq(s, 1, n) = s
    BY SubSeqFull
  <1>6. n \in Q
    BY <1>1, <1>4
  <1>7. SubSeq(s, 1, n) \in P
    BY <1>6, Zenon DEF Q
  <1>. QED
    BY <1>5, <1>7, Zenon

\* What stays of a sequence with one event more.
LEMMA OnlyAppend ==
    ASSUME NEW s \in Seq(Event), NEW e \in Event, NEW K
    PROVE  Only(Append(s, e), K) = IF e \in K THEN Append(Only(s, K), e) ELSE Only(s, K)
  <1>. DEFINE n == Len(s)
              t == Append(s, e)
  <1>1. n \in Nat /\ t \in Seq(Event) /\ Len(t) = n + 1 /\ t[n + 1] = e
        /\ \A i \in 1..n : t[i] = s[i]
    BY AppendProperties
  <1>. HIDE DEF t
  <1>2. PICK f : f = [i \in 0..n |-> OnlyStep(f, s, K, i)] /\ Only(s, K) = f[n]
    BY OnlyIs
  <1>3. PICK g : g = [i \in 0..(n + 1) |-> OnlyStep(g, t, K, i)] /\ Only(t, K) = g[n + 1]
    <2>1. \E g : /\ g = [i \in 0..Len(t) |-> OnlyStep(g, t, K, i)]
                 /\ Only(t, K) = g[Len(t)]
      BY <1>1, OnlyIs, Zenon
    <2>. QED
      BY <1>1, <2>1, Zenon
  <1>. DEFINE P == {i \in 0..n : f[i] = g[i]}
  <1>4. \A i \in 0..n : f[i] = OnlyStep(f, s, K, i)
    BY <1>2
  <1>5. \A i \in 0..(n + 1) : g[i] = OnlyStep(g, t, K, i)
    BY <1>3
  <1>6. 0 \in P
    BY <1>1, <1>4, <1>5 DEF OnlyStep
  <1>7. ASSUME NEW i \in 0..(n - 1), i \in P
        PROVE  i + 1 \in P
    <2>1. i + 1 \in 1..n /\ i + 1 - 1 = i /\ i + 1 # 0 /\ i + 1 \in 0..n /\ i + 1 \in 0..(n + 1)
      BY <1>1
    <2>2. f[i] = g[i] /\ s[i + 1] = t[i + 1]
      BY <1>1, <1>7, <2>1
    <2>3. f[i + 1] = OnlyStep(f, s, K, i + 1) /\ g[i + 1] = OnlyStep(g, t, K, i + 1)
      BY <1>4, <1>5, <2>1
    <2>4. OnlyStep(f, s, K, i + 1) = OnlyStep(g, t, K, i + 1)
      BY <2>1, <2>2 DEF OnlyStep
    <2>. QED
      BY <2>1, <2>3, <2>4
  <1>. HIDE DEF P
  <1>8. f[n] = g[n]
    <2>1. \A i \in 0..n : i \in P
      BY <1>1, <1>6, <1>7, UpTo
    <2>. QED
      BY <1>1, <2>1 DEF P
  <1>9. n + 1 \in 0..(n + 1) /\ n + 1 # 0 /\ n + 1 - 1 = n
    BY <1>1
  <1>10. g[n + 1] = IF e \in K THEN Append(g[n], e) ELSE g[n]
    BY <1>1, <1>5, <1>9 DEF OnlyStep
  <1>. QED
    BY <1>2, <1>3, <1>8, <1>10 DEF t

\* Nothing stays of nothing.
LEMMA OnlyEmpty == \A K : Only(<<>>, K) = <<>>
  <1>. SUFFICES ASSUME NEW K PROVE Only(<<>>, K) = <<>>
    OBVIOUS
  <1>1. <<>> \in Seq(Event) /\ Len(<<>>) = 0
    BY EmptySeq
  <1>2. PICK f : f = [i \in 0..0 |-> OnlyStep(f, <<>>, K, i)] /\ Only(<<>>, K) = f[0]
    BY <1>1, OnlyIs
  <1>3. f[0] = OnlyStep(f, <<>>, K, 0)
    BY <1>2
  <1>. QED
    BY <1>2, <1>3 DEF OnlyStep

\* What stays is some of what was there.
LEMMA OnlyType ==
    ASSUME NEW T, T \subseteq Event, NEW K
    PROVE  \A s \in Seq(T) : Only(s, K) \in Seq(T \cap K) /\ Len(Only(s, K)) <= Len(s)
  <1>. DEFINE P == {s \in Seq(T) : Only(s, K) \in Seq(T \cap K) /\ Len(Only(s, K)) <= Len(s)}
  <1>1. <<>> \in P
    <2>1. Only(<<>>, K) = <<>>
      BY OnlyEmpty, Zenon
    <2>2. <<>> \in Seq(T) /\ <<>> \in Seq(T \cap K) /\ Len(<<>>) <= Len(<<>>)
      OBVIOUS
    <2>. QED
      BY <2>1, <2>2, Zenon
  <1>2. ASSUME NEW s \in Seq(T), NEW e \in T, s \in P
        PROVE  Append(s, e) \in P
    <2>1. s \in Seq(Event) /\ e \in Event
      <3>1. s \in Seq(Event)
        BY SeqMonotonic
      <3>. QED
        BY <3>1
    <2>2. Only(Append(s, e), K) = IF e \in K THEN Append(Only(s, K), e) ELSE Only(s, K)
      BY <2>1, OnlyAppend
    <2>3. Append(s, e) \in Seq(T) /\ Len(Append(s, e)) = Len(s) + 1 /\ Len(s) \in Nat
      BY AppendProperties
    <2>4. Only(s, K) \in Seq(T \cap K) /\ Len(Only(s, K)) <= Len(s) /\ Len(Only(s, K)) \in Nat
      BY <1>2
    <2>5. CASE e \in K
      <3>1. /\ Append(Only(s, K), e) \in Seq(T \cap K)
            /\ Len(Append(Only(s, K), e)) = Len(Only(s, K)) + 1
        BY <2>4, <2>5, AppendProperties
      <3>2. Len(Append(Only(s, K), e)) <= Len(Append(s, e))
        BY <2>3, <2>4, <3>1
      <3>. QED
        BY <2>2, <2>3, <2>5, <3>1, <3>2
    <2>6. CASE e \notin K
      <3>1. Len(Only(s, K)) <= Len(Append(s, e))
        BY <2>3, <2>4
      <3>. QED
        BY <2>2, <2>3, <2>4, <2>6, <3>1
    <2>. QED
      BY <2>5, <2>6
  <1>. HIDE DEF P
  <1>3. \A s \in Seq(T) : s \in P
    BY <1>1, <1>2, Along
  <1>. QED
    BY <1>3 DEF P

\* What stays of two sequences, one behind the other.
LEMMA OnlyConcat ==
    ASSUME NEW s \in Seq(Event), NEW K
    PROVE  \A t \in Seq(Event) : Only(s \o t, K) = Only(s, K) \o Only(t, K)
  <1>. DEFINE P == {t \in Seq(Event) : Only(s \o t, K) = Only(s, K) \o Only(t, K)}
  <1>1. \A t \in Seq(Event) : Only(t, K) \in Seq(Event)
    <2>1. \A t \in Seq(Event) : Only(t, K) \in Seq(Event \cap K)
      BY OnlyType
    <2>2. \A t \in Seq(Event \cap K) : t \in Seq(Event)
      BY SeqMonotonic
    <2>. QED
      BY <2>1, <2>2
  <1>2. <<>> \in P
    <2>1. s \o <<>> = s /\ Only(s, K) \o <<>> = Only(s, K)
      BY <1>1, ConcatEmptySeq
    <2>2. Only(<<>>, K) = <<>> /\ <<>> \in Seq(Event)
      BY OnlyEmpty
    <2>. QED
      BY <2>1, <2>2, Zenon
  <1>3. ASSUME NEW t \in Seq(Event), NEW e \in Event, t \in P
        PROVE  Append(t, e) \in P
    <2>. DEFINE a == Only(s, K)
                b == Only(t, K)
    <2>1. a \in Seq(Event) /\ b \in Seq(Event) /\ Append(t, e) \in Seq(Event)
          /\ s \o t \in Seq(Event)
      BY <1>1, AppendProperties, ConcatProperties
    <2>2. ASSUME NEW x \in Seq(Event), NEW y \in Seq(Event)
          PROVE  x \o Append(y, e) = Append(x \o y, e)
      <3>1. <<e>> \in Seq(Event) /\ x \o y \in Seq(Event)
        BY ConcatProperties
      <3>2. Append(y, e) = y \o <<e>> /\ Append(x \o y, e) = (x \o y) \o <<e>>
        BY <3>1, AppendIsConcat
      <3>3. (x \o y) \o <<e>> = x \o (y \o <<e>>)
        BY <3>1, ConcatAssociative
      <3>. QED
        BY <3>2, <3>3
    <2>3. Only(s \o t, K) = a \o b
      BY <1>3
    <2>. HIDE DEF a, b
    <2>4. Only(s \o Append(t, e), K) = IF e \in K THEN Append(a \o b, e) ELSE a \o b
      <3>1. s \o Append(t, e) = Append(s \o t, e)
        BY <2>2
      <3>2. Only(Append(s \o t, e), K) =
              IF e \in K THEN Append(Only(s \o t, K), e) ELSE Only(s \o t, K)
        BY <2>1, OnlyAppend
      <3>. QED
        BY <2>3, <3>1, <3>2
    <2>5. Only(Append(t, e), K) = IF e \in K THEN Append(b, e) ELSE b
      BY OnlyAppend DEF b
    <2>6. Append(a \o b, e) = a \o Append(b, e)
      BY <2>1, <2>2
    <2>. QED
      BY <2>1, <2>4, <2>5, <2>6 DEF a, b
  <1>. HIDE DEF P
  <1>4. \A t \in Seq(Event) : t \in P
    BY <1>2, <1>3, Along
  <1>. QED
    BY <1>4 DEF P

\* Of what stays, what is of a kind that stays.
LEMMA OnlyTwice ==
    ASSUME NEW K, NEW C, C \subseteq K
    PROVE  \A s \in Seq(Event) : Only(Only(s, K), C) = Only(s, C)
  <1>. DEFINE P == {s \in Seq(Event) : Only(Only(s, K), C) = Only(s, C)}
  <1>1. <<>> \in P
    BY OnlyEmpty
  <1>2. ASSUME NEW s \in Seq(Event), NEW e \in Event, s \in P
        PROVE  Append(s, e) \in P
    <2>. DEFINE b == Only(s, K)
    <2>1. b \in Seq(Event) /\ Append(s, e) \in Seq(Event)
      <3>1. b \in Seq(Event \cap K)
        BY OnlyType
      <3>2. b \in Seq(Event)
        BY <3>1, SeqMonotonic
      <3>. QED
        BY <3>2, AppendProperties
    <2>2. Only(Append(s, e), K) = IF e \in K THEN Append(b, e) ELSE b
      BY OnlyAppend
    <2>3. Only(Append(s, e), C) = IF e \in C THEN Append(Only(s, C), e) ELSE Only(s, C)
      BY OnlyAppend
    <2>4. Only(b, C) = Only(s, C)
      BY <1>2
    <2>. HIDE DEF b
    <2>5. Only(Append(b, e), C) = IF e \in C THEN Append(Only(b, C), e) ELSE Only(b, C)
      BY <2>1, OnlyAppend
    <2>. QED
      BY <2>1, <2>2, <2>3, <2>4, <2>5
  <1>. HIDE DEF P
  <1>3. \A s \in Seq(Event) : s \in P
    BY <1>1, <1>2, Along
  <1>. QED
    BY <1>3 DEF P

\* Nothing stays of a kind that is not there.
LEMMA OnlyNone ==
    ASSUME NEW T, T \subseteq Event, NEW C, T \cap C = {}
    PROVE  \A s \in Seq(T) : Only(s, C) = <<>>
  <1>. SUFFICES ASSUME NEW s \in Seq(T) PROVE Only(s, C) = <<>>
    OBVIOUS
  <1>1. Only(s, C) \in Seq(T \cap C)
    BY OnlyType
  <1>2. Only(s, C) \in Seq({})
    BY <1>1
  <1>. QED
    BY <1>2

\* Three kinds that share out the events share out a sequence.
LEMMA OnlyShares ==
    ASSUME NEW A, NEW B, NEW C,
           \A e \in Event : \/ e \in A /\ e \notin B /\ e \notin C
                            \/ e \notin A /\ e \in B /\ e \notin C
                            \/ e \notin A /\ e \notin B /\ e \in C
    PROVE  \A s \in Seq(Event) : Len(Only(s, A)) + Len(Only(s, B)) + Len(Only(s, C)) = Len(s)
  <1>. DEFINE P == {s \in Seq(Event) :
                        Len(Only(s, A)) + Len(Only(s, B)) + Len(Only(s, C)) = Len(s)}
  <1>1. <<>> \in P
    BY OnlyEmpty
  <1>2. ASSUME NEW s \in Seq(Event), NEW e \in Event, s \in P
        PROVE  Append(s, e) \in P
    <2>1. ASSUME NEW K
          PROVE  /\ Len(Only(s, K)) \in Nat
                 /\ Len(Only(Append(s, e), K)) =
                        IF e \in K THEN Len(Only(s, K)) + 1 ELSE Len(Only(s, K))
      <3>1. Only(s, K) \in Seq(Event)
        <4>1. Only(s, K) \in Seq(Event \cap K)
          BY OnlyType
        <4>. QED
          BY <4>1, SeqMonotonic
      <3>2. Len(Append(Only(s, K), e)) = Len(Only(s, K)) + 1
        BY <3>1, AppendProperties
      <3>. QED
        BY <3>1, <3>2, OnlyAppend
    <2>2. Append(s, e) \in Seq(Event) /\ Len(Append(s, e)) = Len(s) + 1
      BY AppendProperties
    <2>3. Len(Only(s, A)) + Len(Only(s, B)) + Len(Only(s, C)) = Len(s)
      BY <1>2
    <2>. DEFINE a == Len(Only(s, A))
                b == Len(Only(s, B))
                c == Len(Only(s, C))
    <2>4. a \in Nat /\ b \in Nat /\ c \in Nat /\ Len(s) \in Nat
      BY <2>1
    <2>5. /\ Len(Only(Append(s, e), A)) = IF e \in A THEN a + 1 ELSE a
          /\ Len(Only(Append(s, e), B)) = IF e \in B THEN b + 1 ELSE b
          /\ Len(Only(Append(s, e), C)) = IF e \in C THEN c + 1 ELSE c
      BY <2>1
    <2>6. a + b + c = Len(s)
      BY <2>3
    <2>. HIDE DEF a, b, c
    <2>7. Len(Only(Append(s, e), A)) + Len(Only(Append(s, e), B))
              + Len(Only(Append(s, e), C)) = Len(s) + 1
      BY <2>4, <2>5, <2>6
    <2>. QED
      BY <2>2, <2>7
  <1>. HIDE DEF P
  <1>3. \A s \in Seq(Event) : s \in P
    BY <1>1, <1>2, Along
  <1>. QED
    BY <1>3 DEF P


-----------------------------------------------------------------------------
(* The driver's buffers.                                                   *)

\* A look at the used ring that ends with an empty one is not over before the
\* acknowledgement, and only that takes the interrupt away.
LookSeen ==
    /\ poll = "ack" /\ ~unseen => used = <<>>
    /\ poll # "idle" => irq

InputInv == TypeOK /\ SilentOnlyAfterAck /\ LookSeen

\* Sizes, for the provers.
LEMMA InputSizes ==
    /\ Usable \in Nat \ {0} /\ NumDesc \in Nat \ {0} /\ 1 \in Procs
    /\ ClassOf \in [Event -> {"key", "pointer", "sync", "other"}]
  BY InputAssumption DEF Usable

\* Taking events out of the array leaves events and no more of them.
LEMMA ReadUntilKeeps ==
    ASSUME NEW s \in Seq(Event), NEW cut \in 0..Len(s), NEW pid, NEW foc
    PROVE  /\ read_until(s, cut, pid, foc) \in Seq(Event)
           /\ Len(read_until(s, cut, pid, foc)) <= Len(s)
  <1>. DEFINE a == SubSeq(s, 1, cut)
              b == SubSeq(s, cut + 1, Len(s))
              K == {e \in Event : ~takes(pid, foc, e)}
  <1>1. /\ Len(s) \in Nat /\ a \in Seq(Event) /\ b \in Seq(Event)
        /\ Len(a) = cut /\ Len(b) = Len(s) - cut
    <2>1. Len(s) \in Nat
      OBVIOUS
    <2>2. \A i \in 1..Len(s) : s[i] \in Event
      OBVIOUS
    <2>3. \A i \in 1..cut : s[i] \in Event
      BY <2>1, <2>2
    <2>4. \A i \in (cut + 1)..Len(s) : s[i] \in Event
      BY <2>1, <2>2
    <2>5. a \in Seq(Event) /\ Len(a) = cut
      BY <2>1, <2>3, SubSeqProperties
    <2>6. b \in Seq(Event) /\ Len(b) = Len(s) - cut
      <3>1. /\ b \in Seq(Event)
            /\ Len(b) = IF cut + 1 <= Len(s) THEN Len(s) - (cut + 1) + 1 ELSE 0
        BY <2>1, <2>4, SubSeqProperties
      <3>. QED
        BY <2>1, <3>1
    <2>. QED
      BY <2>1, <2>5, <2>6
  <1>. HIDE DEF a, b, K
  <1>2. Only(a, K) \in Seq(Event) /\ Len(Only(a, K)) <= Len(a)
    <2>1. Only(a, K) \in Seq(Event \cap K) /\ Len(Only(a, K)) <= Len(a)
      BY <1>1, OnlyType
    <2>. QED
      BY <2>1, SeqMonotonic
  <1>3. read_until(s, cut, pid, foc) = Only(a, K) \o b
    BY DEF read_until, a, b, K
  <1>4. Only(a, K) \o b \in Seq(Event) /\ Len(Only(a, K) \o b) = Len(Only(a, K)) + Len(b)
    BY <1>1, <1>2, ConcatProperties
  <1>5. Len(Only(a, K)) \in Nat
    BY <1>2
  <1>. QED
    BY <1>1, <1>2, <1>3, <1>4, <1>5

\* The first of some places.
LEMMA FirstPlace ==
    ASSUME NEW S, S \subseteq Nat, S # {}
    PROVE  Min(S) \in S /\ \A y \in S : Min(S) <= y
  <1>1. PICK x \in S : \A y \in S : ~(<<y, x>> \in OpToRel(<, Nat))
    BY NatLessThanWellFounded, WFMin
  <1>2. \A y \in S : ~(y < x)
    BY <1>1, Zenon DEF OpToRel
  <1>3. \A y \in S : x <= y
    BY <1>2
  <1>. QED
    BY <1>3, Zenon DEF Min

\* The array after a read: up to the first event the process gets, which is none of
\* those it only skips.
LEMMA ReadIs ==
    ASSUME TypeOK, NEW pid, read_events_device(pid)
    PROVE  \E foc \in Procs, cut \in 0..Len(q) :
               /\ q' = read_until(q, cut, pid, foc) /\ focus' = foc
               /\ \A i \in 1..(cut - 1) : ~(takes(pid, foc, q[i]) /\ ClassOf[q[i]] # "sync")
               /\ \/ cut > 0 /\ takes(pid, foc, q[cut]) /\ ClassOf[q[cut]] # "sync"
                  \/ cut = Len(q) /\ \A i \in 1..cut :
                         ~(takes(pid, foc, q[i]) /\ ClassOf[q[i]] # "sync")
  <1>. DEFINE foc == input_focus_current
              hits == {i \in DOMAIN q : takes(pid, foc, q[i]) /\ ClassOf[q[i]] # "sync"}
              cut == IF hits = {} THEN Len(q) ELSE Min(hits)
  <1>1. q' = read_until(q, cut, pid, foc) /\ focus' = foc
    BY DEF read_events_device
  <1>2. Len(q) \in Nat /\ DOMAIN q = 1..Len(q)
    BY DEF TypeOK
  <1>3. foc \in Procs
    BY InputSizes DEF TypeOK, input_focus_current, Desktop
  <1>. HIDE DEF foc
  <1>4. \A i : i \in hits <=> i \in 1..Len(q) /\ takes(pid, foc, q[i]) /\ ClassOf[q[i]] # "sync"
    BY <1>2
  <1>. HIDE DEF hits
  <1>5. CASE hits = {}
    <2>1. cut = Len(q) /\ cut \in 0..Len(q)
      BY <1>2, <1>5
    <2>2. \A i \in 1..cut : ~(takes(pid, foc, q[i]) /\ ClassOf[q[i]] # "sync")
      BY <1>4, <1>5, <2>1
    <2>. HIDE DEF cut
    <2>3. \A i \in 1..(cut - 1) : i \in 1..cut
      BY <1>2, <2>1
    <2>. QED
      BY <1>1, <1>3, <2>1, <2>2, <2>3
  <1>6. CASE hits # {}
    <2>1. hits \subseteq Nat
      BY <1>2, <1>4
    <2>2. cut \in hits /\ \A i \in hits : cut <= i
      BY <1>6, <2>1, FirstPlace
    <2>. HIDE DEF cut
    <2>3. cut \in 1..Len(q) /\ takes(pid, foc, q[cut]) /\ ClassOf[q[cut]] # "sync"
      BY <1>4, <2>2
    <2>4. ASSUME NEW i \in 1..(cut - 1)
          PROVE  ~(takes(pid, foc, q[i]) /\ ClassOf[q[i]] # "sync")
      <3>1. i \in 1..Len(q) /\ ~(cut <= i)
        BY <1>2, <2>3
      <3>2. i \notin hits
        BY <2>2, <3>1
      <3>. QED
        BY <1>4, <3>1, <3>2
    <2>5. cut \in 0..Len(q) /\ cut > 0
      BY <1>2, <2>3
    <2>. QED
      BY <1>1, <1>3, <2>3, <2>4, <2>5
  <1>. QED
    BY <1>5, <1>6

\* The invariant holds at the start.
LEMMA InputInvInit == Init => InputInv
  <1>. SUFFICES ASSUME Init PROVE InputInv
    OBVIOUS
  <1>1. /\ NumDesc \in 0..NumDesc /\ <<>> \in Seq(Event) /\ Len(<<>>) = 0
        /\ Len(<<>>) + NumDesc = NumDesc /\ Len(<<>>) <= Usable
    BY InputSizes
  <1>2. /\ q = <<>> /\ posted = NumDesc /\ used = <<>> /\ irq = FALSE /\ poll = "idle"
        /\ live = {1} /\ focus = 1 /\ unseen = FALSE
    BY DEF Init, Desktop
  <1>3. q \in Seq(Event) /\ Len(q) <= Usable
    BY <1>1, <1>2
  <1>4. posted \in 0..NumDesc /\ used \in Seq(Event) /\ Len(used) + posted = NumDesc
    BY <1>1, <1>2
  <1>5. live \subseteq Procs /\ Desktop \in live /\ focus \in Procs
    BY <1>2, InputSizes DEF Desktop
  <1>6. TypeOK
    BY <1>2, <1>3, <1>4, <1>5 DEF TypeOK
  <1>. QED
    BY <1>2, <1>6 DEF InputInv, SilentOnlyAfterAck, LookSeen

\* A turn of the driver's loop.
LEMMA PollKeeps ==
    ASSUME InputInv, input_poll_one
    PROVE  InputInv'
  <1>. USE DEF InputInv
  <1>1. /\ poll = "drain" /\ UNCHANGED <<irq, live, focus, unseen>>
        /\ q \in Seq(Event) /\ Len(q) <= Usable /\ used \in Seq(Event)
        /\ posted \in 0..NumDesc /\ Len(used) + posted = NumDesc /\ irq
    BY DEF input_poll_one, TypeOK, LookSeen
  <1>2. CASE used = <<>>
    <2>1. poll' = "ack" /\ UNCHANGED <<q, used, posted>>
      BY <1>2 DEF input_poll_one
    <2>. QED
      BY <1>1, <1>2, <2>1 DEF TypeOK, SilentOnlyAfterAck, LookSeen
  <1>3. CASE used # <<>>
    <2>1. /\ enqueue_event(Head(used)) /\ used' = Tail(used) /\ posted' = posted + 1
          /\ poll' = poll
      BY <1>3 DEF input_poll_one
    <2>2. /\ Head(used) \in Event /\ Tail(used) \in Seq(Event)
          /\ Len(Tail(used)) = Len(used) - 1 /\ Len(used) \in Nat \ {0}
      BY <1>1, <1>3, EmptySeq, HeadTailProperties
    <2>3. q' \in Seq(Event) /\ Len(q') <= Usable
      <3>1. CASE Len(q) = Usable
        BY <1>1, <2>1, <3>1 DEF enqueue_event
      <3>2. CASE Len(q) # Usable
        <4>1. /\ Append(q, Head(used)) \in Seq(Event)
              /\ Len(Append(q, Head(used))) = Len(q) + 1 /\ Len(q) \in Nat
          BY <1>1, <2>2, AppendProperties
        <4>2. Len(q) + 1 <= Usable
          BY <1>1, <3>2, <4>1, InputSizes
        <4>. QED
          BY <2>1, <3>2, <4>1, <4>2 DEF enqueue_event
      <3>. QED
        BY <3>1, <3>2
    <2>4. posted' \in 0..NumDesc /\ Len(used') + posted' = NumDesc
      BY <1>1, <2>1, <2>2, InputSizes, SMTT(30)
    <2>. QED
      BY <1>1, <2>1, <2>2, <2>3, <2>4 DEF TypeOK, SilentOnlyAfterAck, LookSeen
  <1>. QED
    BY <1>2, <1>3

\* The device fills a buffer.
LEMMA DeviceKeeps ==
    ASSUME InputInv, NEW e \in Event, device_event(e)
    PROVE  InputInv'
  <1>. USE DEF InputInv
  <1>1. /\ used \in Seq(Event) /\ Len(used) \in Nat /\ posted \in 0..NumDesc
        /\ Len(used) + posted = NumDesc /\ posted > 0
    BY DEF device_event, TypeOK
  <1>2. Append(used, e) \in Seq(Event) /\ Len(Append(used, e)) = Len(used) + 1
    BY <1>1, AppendProperties
  <1>3. posted - 1 \in 0..NumDesc /\ Len(used) + 1 + (posted - 1) = NumDesc
    BY <1>1, InputSizes
  <1>. QED
    BY <1>2, <1>3 DEF device_event, TypeOK, SilentOnlyAfterAck, LookSeen

\* Every step keeps the invariant.
LEMMA InputInvStep == InputInv /\ [Next]_vars => InputInv'
  <1>. SUFFICES ASSUME InputInv, [Next]_vars PROVE InputInv'
    OBVIOUS
  <1>. USE DEF InputInv
  <1>1. ASSUME NEW e \in Event, device_event(e) PROVE InputInv'
    BY <1>1, DeviceKeeps
  <1>2. CASE virtio_input_handle_irq
    BY <1>2 DEF virtio_input_handle_irq, TypeOK, SilentOnlyAfterAck, LookSeen
  <1>3. CASE input_poll_one
    BY <1>3, PollKeeps
  <1>4. CASE virtio_ack_interrupt
    BY <1>4 DEF virtio_ack_interrupt, TypeOK, SilentOnlyAfterAck, LookSeen
  <1>5. ASSUME NEW pid \in Procs, read_events_device(pid) PROVE InputInv'
    <2>1. UNCHANGED <<posted, used, irq, poll, unseen, live>>
      BY <1>5 DEF read_events_device, device
    <2>2. PICK foc \in Procs, cut \in 0..Len(q) :
              q' = read_until(q, cut, pid, foc) /\ focus' = foc
      BY <1>5, ReadIs
    <2>3. q' \in Seq(Event) /\ Len(q') <= Len(q)
      BY <2>2, ReadUntilKeeps DEF TypeOK
    <2>4. Len(q') <= Usable
      <3>1. Len(q') \in Nat /\ Len(q) \in Nat /\ Len(q) <= Usable
        BY <2>3 DEF TypeOK
      <3>. QED
        BY <2>3, <3>1, InputSizes
    <2>. QED
      BY <2>1, <2>2, <2>3, <2>4 DEF TypeOK, SilentOnlyAfterAck, LookSeen
  <1>6. ASSUME \/ current_has_input_focus
               \/ \E pid \in Procs : input_focus_set(pid) \/ proc_starts(pid) \/ proc_ends(pid)
        PROVE  InputInv'
    <2>1. UNCHANGED <<q, posted, used, irq, poll, unseen>>
      BY <1>6 DEF current_has_input_focus, input_focus_set, proc_starts, proc_ends, device
    <2>2. live' \subseteq Procs /\ Desktop \in live' /\ focus' \in Procs
      BY <1>6, InputSizes
      DEF current_has_input_focus, input_focus_set, proc_starts, proc_ends, TypeOK,
          input_focus_current, Desktop
    <2>. QED
      BY <2>1, <2>2 DEF TypeOK, SilentOnlyAfterAck, LookSeen
  <1>7. CASE UNCHANGED vars
    BY <1>7 DEF vars, TypeOK, SilentOnlyAfterAck, LookSeen
  <1>. QED
    BY <1>1, <1>2, <1>3, <1>4, <1>5, <1>6, <1>7 DEF Next

\* Every buffer of the device is posted or used, the array keeps a slot free, and
\* events wait unannounced only through the race with the acknowledgement
\* (input_poll_one, virtio_ack_interrupt).
THEOREM BuffersAlwaysConsistent == Spec => []BuffersConsistent
  <1>1. InputInv => BuffersConsistent
    BY DEF InputInv, BuffersConsistent
  <1>. QED
    BY <1>1, InputInvInit, InputInvStep, PTL DEF Spec


-----------------------------------------------------------------------------
(* The array is the queues of EventQueues.                                 *)

\* The events of some classes.
Kind(classes) == {e \in Event : ClassOf[e] \in classes}

KeyKind == Kind({"key"})
PointerKind == Kind({"pointer", "sync"})
OtherKind == Kind({"other"})

\* Events a process does not only skip.
Skipped(pid, foc) == {e \in Event : ~(takes(pid, foc, e) /\ ClassOf[e] # "sync")}

\* Events a read by process pid leaves in the array.
Staying(pid, foc) == {e \in Event : ~takes(pid, foc, e)}

\* What is behind the first of two sequences is the second.
LEMMA Behind ==
    ASSUME NEW S, NEW s \in Seq(S), NEW t \in Seq(S)
    PROVE  SubSeq(s \o t, Len(s) + 1, Len(s \o t)) = t
  <1>. DEFINE m == Len(s)
              n == Len(t)
              u == SubSeq(s \o t, m + 1, m + n)
  <1>1. /\ m \in Nat /\ n \in Nat /\ Len(s \o t) = m + n /\ s \o t \in Seq(S)
        /\ \A i \in 1..(m + n) : (s \o t)[i] = IF i <= m THEN s[i] ELSE t[i - m]
    BY ConcatProperties
  <1>2. \A i \in (m + 1)..(m + n) : (s \o t)[i] \in S
    <2>1. \A i \in (m + 1)..(m + n) : i \in 1..Len(s \o t)
      BY <1>1
    <2>. QED
      BY <1>1, <2>1, ElementOfSeq
  <1>3. /\ u \in Seq(S) /\ Len(u) = n
        /\ \A i \in 1..n : u[i] = (s \o t)[m + i]
    <2>1. m + 1 \in Int /\ m + n \in Int /\ m + n - (m + 1) + 1 = n
      BY <1>1
    <2>2. /\ u \in Seq(S) /\ Len(u) = IF m + 1 <= m + n THEN m + n - (m + 1) + 1 ELSE 0
          /\ \A i \in 1..(m + n - (m + 1) + 1) : u[i] = (s \o t)[m + 1 + i - 1]
      BY <1>2, <2>1, SubSeqProperties
    <2>. QED
      BY <1>1, <2>1, <2>2
  <1>. HIDE DEF u
  <1>4. \A i \in 1..n : u[i] = t[i]
    <2>. SUFFICES ASSUME NEW i \in 1..n PROVE u[i] = t[i]
      OBVIOUS
    <2>1. m + i \in 1..(m + n) /\ ~(m + i <= m) /\ m + i - m = i
      BY <1>1
    <2>. QED
      BY <1>1, <1>3, <2>1
  <1>5. u = t
    BY <1>3, <1>4, SeqEqual
  <1>. QED
    BY <1>1, <1>5 DEF u

\* A read splits the array: what is behind the cut stays, what is before it is skipped
\* or, at the cut, read.
LEMMA ReadSplits ==
    ASSUME TypeOK, NEW pid, read_events_device(pid)
    PROVE  \E foc \in Procs, before \in Seq(Event), behind \in Seq(Event) :
               /\ q = before \o behind
               /\ q' = Only(before, {e \in Event : ~takes(pid, foc, e)}) \o behind
               /\ \/ before \in Seq(Skipped(pid, foc))
                  \/ \E s \in Seq(Skipped(pid, foc)), e \in Event \ Skipped(pid, foc) :
                         before = Append(s, e)
  <1>1. PICK foc \in Procs, cut \in 0..Len(q) :
               /\ q' = read_until(q, cut, pid, foc)
               /\ \A i \in 1..(cut - 1) : ~(takes(pid, foc, q[i]) /\ ClassOf[q[i]] # "sync")
               /\ \/ cut > 0 /\ takes(pid, foc, q[cut]) /\ ClassOf[q[cut]] # "sync"
                  \/ cut = Len(q) /\ \A i \in 1..cut :
                         ~(takes(pid, foc, q[i]) /\ ClassOf[q[i]] # "sync")
    BY ReadIs
  <1>. DEFINE T == Skipped(pid, foc)
              before == SubSeq(q, 1, cut)
              behind == SubSeq(q, cut + 1, Len(q))
  <1>2. Len(q) \in Nat /\ q \in Seq(Event) /\ \A i \in 1..Len(q) : q[i] \in Event
    BY DEF TypeOK
  <1>3. before \in Seq(Event) /\ behind \in Seq(Event)
    <2>1. (\A i \in 1..cut : q[i] \in Event) /\ (\A i \in (cut + 1)..Len(q) : q[i] \in Event)
      BY <1>2
    <2>. QED
      BY <1>2, <2>1, SubSeqProperties
  <1>4. q = before \o behind
    <2>1. 1 \in 1..(Len(q) + 1) /\ cut \in (1 - 1)..Len(q) /\ Len(q) \in cut..Len(q)
      BY <1>2
    <2>2. before \o behind = SubSeq(q, 1, Len(q))
      BY <1>2, <2>1, ConcatAdjacentSubSeq
    <2>. QED
      BY <1>2, <2>2, SubSeqFull
  <1>5. q' = Only(before, {e \in Event : ~takes(pid, foc, e)}) \o behind
    BY <1>1 DEF read_until
  <1>6. CASE cut = Len(q) /\ \A i \in 1..cut :
                 ~(takes(pid, foc, q[i]) /\ ClassOf[q[i]] # "sync")
    <2>1. \A i \in 1..cut : q[i] \in T
      BY <1>2, <1>6 DEF Skipped
    <2>2. before \in Seq(T)
      BY <1>2, <2>1, SubSeqProperties
    <2>. HIDE DEF T, before, behind
    <2>. QED
      BY <1>3, <1>4, <1>5, <2>2 DEF T
  <1>7. CASE cut > 0 /\ takes(pid, foc, q[cut]) /\ ClassOf[q[cut]] # "sync"
    <2>. DEFINE s == SubSeq(q, 1, cut - 1)
    <2>1. cut \in 1..Len(q) /\ cut - 1 \in Int /\ 1 \in 1..Len(q) /\ cut \in 1..Len(q)
      BY <1>2, <1>7
    <2>2. \A i \in 1..(cut - 1) : q[i] \in T
      BY <1>1, <1>2, <2>1 DEF Skipped
    <2>3. s \in Seq(T)
      BY <2>1, <2>2, SubSeqProperties
    <2>4. s \in Seq(Event)
      <3>1. T \subseteq Event
        BY DEF Skipped
      <3>. QED
        BY <2>3, <3>1, SeqMonotonic
    <2>5. q[cut] \in Event \ T
      BY <1>2, <1>7, <2>1 DEF Skipped
    <2>6. before = Append(s, q[cut])
      <3>1. before = s \o <<q[cut]>>
        BY <1>2, <2>1, SubSeqRecursiveSecond
      <3>. QED
        BY <2>4, <2>5, <3>1, AppendIsConcat
    <2>. HIDE DEF T, before, behind, s
    <2>. QED
      BY <1>3, <1>4, <1>5, <2>3, <2>5, <2>6 DEF T
  <1>. QED
    BY <1>1, <1>6, <1>7

\* A queue of EventQueues before and after a read, for a kind of events that all stay
\* or are all taken.
LEMMA KindRead ==
    ASSUME NEW before \in Seq(Event), NEW behind \in Seq(Event), NEW K, NEW C
    PROVE  /\ Only(before, C) \in Seq(Event) /\ Only(behind, C) \in Seq(Event)
           /\ Only(before \o behind, C) = Only(before, C) \o Only(behind, C)
           /\ C \subseteq K =>
                Only(Only(before, K) \o behind, C) = Only(before \o behind, C)
           /\ C \cap K = {} => Only(Only(before, K) \o behind, C) = Only(behind, C)
  <1>. DEFINE stay == Only(before, K)
  <1>1. ASSUME NEW s \in Seq(Event), NEW L
        PROVE  Only(s, L) \in Seq(Event)
    <2>1. Only(s, L) \in Seq(Event \cap L)
      BY OnlyType
    <2>. QED
      BY <2>1, SeqMonotonic
  <1>2. Only(before \o behind, C) = Only(before, C) \o Only(behind, C)
    BY OnlyConcat
  <1>3. Only(stay \o behind, C) = Only(stay, C) \o Only(behind, C)
    <2>1. stay \in Seq(Event)
      BY <1>1
    <2>. HIDE DEF stay
    <2>. QED
      BY <2>1, OnlyConcat
  <1>4. C \subseteq K => Only(stay, C) = Only(before, C)
    BY OnlyTwice
  <1>5. ASSUME C \cap K = {}
        PROVE  Only(stay \o behind, C) = Only(behind, C)
    <2>1. stay \in Seq(Event \cap K) /\ Event \cap K \subseteq Event /\ Event \cap K \cap C = {}
      BY <1>5, OnlyType
    <2>2. Only(stay, C) = <<>>
      <3>. HIDE DEF stay
      <3>. QED
        BY <2>1, OnlyNone
    <2>3. Only(behind, C) \in Seq(Event)
      BY <1>1
    <2>4. <<>> \o Only(behind, C) = Only(behind, C)
      BY <2>3, ConcatEmptySeq
    <2>. QED
      BY <1>3, <2>2, <2>4
  <1>. QED
    BY <1>1, <1>2, <1>3, <1>4, <1>5


\* What is skipped holds none of the keys the reader gets, and no pointer event the
\* desktop gets but frame marks.
LEMMA SkippedIs ==
    ASSUME NEW pid, NEW foc, NEW s \in Seq(Skipped(pid, foc))
    PROVE  /\ s \in Seq(Event)
           /\ pid = foc => Only(s, KeyKind) = <<>>
           /\ pid = Desktop =>
                /\ Only(s, PointerKind) \in Seq(Event)
                /\ \A i \in 1..Len(Only(s, PointerKind)) :
                       ClassOf[Only(s, PointerKind)[i]] = "sync"
  <1>. DEFINE T == Skipped(pid, foc)
  <1>1. T \subseteq Event
    BY DEF Skipped
  <1>2. s \in Seq(Event)
    BY <1>1, SeqMonotonic
  <1>3. ASSUME pid = foc
        PROVE  Only(s, KeyKind) = <<>>
    <2>1. T \cap KeyKind = {}
      BY <1>3 DEF Skipped, KeyKind, Kind, takes
    <2>. HIDE DEF T
    <2>. QED
      BY <1>1, <2>1, OnlyNone DEF T
  <1>4. ASSUME pid = Desktop
        PROVE  /\ Only(s, PointerKind) \in Seq(Event)
               /\ \A i \in 1..Len(Only(s, PointerKind)) :
                      ClassOf[Only(s, PointerKind)[i]] = "sync"
    <2>1. \A e \in T \cap PointerKind : ClassOf[e] = "sync"
      BY <1>4 DEF Skipped, PointerKind, Kind, takes
    <2>2. Only(s, PointerKind) \in Seq(T \cap PointerKind)
      <3>. HIDE DEF T
      <3>. QED
        BY <1>1, OnlyType DEF T
    <2>. DEFINE p == Only(s, PointerKind)
                U == T \cap PointerKind
    <2>3. U \subseteq Event
      BY <1>1
    <2>. HIDE DEF p, U
    <2>4. p \in Seq(U)
      BY <2>2 DEF p, U
    <2>5. p \in Seq(Event)
      BY <2>3, <2>4, SeqMonotonic
    <2>6. \A i \in 1..Len(p) : p[i] \in U
      BY <2>4, ElementOfSeq
    <2>. QED
      BY <2>1, <2>5, <2>6 DEF p, U
  <1>. QED
    BY <1>2, <1>3, <1>4

\* A read of the array is a read of the queues: at most one event is handed out, a
\* key or a pointer event, and only frame marks are skipped before it.
LEMMA ReadRefines ==
    ASSUME TypeOK, NEW pid, read_events_device(pid)
    PROVE  Queues!Read
  <1>1. PICK foc \in Procs, before \in Seq(Event), behind \in Seq(Event) :
               /\ q = before \o behind
               /\ q' = Only(before, Staying(pid, foc)) \o behind
               /\ \/ before \in Seq(Skipped(pid, foc))
                  \/ \E s \in Seq(Skipped(pid, foc)), e \in Event \ Skipped(pid, foc) :
                         before = Append(s, e)
    BY ReadSplits DEF Staying
  <1>. DEFINE K == Staying(pid, foc)
              kb == Only(before, KeyKind)
              kr == Only(behind, KeyKind)
              pb == Only(before, PointerKind)
              pr == Only(behind, PointerKind)
              keyq == OfClass({"key"})
              pointerq == OfClass({"pointer", "sync"})
              otherq == OfClass({"other"})
  <1>2. KeyKind \in SUBSET Event /\ PointerKind \in SUBSET Event /\ OtherKind \in SUBSET Event
        /\ K \in SUBSET Event
    BY DEF KeyKind, PointerKind, OtherKind, Kind, Staying
  <1>3. /\ keyq = Only(q, KeyKind) /\ keyq' = Only(q', KeyKind)
        /\ pointerq = Only(q, PointerKind) /\ pointerq' = Only(q', PointerKind)
        /\ otherq = Only(q, OtherKind) /\ otherq' = Only(q', OtherKind)
    BY DEF OfClass, KeyKind, PointerKind, OtherKind, Kind
  <1>4. /\ IF pid = foc THEN KeyKind \cap K = {} ELSE KeyKind \subseteq K
        /\ IF pid = Desktop THEN PointerKind \cap K = {} ELSE PointerKind \subseteq K
        /\ OtherKind \subseteq K
    BY DEF KeyKind, PointerKind, OtherKind, Kind, Staying, takes
  <1>5. q' = Only(before, K) \o behind
    BY <1>1
  <1>. HIDE DEF keyq, pointerq, otherq
  <1>6. /\ kb \in Seq(Event) /\ kr \in Seq(Event) /\ keyq = kb \o kr
        /\ keyq' = IF pid = foc THEN kr ELSE keyq
    <2>1. /\ kb \in Seq(Event) /\ kr \in Seq(Event)
          /\ Only(before \o behind, KeyKind) = kb \o kr
      BY KindRead
    <2>2. KeyKind \subseteq K =>
             Only(Only(before, K) \o behind, KeyKind) = Only(before \o behind, KeyKind)
      BY KindRead
    <2>3. KeyKind \cap K = {} => Only(Only(before, K) \o behind, KeyKind) = kr
      BY KindRead
    <2>. QED
      BY <1>1, <1>3, <1>4, <1>5, <2>1, <2>2, <2>3
  <1>7. /\ pb \in Seq(Event) /\ pr \in Seq(Event) /\ pointerq = pb \o pr
        /\ pointerq' = IF pid = Desktop THEN pr ELSE pointerq
    <2>1. /\ pb \in Seq(Event) /\ pr \in Seq(Event)
          /\ Only(before \o behind, PointerKind) = pb \o pr
      BY KindRead
    <2>2. PointerKind \subseteq K =>
             Only(Only(before, K) \o behind, PointerKind) = Only(before \o behind, PointerKind)
      BY KindRead
    <2>3. PointerKind \cap K = {} => Only(Only(before, K) \o behind, PointerKind) = pr
      BY KindRead
    <2>. QED
      BY <1>1, <1>3, <1>4, <1>5, <2>1, <2>2, <2>3
  <1>8. otherq' = otherq
    <2>1. OtherKind \subseteq K =>
             Only(Only(before, K) \o behind, OtherKind) = Only(before \o behind, OtherKind)
      BY KindRead
    <2>. QED
      BY <1>1, <1>3, <1>4, <1>5, <2>1
  <1>9. /\ pid = foc => kb = <<>> \/ \E e : kb = <<e>>
        /\ pid = Desktop =>
             /\ \A i \in 1..(Len(pb) - 1) : ClassOf[pb[i]] = "sync"
             /\ Len(pb) > 0 /\ ClassOf[pb[Len(pb)]] = "pointer" /\ pid = foc => kb = <<>>
    <2>1. CASE before \in Seq(Skipped(pid, foc))
      <3>1. /\ pid = foc => kb = <<>>
            /\ pid = Desktop =>
                 pb \in Seq(Event) /\ \A i \in 1..Len(pb) : ClassOf[pb[i]] = "sync"
        BY <2>1, SkippedIs
      <3>2. Len(pb) \in Nat
        BY <1>7
      <3>3. \A i \in 1..(Len(pb) - 1) : i \in 1..Len(pb)
        BY <3>2
      <3>. QED
        BY <3>1, <3>3
    <2>2. ASSUME NEW s \in Seq(Skipped(pid, foc)), NEW e \in Event \ Skipped(pid, foc),
                 before = Append(s, e)
          PROVE  /\ pid = foc => kb = <<>> \/ \E d : kb = <<d>>
                 /\ pid = Desktop =>
                      /\ \A i \in 1..(Len(pb) - 1) : ClassOf[pb[i]] = "sync"
                      /\ Len(pb) > 0 /\ ClassOf[pb[Len(pb)]] = "pointer" /\ pid = foc
                             => kb = <<>>
      <3>. DEFINE ks == Only(s, KeyKind)
                  ps == Only(s, PointerKind)
      <3>1. /\ s \in Seq(Event)
            /\ pid = foc => ks = <<>>
            /\ pid = Desktop =>
                 ps \in Seq(Event) /\ \A i \in 1..Len(ps) : ClassOf[ps[i]] = "sync"
        BY SkippedIs
      <3>2. /\ kb = IF e \in KeyKind THEN Append(ks, e) ELSE ks
            /\ pb = IF e \in PointerKind THEN Append(ps, e) ELSE ps
        BY <2>2, <3>1, OnlyAppend
      <3>3. e \in KeyKind => e \notin PointerKind
        BY DEF KeyKind, PointerKind, Kind
      <3>. HIDE DEF ks, ps
      <3>4. pid = foc => kb = <<>> \/ kb = <<e>>
        BY <3>1, <3>2
      <3>5. ASSUME pid = Desktop
            PROVE  /\ \A i \in 1..(Len(pb) - 1) : ClassOf[pb[i]] = "sync"
                   /\ Len(pb) > 0 /\ ClassOf[pb[Len(pb)]] = "pointer" /\ pid = foc
                          => kb = <<>>
        <4>1. ps \in Seq(Event) /\ Len(ps) \in Nat /\ \A i \in 1..Len(ps) : ClassOf[ps[i]] = "sync"
          BY <3>1, <3>5
        <4>2. CASE e \in PointerKind
          <5>1. pb = Append(ps, e) /\ Len(pb) = Len(ps) + 1 /\ \A i \in 1..Len(ps) : pb[i] = ps[i]
            BY <3>2, <4>1, <4>2, AppendProperties
          <5>2. kb = ks
            BY <3>2, <3>3, <4>2
          <5>. HIDE DEF kb, pb
          <5>. QED
            BY <3>1, <4>1, <5>1, <5>2
        <4>3. CASE e \notin PointerKind
          <5>1. pb = ps
            BY <3>2, <4>3
          <5>2. \A i \in 1..(Len(ps) - 1) : i \in 1..Len(ps)
            BY <4>1
          <5>3. Len(ps) > 0 => Len(ps) \in 1..Len(ps)
            BY <4>1
          <5>. HIDE DEF kb, pb
          <5>. QED
            BY <4>1, <5>1, <5>2, <5>3
        <4>. QED
          BY <4>2, <4>3
      <3>. HIDE DEF kb, pb
      <3>. QED
        BY <3>4, <3>5
    <2>. QED
      BY <1>1, <2>1, <2>2
  <1>. HIDE DEF kb, kr, pb, pr
  <1>10. /\ keyq' \in {keyq} \cup (IF keyq # <<>> THEN {Tail(keyq)} ELSE {})
         /\ pid # foc \/ kb = <<>> => keyq' = keyq
    <2>1. CASE pid # foc
      BY <1>6, <2>1
    <2>2. CASE pid = foc /\ kb = <<>>
      BY <1>6, <2>2, ConcatEmptySeq
    <2>3. CASE pid = foc /\ kb # <<>>
      <3>1. PICK e : kb = <<e>>
        BY <1>9, <2>3
      <3>2. e \in Event
        BY <1>6, <3>1
      <3>3. <<e>> \o kr # <<>> /\ Tail(<<e>> \o kr) = kr
        <4>1. <<e>> \in Seq(Event) /\ Len(<<e>>) = 1
          BY <3>2
        <4>2. /\ <<e>> \o kr \in Seq(Event) /\ Len(<<e>> \o kr) = 1 + Len(kr) /\ Len(kr) \in Nat
          BY <1>6, <4>1, ConcatProperties
        <4>3. <<e>> \o kr # <<>>
          BY <4>2
        <4>4. Tail(<<e>> \o kr) = SubSeq(<<e>> \o kr, 2, Len(<<e>> \o kr))
          BY <4>2, <4>3, TailIsSubSeq
        <4>5. SubSeq(<<e>> \o kr, Len(<<e>>) + 1, Len(<<e>> \o kr)) = kr
          BY <1>6, <4>1, Behind
        <4>6. Len(<<e>>) + 1 = 2
          BY <4>1
        <4>. QED
          BY <4>3, <4>4, <4>5, <4>6
      <3>. QED
        BY <1>6, <2>3, <3>1, <3>3
    <2>. QED
      BY <2>1, <2>2, <2>3
  <1>11. \E n \in 0..Len(pointerq) :
            /\ pointerq' = SubSeq(pointerq, n + 1, Len(pointerq))
            /\ \A i \in 1..(n - 1) : ClassOf[pointerq[i]] = "sync"
            /\ n > 0 /\ ClassOf[pointerq[n]] = "pointer" => keyq' = keyq
    <2>1. /\ pointerq \in Seq(Event) /\ Len(pointerq) = Len(pb) + Len(pr)
          /\ Len(pb) \in Nat /\ Len(pr) \in Nat /\ Len(pointerq) \in Nat
          /\ \A i \in 1..Len(pb) : pointerq[i] = pb[i]
      <3>1. /\ pb \o pr \in Seq(Event) /\ Len(pb \o pr) = Len(pb) + Len(pr)
            /\ \A i \in 1..(Len(pb) + Len(pr)) :
                   (pb \o pr)[i] = IF i <= Len(pb) THEN pb[i] ELSE pr[i - Len(pb)]
        BY <1>7, ConcatProperties
      <3>2. Len(pb) \in Nat /\ Len(pr) \in Nat
        BY <1>7
      <3>. QED
        BY <1>7, <3>1, <3>2
    <2>2. CASE pid # Desktop
      <3>1. SubSeq(pointerq, 0 + 1, Len(pointerq)) = pointerq
        BY <2>1, SubSeqFull
      <3>2. 0 \in 0..Len(pointerq) /\ 1..(0 - 1) = {}
        BY <2>1
      <3>3. pointerq' = pointerq
        BY <1>7, <2>2
      <3>. QED
        BY <3>1, <3>2, <3>3
    <2>3. CASE pid = Desktop
      <3>1. SubSeq(pointerq, Len(pb) + 1, Len(pointerq)) = pr /\ pointerq' = pr
        BY <1>7, <2>3, Behind
      <3>2. Len(pb) \in 0..Len(pointerq)
        BY <2>1
      <3>3. \A i \in 1..(Len(pb) - 1) : ClassOf[pointerq[i]] = "sync"
        <4>1. \A i \in 1..(Len(pb) - 1) : i \in 1..Len(pb)
          BY <2>1
        <4>. QED
          BY <1>9, <2>1, <2>3, <4>1
      <3>4. Len(pb) > 0 /\ ClassOf[pointerq[Len(pb)]] = "pointer" => keyq' = keyq
        <4>1. Len(pb) > 0 => Len(pb) \in 1..Len(pb)
          BY <2>1
        <4>. QED
          BY <1>9, <1>10, <2>1, <2>3, <4>1
      <3>. QED
        BY <3>1, <3>2, <3>3, <3>4
    <2>. QED
      BY <2>2, <2>3
  <1>12. used' = used
    BY DEF read_events_device, device
  <1>. QED
    BY <1>8, <1>10, <1>11, <1>12 DEF Queues!Read, keyq, pointerq, otherq

\* A turn of the driver's loop accepts what has arrived, or drops it when the array
\* is full.
LEMMA PollRefines ==
    ASSUME TypeOK, input_poll_one, used # <<>>
    PROVE  Queues!Accept \/ Queues!Drop
  <1>. DEFINE e == Head(used)
  <1>1. /\ enqueue_event(e) /\ used' = Tail(used) /\ e \in Event /\ q \in Seq(Event)
        /\ Len(q) <= Usable /\ Len(q) \in Nat
    BY HeadTailProperties DEF input_poll_one, TypeOK
  <1>2. /\ OfClass({"key"}) = Only(q, KeyKind) /\ OfClass({"key"})' = Only(q', KeyKind)
        /\ OfClass({"pointer", "sync"}) = Only(q, PointerKind)
        /\ OfClass({"pointer", "sync"})' = Only(q', PointerKind)
        /\ OfClass({"other"}) = Only(q, OtherKind)
        /\ OfClass({"other"})' = Only(q', OtherKind)
    BY DEF OfClass, KeyKind, PointerKind, OtherKind, Kind
  <1>3. Len(Only(q, KeyKind)) + Len(Only(q, PointerKind)) + Len(Only(q, OtherKind)) = Len(q)
    <2>1. \A d \in Event : \/ d \in KeyKind /\ d \notin PointerKind /\ d \notin OtherKind
                           \/ d \notin KeyKind /\ d \in PointerKind /\ d \notin OtherKind
                           \/ d \notin KeyKind /\ d \notin PointerKind /\ d \in OtherKind
      BY InputSizes DEF KeyKind, PointerKind, OtherKind, Kind
    <2>. QED
      BY <1>1, <2>1, OnlyShares
  <1>4. CASE Len(q) = Usable
    <2>1. q' = q
      BY <1>1, <1>4 DEF enqueue_event
    <2>. QED
      BY <1>1, <1>2, <1>3, <1>4, <2>1 DEF Queues!Drop
  <1>5. CASE Len(q) # Usable
    <2>1. q' = Append(q, e) /\ Len(q) < Usable
      BY <1>1, <1>5, InputSizes DEF enqueue_event
    <2>. HIDE DEF e
    <2>2. \A K : Only(q', K) = IF e \in K THEN Append(Only(q, K), e) ELSE Only(q, K)
      BY <1>1, <2>1, OnlyAppend
    <2>3. /\ OfClass({"key"})' = Queues!AppendIf(OfClass({"key"}), e, {"key"})
          /\ OfClass({"pointer", "sync"})' =
                Queues!AppendIf(OfClass({"pointer", "sync"}), e, {"pointer", "sync"})
          /\ OfClass({"other"})' = Queues!AppendIf(OfClass({"other"}), e, {"other"})
      BY <1>1, <1>2, <2>2 DEF Queues!AppendIf, KeyKind, PointerKind, OtherKind, Kind
    <2>4. Len(OfClass({"key"})) + Len(OfClass({"pointer", "sync"})) + Len(OfClass({"other"}))
              < Usable
      BY <1>2, <1>3, <2>1
    <2>. QED
      BY <1>1, <2>3, <2>4 DEF Queues!Accept, e
  <1>. QED
    BY <1>4, <1>5

\* Every step of the driver is a step of the queues or leaves them as they are.
LEMMA InputRefines == InputInv /\ [Next]_vars => [Queues!Next]_(Queues!vars)
  <1>. SUFFICES ASSUME InputInv, [Next]_vars PROVE [Queues!Next]_(Queues!vars)
    OBVIOUS
  <1>. USE DEF InputInv
  <1>1. ASSUME UNCHANGED <<q, used>> PROVE UNCHANGED Queues!vars
    BY <1>1 DEF Queues!vars, OfClass
  <1>2. ASSUME NEW e \in Event, device_event(e) PROVE Queues!Arrive
    BY <1>2 DEF device_event, Queues!Arrive, OfClass
  <1>3. CASE input_poll_one /\ used # <<>>
    BY <1>3, PollRefines DEF Queues!Next
  <1>4. CASE input_poll_one /\ used = <<>>
    BY <1>1, <1>4 DEF input_poll_one
  <1>5. ASSUME NEW pid \in Procs, read_events_device(pid) PROVE Queues!Read
    BY <1>5, ReadRefines
  <1>6. CASE \/ virtio_input_handle_irq \/ virtio_ack_interrupt \/ current_has_input_focus
             \/ \E pid \in Procs : input_focus_set(pid) \/ proc_starts(pid) \/ proc_ends(pid)
    BY <1>1, <1>6 DEF virtio_input_handle_irq, virtio_ack_interrupt, current_has_input_focus,
                      input_focus_set, proc_starts, proc_ends, device
  <1>7. CASE UNCHANGED vars
    BY <1>1, <1>7 DEF vars
  <1>. QED
    BY <1>2, <1>3, <1>4, <1>5, <1>6, <1>7 DEF Next, Queues!Next

\* One array with events taken out of its middle serves its two kinds of readers as a
\* queue for each would (read_until of remove_event_at, input_poll_one, enqueue_event).
THEOREM InputIsQueues == Spec => ImplementsEventQueues
  <1>1. Init => Queues!Init
    BY OnlyEmpty DEF Init, Queues!Init, OfClass
  <1>. QED
    BY <1>1, InputInvInit, InputInvStep, InputRefines, PTL
    DEF Spec, ImplementsEventQueues, Queues!Spec

-----------------------------------------------------------------------------
(* Sequences of events.                                                    *)

\* What the keys of a sequence of events are.
LEMMA KeysOfIs ==
    ASSUME NEW s \in Seq(KeyEvent \cup {Move}), NEW k
    PROVE  k \in KeysOf(s) <=> /\ k \in Mapped
                               /\ \E i \in 1..Len(s) : s[i] # Move /\ s[i][2] = k
  <1>1. ToSet(s) = {s[i] : i \in 1..Len(s)}
    BY DEF ToSet
  <1>. QED
    BY <1>1 DEF KeysOf

\* A key event is a press or a release of a key, and no move of the pointer.
LEMMA EventIs ==
    /\ \A e \in KeyEvent : /\ e[1] \in {"kd", "ku"} /\ e[2] \in Key /\ e = <<e[1], e[2]>>
                           /\ e # Move
    /\ Move \notin KeyEvent
  <1>1. \A e \in KeyEvent : e[1] \in {"kd", "ku"} /\ e[2] \in Key /\ e = <<e[1], e[2]>>
    BY DEF KeyEvent
  <1>2. Move[1] = "ma"
    BY DEF Move
  <1>. QED
    BY <1>1, <1>2

\* The key of one event.
LEMMA KeyOfOne ==
    ASSUME NEW e \in KeyEvent
    PROVE  KeysOf(<<e>>) = {e[2]} \cap Mapped
  <1>1. <<e>> \in Seq(KeyEvent \cup {Move}) /\ Len(<<e>>) = 1 /\ <<e>>[1] = e
    OBVIOUS
  <1>. QED
    BY <1>1, KeysOfIs, EventIs

\* Taking events one after the other.
LEMMA HeldAppend ==
    ASSUME NEW held, NEW s \in Seq(KeyEvent), NEW e \in KeyEvent, NEW k \in Key
    PROVE  k \in HeldAfter(held, Append(s, e)) <=>
               IF e[2] = k THEN e[1] = "kd" ELSE k \in HeldAfter(held, s)
  <1>. DEFINE n == Len(s)
              t == Append(s, e)
  <1>1. /\ n \in Nat /\ t \in Seq(KeyEvent) /\ Len(t) = n + 1 /\ t[n + 1] = e
        /\ \A i \in 1..n : t[i] = s[i]
    BY AppendProperties
  <1>. HIDE DEF t
  <1>2. e = <<e[1], e[2]>> /\ e[1] \in {"kd", "ku"}
    BY EventIs
  <1>3. CASE e[2] = k
    <2>1. ASSUME k \in HeldAfter(held, t)
          PROVE  e[1] = "kd"
      <3>1. PICK i \in 0..(n + 1) : /\ IF i = 0 THEN k \in held ELSE t[i] = <<"kd", k>>
                                    /\ \A j \in (i + 1)..(n + 1) : t[j][2] # k
        BY <1>1, <2>1 DEF HeldAfter
      <3>2. i = n + 1
        BY <1>1, <1>3, <3>1
      <3>. QED
        BY <1>1, <3>1, <3>2
    <2>2. ASSUME e[1] = "kd"
          PROVE  k \in HeldAfter(held, t)
      <3>1. t[n + 1] = <<"kd", k>> /\ n + 1 \in 0..Len(t) /\ n + 1 # 0
        BY <1>1, <1>2, <1>3, <2>2
      <3>2. \A j \in (n + 1 + 1)..Len(t) : t[j][2] # k
        BY <1>1
      <3>. QED
        BY <3>1, <3>2 DEF HeldAfter
    <2>. QED
      BY <1>3, <2>1, <2>2 DEF t
  <1>4. CASE e[2] # k
    <2>1. ASSUME k \in HeldAfter(held, t)
          PROVE  k \in HeldAfter(held, s)
      <3>1. PICK i \in 0..(n + 1) : /\ IF i = 0 THEN k \in held ELSE t[i] = <<"kd", k>>
                                    /\ \A j \in (i + 1)..(n + 1) : t[j][2] # k
        BY <1>1, <2>1 DEF HeldAfter
      <3>2. i # n + 1
        BY <1>1, <1>4, <3>1
      <3>3. /\ i \in 0..n /\ IF i = 0 THEN k \in held ELSE s[i] = <<"kd", k>>
            /\ \A j \in (i + 1)..n : s[j][2] # k
        BY <1>1, <3>1, <3>2
      <3>. QED
        BY <3>3 DEF HeldAfter
    <2>2. ASSUME k \in HeldAfter(held, s)
          PROVE  k \in HeldAfter(held, t)
      <3>1. PICK i \in 0..n : /\ IF i = 0 THEN k \in held ELSE s[i] = <<"kd", k>>
                              /\ \A j \in (i + 1)..n : s[j][2] # k
        BY <1>1, <2>2 DEF HeldAfter
      <3>2. i \in 0..(n + 1) /\ IF i = 0 THEN k \in held ELSE t[i] = <<"kd", k>>
        BY <1>1, <3>1
      <3>3. \A j \in (i + 1)..(n + 1) : t[j][2] # k
        BY <1>1, <1>4, <3>1
      <3>. QED
        BY <1>1, <3>2, <3>3 DEF HeldAfter
    <2>. QED
      BY <1>4, <2>1, <2>2 DEF t
  <1>. QED
    BY <1>3, <1>4

\* Taking the oldest event first changes nothing in the end.
LEMMA HeldTail ==
    ASSUME NEW held, NEW s \in Seq(KeyEvent), s # <<>>, NEW k \in Key
    PROVE  k \in HeldAfter(Apply(held, Head(s)), Tail(s)) <=> k \in HeldAfter(held, s)
  <1>. DEFINE n == Len(s)
              e == Head(s)
              t == Tail(s)
              h == Apply(held, e)
  <1>1. /\ n \in Nat /\ n # 0 /\ t \in Seq(KeyEvent) /\ Len(t) = n - 1 /\ e = s[1]
        /\ e \in KeyEvent /\ \A i \in 1..(n - 1) : t[i] = s[i + 1]
    BY EmptySeq, HeadTailProperties
  <1>. HIDE DEF t, e
  <1>2. e = <<e[1], e[2]>> /\ e[1] \in {"kd", "ku"} /\ e[2] \in Key
    BY <1>1, EventIs
  <1>3. k \in h <=> (e = <<"kd", k>> \/ (e[2] # k /\ k \in held))
    BY <1>2 DEF Apply
  <1>. HIDE DEF h
  <1>4. ASSUME k \in HeldAfter(h, t)
        PROVE  k \in HeldAfter(held, s)
    <2>1. PICK i \in 0..(n - 1) : /\ IF i = 0 THEN k \in h ELSE t[i] = <<"kd", k>>
                                  /\ \A j \in (i + 1)..(n - 1) : t[j][2] # k
      BY <1>1, <1>4 DEF HeldAfter
    <2>2. \A j \in (i + 2)..n : s[j][2] # k
      <3>. SUFFICES ASSUME NEW j \in (i + 2)..n PROVE s[j][2] # k
        OBVIOUS
      <3>1. j - 1 \in (i + 1)..(n - 1) /\ j - 1 \in 1..(n - 1) /\ j - 1 + 1 = j
        BY <1>1
      <3>. QED
        BY <1>1, <2>1, <3>1
    <2>3. CASE i # 0 \/ e = <<"kd", k>>
      <3>1. i + 1 \in 0..n /\ i + 1 # 0 /\ s[i + 1] = <<"kd", k>>
        BY <1>1, <2>1, <2>3
      <3>2. \A j \in (i + 1 + 1)..n : s[j][2] # k
        BY <1>1, <2>2
      <3>. QED
        BY <1>1, <3>1, <3>2 DEF HeldAfter
    <2>4. CASE i = 0 /\ e # <<"kd", k>>
      <3>1. e[2] # k /\ k \in held
        BY <1>3, <2>1, <2>4
      <3>2. \A j \in 1..n : s[j][2] # k
        BY <1>1, <2>2, <2>4, <3>1
      <3>3. 0 \in 0..n /\ \A j \in (0 + 1)..n : s[j][2] # k
        BY <1>1, <3>2
      <3>. QED
        BY <1>1, <3>1, <3>3 DEF HeldAfter
    <2>. QED
      BY <2>3, <2>4
  <1>5. ASSUME k \in HeldAfter(held, s)
        PROVE  k \in HeldAfter(h, t)
    <2>1. PICK i \in 0..n : /\ IF i = 0 THEN k \in held ELSE s[i] = <<"kd", k>>
                            /\ \A j \in (i + 1)..n : s[j][2] # k
      BY <1>1, <1>5 DEF HeldAfter
    <2>2. CASE i > 1
      <3>1. i - 1 \in 0..(n - 1) /\ i - 1 # 0 /\ t[i - 1] = <<"kd", k>>
        BY <1>1, <2>1, <2>2
      <3>2. \A j \in (i - 1 + 1)..(n - 1) : t[j][2] # k
        <4>. SUFFICES ASSUME NEW j \in (i - 1 + 1)..(n - 1) PROVE t[j][2] # k
          OBVIOUS
        <4>1. j + 1 \in (i + 1)..n /\ j \in 1..(n - 1)
          BY <1>1, <2>2
        <4>. QED
          BY <1>1, <2>1, <4>1
      <3>. QED
        BY <1>1, <3>1, <3>2 DEF HeldAfter
    <2>3. CASE i \in {0, 1}
      <3>1. k \in h
        BY <1>1, <1>3, <2>1, <2>3
      <3>2. \A j \in (0 + 1)..(n - 1) : t[j][2] # k
        <4>. SUFFICES ASSUME NEW j \in (0 + 1)..(n - 1) PROVE t[j][2] # k
          OBVIOUS
        <4>1. j + 1 \in (i + 1)..n /\ j \in 1..(n - 1)
          BY <1>1, <2>3
        <4>. QED
          BY <1>1, <2>1, <4>1
      <3>3. 0 \in 0..(n - 1)
        BY <1>1
      <3>. QED
        BY <1>1, <3>1, <3>2, <3>3 DEF HeldAfter
    <2>. QED
      BY <1>1, <2>1, <2>2, <2>3
  <1>. QED
    BY <1>4, <1>5 DEF h, t, e


\* The pointer's move is of no key.
LEMMA MoveIsNoKey == KeysOf(<<Move>>) = {}
  <1>1. <<Move>> \in Seq(KeyEvent \cup {Move}) /\ Len(<<Move>>) = 1 /\ <<Move>>[1] = Move
    OBVIOUS
  <1>. HIDE DEF Move
  <1>2. ASSUME NEW k PROVE k \notin KeysOf(<<Move>>)
    <2>1. k \in KeysOf(<<Move>>) => \E i \in 1..Len(<<Move>>) : <<Move>>[i] # Move
      BY <1>1, KeysOfIs
    <2>. QED
      BY <1>1, <2>1
  <1>3. KeysOf(<<Move>>) \subseteq Mapped
    BY DEF KeysOf
  <1>. QED
    BY <1>2, <1>3

\* The keys of an empty sequence, of a sequence with one event more, and of one
\* without its oldest event.
LEMMA KeysOfParts ==
    /\ KeysOf(<<>>) = {}
    /\ \A s \in Seq(KeyEvent), e \in KeyEvent :
           KeysOf(Append(s, e)) = KeysOf(s) \cup ({e[2]} \cap Mapped)
    /\ \A s \in Seq(KeyEvent) : s # <<>> =>
           KeysOf(s) = KeysOf(Tail(s)) \cup ({Head(s)[2]} \cap Mapped)
  <1>1. KeysOf(<<>>) = {}
    <2>1. <<>> \in Seq(KeyEvent \cup {Move}) /\ Len(<<>>) = 0
      OBVIOUS
    <2>2. KeysOf(<<>>) \subseteq Mapped
      BY DEF KeysOf
    <2>3. ASSUME NEW k PROVE k \notin KeysOf(<<>>)
      <3>1. k \in KeysOf(<<>>) => \E i \in 1..Len(<<>>) : TRUE
        BY <2>1, KeysOfIs
      <3>. QED
        BY <2>1, <3>1
    <2>. QED
      BY <2>2, <2>3
  <1>2. ASSUME NEW s \in Seq(KeyEvent), NEW e \in KeyEvent
        PROVE  KeysOf(Append(s, e)) = KeysOf(s) \cup ({e[2]} \cap Mapped)
    <2>. DEFINE n == Len(s)
                t == Append(s, e)
    <2>1. /\ n \in Nat /\ t \in Seq(KeyEvent) /\ Len(t) = n + 1 /\ t[n + 1] = e
          /\ \A i \in 1..n : t[i] = s[i]
      BY AppendProperties
    <2>2. s \in Seq(KeyEvent \cup {Move}) /\ t \in Seq(KeyEvent \cup {Move})
      BY <2>1
    <2>. HIDE DEF t
    <2>3. ASSUME NEW k
          PROVE  k \in KeysOf(t) <=> k \in KeysOf(s) \/ (k \in Mapped /\ k = e[2])
      <3>1. k \in KeysOf(s) <=> k \in Mapped /\ \E i \in 1..n : s[i] # Move /\ s[i][2] = k
        BY <2>2, KeysOfIs
      <3>2. k \in KeysOf(t) <=> k \in Mapped /\ \E i \in 1..(n + 1) : t[i] # Move /\ t[i][2] = k
        BY <2>1, <2>2, KeysOfIs
      <3>3. (\E i \in 1..(n + 1) : t[i] # Move /\ t[i][2] = k)
                <=> (\E i \in 1..n : s[i] # Move /\ s[i][2] = k) \/ e[2] = k
        <4>1. e # Move
          BY EventIs
        <4>2. 1..(n + 1) = 1..n \cup {n + 1}
          BY <2>1
        <4>. QED
          BY <2>1, <4>1, <4>2
      <3>. QED
        BY <3>1, <3>2, <3>3
    <2>4. KeysOf(t) \subseteq Mapped /\ KeysOf(s) \subseteq Mapped
      BY DEF KeysOf
    <2>. QED
      BY <2>3, <2>4 DEF t
  <1>3. ASSUME NEW s \in Seq(KeyEvent), s # <<>>
        PROVE  KeysOf(s) = KeysOf(Tail(s)) \cup ({Head(s)[2]} \cap Mapped)
    <2>. DEFINE n == Len(s)
                t == Tail(s)
                e == Head(s)
    <2>1. /\ n \in Nat /\ n # 0 /\ t \in Seq(KeyEvent) /\ Len(t) = n - 1 /\ e = s[1]
          /\ e \in KeyEvent /\ \A i \in 1..(n - 1) : t[i] = s[i + 1]
      BY <1>3, EmptySeq, HeadTailProperties
    <2>2. s \in Seq(KeyEvent \cup {Move}) /\ t \in Seq(KeyEvent \cup {Move})
      BY <2>1
    <2>. HIDE DEF t, e
    <2>3. ASSUME NEW k
          PROVE  k \in KeysOf(s) <=> k \in KeysOf(t) \/ (k \in Mapped /\ k = e[2])
      <3>1. k \in KeysOf(s) <=> k \in Mapped /\ \E i \in 1..n : s[i] # Move /\ s[i][2] = k
        BY <2>2, KeysOfIs
      <3>2. k \in KeysOf(t) <=> k \in Mapped /\ \E i \in 1..(n - 1) : t[i] # Move /\ t[i][2] = k
        BY <2>1, <2>2, KeysOfIs
      <3>3. e # Move
        BY <2>1, EventIs
      <3>4. ASSUME NEW i \in 1..n, s[i] # Move, s[i][2] = k, e[2] # k
            PROVE  i - 1 \in 1..(n - 1) /\ t[i - 1] = s[i]
        <4>1. i # 1
          BY <2>1, <3>4
        <4>. QED
          BY <2>1, <4>1
      <3>5. ASSUME NEW i \in 1..(n - 1)
            PROVE  i + 1 \in 1..n /\ s[i + 1] = t[i]
        BY <2>1
      <3>6. 1 \in 1..n
        BY <2>1
      <3>. QED
        BY <2>1, <3>1, <3>2, <3>3, <3>4, <3>5, <3>6
    <2>4. KeysOf(t) \subseteq Mapped /\ KeysOf(s) \subseteq Mapped
      BY DEF KeysOf
    <2>. QED
      BY <2>3, <2>4 DEF t, e
  <1>. QED
    BY <1>1, <1>2, <1>3


-----------------------------------------------------------------------------
(* The ring.                                                               *)

\* The events of the ring.
RingEvent == {"kd", "ku"} \X Mapped

\* The sizes of the queues, for the provers.
LEMMA Sizes ==
    /\ Mapped \subseteq Key /\ None \notin Key
    /\ KEY_QUEUE_LEN \in Nat /\ KEY_QUEUE_LEN > 1 /\ PumpMax \in Nat /\ PumpMax > 0
  BY KeysAssumption

\* One turn around the ring is a subtraction.
LEMMA Around ==
    ASSUME NEW x \in Int, -KEY_QUEUE_LEN < x, x < 2 * KEY_QUEUE_LEN
    PROVE  x % KEY_QUEUE_LEN = IF x < 0 THEN x + KEY_QUEUE_LEN
                               ELSE IF x < KEY_QUEUE_LEN THEN x ELSE x - KEY_QUEUE_LEN
  <1>1. x < 0 => x % KEY_QUEUE_LEN = x + KEY_QUEUE_LEN
    BY Sizes
  <1>2. x >= 0 /\ x < KEY_QUEUE_LEN => x % KEY_QUEUE_LEN = x
    BY Sizes
  <1>3. x >= KEY_QUEUE_LEN => x % KEY_QUEUE_LEN = x - KEY_QUEUE_LEN
    BY Sizes
  <1>. QED
    BY <1>1, <1>2, <1>3, Sizes

\* Events in a ring from slot h up to slot t.
Between(h, t) == IF t >= h THEN t - h ELSE t - h + KEY_QUEUE_LEN

\* The slot i events behind slot h.
SlotOf(h, i) == IF h + i < KEY_QUEUE_LEN THEN h + i ELSE h + i - KEY_QUEUE_LEN

\* What the ring holds, without remainders.
LEMMA RingIs ==
    ASSUME g_key_head \in RingIdx, g_key_tail \in RingIdx
    PROVE  /\ Between(g_key_head, g_key_tail) \in 0..(KEY_QUEUE_LEN - 1)
           /\ Ring = [i \in 1..Between(g_key_head, g_key_tail) |->
                         g_key_queue[SlotOf(g_key_head, i - 1)]]
           /\ keyq_empty <=> Between(g_key_head, g_key_tail) = 0
           /\ next_tail = SlotOf(g_key_tail, 1)
           /\ next_tail # g_key_head => Between(g_key_head, g_key_tail) < KEY_QUEUE_LEN - 1
  <1>. DEFINE n == Between(g_key_head, g_key_tail)
  <1>1. g_key_head \in 0..(KEY_QUEUE_LEN - 1) /\ g_key_tail \in 0..(KEY_QUEUE_LEN - 1)
    BY DEF RingIdx
  <1>2. n \in 0..(KEY_QUEUE_LEN - 1) /\ (g_key_tail - g_key_head) % KEY_QUEUE_LEN = n
    BY <1>1, Sizes, Around DEF Between
  <1>. HIDE DEF n
  <1>3. ASSUME NEW i \in 1..n
        PROVE  (g_key_head + i - 1) % KEY_QUEUE_LEN = SlotOf(g_key_head, i - 1)
    <2>. DEFINE x == g_key_head + i - 1
    <2>1. x \in Int /\ -KEY_QUEUE_LEN < x /\ x < 2 * KEY_QUEUE_LEN /\ x >= 0
          /\ x = g_key_head + (i - 1) /\ i \in Int
      BY <1>1, <1>2, Sizes
    <2>. HIDE DEF x
    <2>2. x % KEY_QUEUE_LEN = IF x < KEY_QUEUE_LEN THEN x ELSE x - KEY_QUEUE_LEN
      BY <2>1, Sizes, Around
    <2>3. SlotOf(g_key_head, i - 1) = IF x < KEY_QUEUE_LEN THEN x ELSE x - KEY_QUEUE_LEN
      BY <1>1, <2>1, Sizes DEF SlotOf
    <2>. QED
      BY <2>2, <2>3 DEF x
  <1>4. next_tail = SlotOf(g_key_tail, 1)
    <2>. DEFINE x == g_key_tail + 1
    <2>1. x \in Int /\ -KEY_QUEUE_LEN < x /\ x < 2 * KEY_QUEUE_LEN /\ x >= 0
      BY <1>1, Sizes
    <2>2. x % KEY_QUEUE_LEN = IF x < KEY_QUEUE_LEN THEN x ELSE x - KEY_QUEUE_LEN
      BY <2>1, Sizes, Around
    <2>. HIDE DEF x
    <2>3. next_tail = x % KEY_QUEUE_LEN
      BY DEF next_tail, x
    <2>4. SlotOf(g_key_tail, 1) = IF x < KEY_QUEUE_LEN THEN x ELSE x - KEY_QUEUE_LEN
      BY <1>1, Sizes DEF SlotOf, x
    <2>. QED
      BY <2>1, <2>2, <2>3, <2>4
  <1>5. Ring = [i \in 1..n |-> g_key_queue[SlotOf(g_key_head, i - 1)]]
    BY <1>2, <1>3 DEF Ring
  <1>6. keyq_empty <=> n = 0
    BY <1>1, Sizes DEF keyq_empty, Between, n
  <1>7. next_tail # g_key_head => n < KEY_QUEUE_LEN - 1
    BY <1>1, <1>4, Sizes DEF Between, SlotOf, n
  <1>. QED
    BY <1>2, <1>4, <1>5, <1>6, <1>7 DEF n

\* A push puts an event behind the others.
LEMMA PushAppends ==
    ASSUME g_key_head \in RingIdx, g_key_tail \in RingIdx, Ring \in Seq(RingEvent),
           DOMAIN g_key_queue = RingIdx,
           NEW e, keyq_push(e), next_tail # g_key_head
    PROVE  /\ g_key_tail' \in RingIdx /\ g_key_head' = g_key_head
           /\ DOMAIN g_key_queue' = RingIdx
           /\ Ring' = Append(Ring, e)
  <1>. DEFINE h == g_key_head
              t == g_key_tail
              L == KEY_QUEUE_LEN
              n == Between(h, t)
  <1>1. /\ h \in 0..(L - 1) /\ t \in 0..(L - 1) /\ L \in Nat /\ L > 1
    BY Sizes DEF RingIdx
  <1>2. /\ n \in 0..(L - 1) /\ n < L - 1
        /\ Ring = [i \in 1..n |-> g_key_queue[SlotOf(h, i - 1)]]
        /\ next_tail = SlotOf(t, 1)
    BY RingIs
  <1>3. /\ g_key_head' = h /\ g_key_tail' = SlotOf(t, 1)
        /\ g_key_queue' = [g_key_queue EXCEPT ![t] = e]
    BY <1>2 DEF keyq_push
  <1>4. SlotOf(t, 1) \in RingIdx /\ Between(h, SlotOf(t, 1)) = n + 1
    BY <1>1, <1>2 DEF SlotOf, Between, RingIdx
  <1>5. Ring' = [i \in 1..(n + 1) |-> g_key_queue'[SlotOf(h, i - 1)]]
    <2>1. g_key_head' \in RingIdx /\ g_key_tail' \in RingIdx
      BY <1>3, <1>4
    <2>2. Ring' = [i \in 1..Between(g_key_head', g_key_tail') |->
                      g_key_queue'[SlotOf(g_key_head', i - 1)]]
      <3>1. (g_key_head \in RingIdx /\ g_key_tail \in RingIdx)' =>
              (Ring = [i \in 1..Between(g_key_head, g_key_tail) |->
                         g_key_queue[SlotOf(g_key_head, i - 1)]])'
        BY RingIs, PTL
      <3>. QED
        BY <2>1, <3>1
    <2>. QED
      BY <1>3, <1>4, <2>2
  <1>6. ASSUME NEW i \in 1..n
        PROVE  SlotOf(h, i - 1) \in RingIdx \ {t}
    BY <1>1, <1>2 DEF SlotOf, Between, RingIdx
  <1>7. SlotOf(h, n) = t
    BY <1>1, <1>2 DEF SlotOf, Between
  <1>8. ASSUME NEW i \in 1..(n + 1)
        PROVE  g_key_queue'[SlotOf(h, i - 1)] = IF i = n + 1 THEN e ELSE Ring[i]
    <2>1. CASE i = n + 1
      BY <1>1, <1>2, <1>3, <1>7, <2>1 DEF RingIdx
    <2>2. CASE i \in 1..n
      <3>1. g_key_queue'[SlotOf(h, i - 1)] = g_key_queue[SlotOf(h, i - 1)]
        BY <1>3, <1>6, <2>2
      <3>. QED
        BY <1>2, <2>2, <3>1
    <2>. QED
      BY <1>2, <2>1, <2>2
  <1>. HIDE DEF n
  <1>9. Len(Ring) = n
    BY <1>2
  <1>10. Append(Ring, e) = [i \in 1..(n + 1) |-> IF i = n + 1 THEN e ELSE Ring[i]]
    <2>1. Append(Ring, e) = [i \in 1..(Len(Ring) + 1) |->
                                IF i = Len(Ring) + 1 THEN e ELSE Ring[i]]
      <3>. DEFINE a == Append(Ring, e)
      <3>1. /\ a \in Seq(RingEvent \cup {e}) /\ Len(a) = Len(Ring) + 1
            /\ a[Len(Ring) + 1] = e /\ \A i \in 1..Len(Ring) : a[i] = Ring[i]
        BY AppendProperties
      <3>. HIDE DEF a
      <3>2. a = [i \in 1..Len(a) |-> a[i]]
        BY <3>1
      <3>. QED
        BY <1>2, <1>9, <3>1, <3>2 DEF a
    <2>. QED
      BY <1>9, <2>1
  <1>. QED
    BY <1>3, <1>4, <1>5, <1>8, <1>10

\* A pop takes the oldest event.
LEMMA PopTakesOldest ==
    ASSUME g_key_head \in RingIdx, g_key_tail \in RingIdx, Ring \in Seq(RingEvent),
           ~keyq_empty,
           g_key_head' = (g_key_head + 1) % KEY_QUEUE_LEN,
           UNCHANGED <<g_key_queue, g_key_tail>>
    PROVE  /\ g_key_head' \in RingIdx
           /\ Ring # <<>> /\ g_key_queue[g_key_head] = Head(Ring)
           /\ Ring' = Tail(Ring)
  <1>. DEFINE h == g_key_head
              t == g_key_tail
              L == KEY_QUEUE_LEN
              n == Between(h, t)
  <1>1. /\ h \in 0..(L - 1) /\ t \in 0..(L - 1) /\ L \in Nat /\ L > 1
    BY Sizes DEF RingIdx
  <1>2. /\ n \in 0..(L - 1) /\ n # 0
        /\ Ring = [i \in 1..n |-> g_key_queue[SlotOf(h, i - 1)]]
    BY RingIs
  <1>3. g_key_head' = SlotOf(h, 1)
    <2>. DEFINE x == g_key_head + 1
    <2>1. x \in Int /\ -L < x /\ x < 2 * L /\ x >= 0
      BY <1>1
    <2>2. x % L = IF x < L THEN x ELSE x - L
      BY <2>1, Sizes, Around
    <2>. HIDE DEF x
    <2>3. g_key_head' = x % L
      BY DEF x
    <2>4. SlotOf(h, 1) = IF x < L THEN x ELSE x - L
      BY <1>1, Sizes DEF SlotOf, x
    <2>. QED
      BY <2>1, <2>2, <2>3, <2>4
  <1>4. SlotOf(h, 1) \in RingIdx /\ Between(SlotOf(h, 1), t) = n - 1 /\ SlotOf(h, 0) = h
    BY <1>1, <1>2 DEF SlotOf, Between, RingIdx
  <1>5. Ring' = [i \in 1..(n - 1) |-> g_key_queue[SlotOf(SlotOf(h, 1), i - 1)]]
    <2>1. g_key_head' \in RingIdx /\ g_key_tail' \in RingIdx
      BY <1>3, <1>4
    <2>2. Ring' = [i \in 1..Between(g_key_head', g_key_tail') |->
                      g_key_queue'[SlotOf(g_key_head', i - 1)]]
      <3>1. (g_key_head \in RingIdx /\ g_key_tail \in RingIdx)' =>
              (Ring = [i \in 1..Between(g_key_head, g_key_tail) |->
                         g_key_queue[SlotOf(g_key_head, i - 1)]])'
        BY RingIs, PTL
      <3>. QED
        BY <2>1, <3>1
    <2>. QED
      BY <1>3, <1>4, <2>2
  <1>6. ASSUME NEW i \in 1..(n - 1)
        PROVE  SlotOf(SlotOf(h, 1), i - 1) = SlotOf(h, i + 1 - 1)
    BY <1>1, <1>2 DEF SlotOf, Between
  <1>7. ASSUME NEW i \in 1..(n - 1)
        PROVE  g_key_queue[SlotOf(SlotOf(h, 1), i - 1)] = Ring[i + 1]
    <2>1. i + 1 \in 1..n
      BY <1>2
    <2>. QED
      BY <1>2, <1>6, <2>1
  <1>. HIDE DEF n
  <1>8. Len(Ring) = n /\ Ring # <<>>
    BY <1>2
  <1>9. g_key_queue[g_key_head] = Head(Ring)
    <2>1. Head(Ring) = Ring[1] /\ 1 \in 1..n /\ 1 - 1 = 0
      BY <1>2, <1>8
    <2>. QED
      BY <1>2, <1>4, <2>1
  <1>10. Tail(Ring) = [i \in 1..(n - 1) |-> Ring[i + 1]]
    <2>. DEFINE a == Tail(Ring)
    <2>1. a \in Seq(RingEvent) /\ Len(a) = n - 1 /\ \A i \in 1..(n - 1) : a[i] = Ring[i + 1]
      BY <1>2, <1>8, HeadTailProperties
    <2>. HIDE DEF a
    <2>2. a = [i \in 1..Len(a) |-> a[i]]
      BY <2>1
    <2>. QED
      BY <2>1, <2>2 DEF a
  <1>. QED
    BY <1>3, <1>4, <1>5, <1>7, <1>8, <1>9, <1>10


-----------------------------------------------------------------------------
(* The inductive invariant.                                                *)

\* What is in the queues.
QueuesOK ==
    /\ keys \in Seq(KeyEvent) /\ pointers \in Seq({Move})
    /\ arriving \in Seq(KeyEvent \cup {Move}) /\ Len(arriving) <= 1

RingOK == DOMAIN g_key_queue = RingIdx /\ Ring \in Seq(RingEvent)

\* Nothing moves on the keyboard before the driver has looked.
ArrivingTells ==
    \A e \in KeyEvent : arriving = <<e>> => (e[1] = "kd" <=> e[2] \in down)

\* The last event of a key in the kernel's queue tells where the key is, but for
\* what has arrived and what was dropped since.
KeysTell ==
    \A k \in Mapped \ (KeysOf(arriving) \cup dropped) : \A i \in 1..Len(keys) :
        keys[i][2] = k /\ (\A j \in (i + 1)..Len(keys) : keys[j][2] # k)
            => (keys[i][1] = "kd" <=> k \in down)

KeysInv == KeysTrue /\ QueuesOK /\ RingOK /\ ArrivingTells /\ KeysTell


\* The invariant holds at the start.
LEMMA KeysInvInit == KeysInit => KeysInv
  <1>. SUFFICES ASSUME KeysInit PROVE KeysInv
    OBVIOUS
  <1>1. /\ prog \in {"sdl", "am"} /\ down = {} /\ key_focus = "desktop"
        /\ arriving = <<>> /\ keys = <<>> /\ pointers = <<>>
        /\ key_state = {} /\ view = {} /\ pump = -1
        /\ g_key_queue = [i \in RingIdx |-> None] /\ g_key_head = 0 /\ g_key_tail = 0
        /\ dropped = {} /\ missed = {}
    BY DEF KeysInit, Kernel!Init
  <1>2. 0 \in RingIdx
    BY Sizes DEF RingIdx
  <1>3. Ring = <<>>
    <2>1. Between(0, 0) = 0
      BY DEF Between
    <2>. QED
      BY <1>1, <1>2, <2>1, RingIs
  <1>4. QueuesOK /\ RingOK
    BY <1>1, <1>3 DEF QueuesOK, RingOK
  <1>5. ArrivingTells /\ KeysTell
    BY <1>1 DEF ArrivingTells, KeysTell
  <1>6. KeysTypeOK
    BY <1>1, <1>2, <1>3, Sizes DEF KeysTypeOK
  <1>7. KeyStateTrue /\ ViewTrue
    BY <1>1, <1>3 DEF KeyStateTrue, ViewTrue, HeldAfter
  <1>. QED
    BY <1>4, <1>5, <1>6, <1>7 DEF KeysInv, KeysTrue

-----------------------------------------------------------------------------
(* The steps.                                                              *)

\* At most one event has arrived.
LEMMA ArrivingIs ==
    ASSUME QueuesOK
    PROVE  arriving = <<>> \/ \E e \in KeyEvent \cup {Move} : arriving = <<e>>
  <1>1. arriving \in Seq(KeyEvent \cup {Move}) /\ (Len(arriving) = 0 \/ Len(arriving) = 1)
    <2>1. arriving \in Seq(KeyEvent \cup {Move}) /\ Len(arriving) <= 1
      BY DEF QueuesOK
    <2>2. Len(arriving) \in Nat
      BY <2>1
    <2>3. \A n \in Nat : n <= 1 => n = 0 \/ n = 1
      OBVIOUS
    <2>. QED
      BY <2>1, <2>2, <2>3, Zenon
  <1>2. Len(arriving) = 0 => arriving = <<>>
    BY <1>1
  <1>3. Len(arriving) = 1 => arriving = <<arriving[1]>> /\ arriving[1] \in KeyEvent \cup {Move}
    BY <1>1
  <1>. QED
    BY <1>1, <1>2, <1>3

\* A step of the keyboard, the driver or another program tells the libraries nothing
\* and keeps true what they hold, when the keys heard of are still the same.
LEMMA HeldStaysTrue ==
    ASSUME KeyStateTrue, ViewTrue, RingOK,
           UNCHANGED <<prog, key_state, ring, view>>,
           \A k \in Heard' : k \in Heard /\ (k \in down' <=> k \in down)
    PROVE  KeyStateTrue' /\ ViewTrue' /\ RingOK'
  <1>1. Ring' = Ring
    BY DEF Ring, ring
  <1>2. RingOK'
    BY <1>1 DEF RingOK, ring
  <1>3. KeyStateTrue'
    BY DEF KeyStateTrue
  <1>4. ViewTrue'
    <2>1. HeldAfter(view, Ring)' = HeldAfter(view, Ring)
      BY <1>1 DEF HeldAfter
    <2>. QED
      BY <2>1 DEF ViewTrue
  <1>. QED
    BY <1>2, <1>3, <1>4

\* The types of what a step leaves alone.
LEMMA RingTypes ==
    ASSUME RingOK
    PROVE  \A i \in 1..Len(Ring) : Ring[i] \in {"kd", "ku"} \X Mapped
  BY DEF RingOK, RingEvent

\* A key goes down or up.
LEMMA KeyMoves ==
    ASSUME KeysInv, NEW k \in Key, key_press(k) \/ key_release(k)
    PROVE  KeysInv'
  <1>. USE DEF KeysInv, KeysTrue
  <1>. PICK m \in {"kd", "ku"} : /\ arriving = <<>> /\ arriving' = <<<<m, k>>>>
                                 /\ down' = IF m = "kd" THEN down \cup {k} ELSE down \ {k}
    BY DEF key_press, key_release
  <1>. DEFINE e == <<m, k>>
  <1>1. /\ UNCHANGED <<prog, keys, pointers, others, key_focus, key_state, pump, view>>
        /\ UNCHANGED <<g_key_queue, g_key_head, g_key_tail>> /\ UNCHANGED <<dropped, missed>>
    BY DEF key_press, key_release, ring, heard
  <1>2. e \in KeyEvent /\ e[1] = m /\ e[2] = k
    BY DEF KeyEvent
  <1>3. arriving' = <<e>> /\ KeysOf(arriving) = {} /\ KeysOf(arriving') = {k} \cap Mapped
    BY <1>2, KeysOfParts, KeyOfOne
  <1>. HIDE DEF e
  <1>4. \A i \in Key \ {k} : i \in down' <=> i \in down
    OBVIOUS
  <1>5. QueuesOK'
    <2>1. <<e>> \in Seq(KeyEvent \cup {Move}) /\ Len(<<e>>) = 1
      BY <1>2
    <2>. QED
      BY <1>1, <1>3, <2>1 DEF QueuesOK
  <1>6. ArrivingTells'
    <2>1. \A d \in KeyEvent : <<e>> = <<d>> => d = e
      OBVIOUS
    <2>2. e[1] = "kd" <=> k \in down'
      BY <1>2
    <2>. QED
      BY <1>2, <1>3, <2>1, <2>2 DEF ArrivingTells
  <1>7. KeysTell'
    BY <1>1, <1>3, <1>4, Sizes DEF KeysTell
  <1>8. KeyStateTrue' /\ ViewTrue' /\ RingOK'
    <2>1. \A i \in Heard' : i \in Heard /\ (i \in down' <=> i \in down)
      BY <1>1, <1>3, <1>4, Sizes DEF Heard, OnTheWay
    <2>. QED
      BY <1>1, <2>1, HeldStaysTrue DEF ring
  <1>9. KeysTypeOK'
    <2>1. Ring' = Ring /\ down' \subseteq Key
      BY <1>1 DEF Ring, KeysTypeOK
    <2>. QED
      BY <1>1, <2>1 DEF KeysTypeOK
  <1>. QED
    BY <1>5, <1>6, <1>7, <1>8, <1>9

\* The pointer moves.
LEMMA PointerMoves ==
    ASSUME KeysInv, pointer_moves
    PROVE  KeysInv'
  <1>. USE DEF KeysInv, KeysTrue
  <1>1. /\ arriving = <<>> /\ arriving' = <<Move>>
        /\ UNCHANGED <<prog, keys, pointers, others, down, key_focus, key_state, pump, view>>
        /\ UNCHANGED <<g_key_queue, g_key_head, g_key_tail>> /\ UNCHANGED <<dropped, missed>>
    BY DEF pointer_moves, ring, heard
  <1>2. KeysOf(arriving) = {} /\ KeysOf(arriving') = {}
    BY <1>1, MoveIsNoKey, KeysOfParts
  <1>3. QueuesOK'
    BY <1>1 DEF QueuesOK
  <1>4. ArrivingTells'
    <2>1. \A d \in KeyEvent : <<Move>> # <<d>>
      BY EventIs
    <2>. QED
      BY <1>1, <2>1 DEF ArrivingTells
  <1>5. KeysTell'
    BY <1>1, <1>2 DEF KeysTell
  <1>6. KeyStateTrue' /\ ViewTrue' /\ RingOK'
    <2>1. \A i \in Heard' : i \in Heard /\ (i \in down' <=> i \in down)
      BY <1>1, <1>2 DEF Heard, OnTheWay
    <2>. QED
      BY <1>1, <2>1, HeldStaysTrue DEF ring
  <1>7. KeysTypeOK'
    <2>1. Ring' = Ring
      BY <1>1 DEF Ring
    <2>. QED
      BY <1>1, <2>1 DEF KeysTypeOK
  <1>. QED
    BY <1>3, <1>4, <1>5, <1>6, <1>7


\* What has arrived is a key event or a move; a key goes to the queue of keys.
LEMMA AcceptIs ==
    ASSUME QueuesOK, Kernel!Accept
    PROVE  /\ arriving' = <<>>
           /\ \/ /\ arriving = <<Move>> /\ keys' = keys
                 /\ pointers' = Append(pointers, Move)
              \/ /\ pointers' = pointers
                 /\ \E e \in KeyEvent : arriving = <<e>> /\ keys' = Append(keys, e)
  <1>1. PICK e \in KeyEvent \cup {Move} : arriving = <<e>>
    BY ArrivingIs DEF Kernel!Accept
  <1>2. Head(arriving) = e /\ Tail(arriving) = <<>>
    BY <1>1
  <1>3. arriving' = <<>>
    BY <1>2 DEF Kernel!Accept
  <1>4. CASE e = Move
    BY <1>1, <1>2, <1>3, <1>4 DEF Kernel!Accept, Kernel!AppendIf
  <1>5. CASE e \in KeyEvent
    <2>1. e # Move
      BY <1>5, EventIs
    <2>. QED
      BY <1>1, <1>2, <1>3, <1>5, <2>1 DEF Kernel!Accept, Kernel!AppendIf
  <1>. QED
    BY <1>1, <1>4, <1>5

\* The driver copies an event that has arrived into the queue.
LEMMA DriverAccepts ==
    ASSUME KeysInv, enqueue_key
    PROVE  KeysInv'
  <1>. USE DEF KeysInv, KeysTrue
  <1>1. /\ UNCHANGED <<prog, down, key_focus, key_state, pump, view, missed>>
        /\ UNCHANGED <<g_key_queue, g_key_head, g_key_tail>>
        /\ dropped' = dropped \ KeysOf(arriving)
        /\ Kernel!Accept
    BY DEF enqueue_key, ring
  <1>2. KeysTypeOK'
    <2>1. Ring' = Ring
      BY <1>1 DEF Ring
    <2>. QED
      BY <1>1, <2>1 DEF KeysTypeOK
  <1>3. arriving' = <<>> /\ KeysOf(arriving') = {} /\ ArrivingTells'
    <2>1. arriving' = <<>> /\ \A d \in KeyEvent : <<>> # <<d>>
      BY <1>1, AcceptIs
    <2>. QED
      BY <2>1, KeysOfParts DEF ArrivingTells
  <1>4. CASE /\ arriving = <<Move>> /\ keys' = keys
             /\ pointers' = Append(pointers, Move)
    <2>1. KeysOf(arriving) = {}
      BY <1>4, MoveIsNoKey
    <2>2. QueuesOK'
      BY <1>3, <1>4 DEF QueuesOK
    <2>3. KeysTell'
      BY <1>1, <1>3, <1>4, <2>1 DEF KeysTell
    <2>4. \A i \in Heard' : i \in Heard /\ (i \in down' <=> i \in down)
      BY <1>1, <1>3, <1>4, <2>1 DEF Heard, OnTheWay
    <2>. QED
      BY <1>1, <1>2, <1>3, <2>2, <2>3, <2>4, HeldStaysTrue DEF ring
  <1>5. ASSUME NEW e \in KeyEvent,
               pointers' = pointers, arriving = <<e>>, keys' = Append(keys, e)
        PROVE  KeysInv'
    <2>1. /\ KeysOf(arriving) = {e[2]} \cap Mapped
          /\ KeysOf(keys') = KeysOf(keys) \cup ({e[2]} \cap Mapped)
      BY <1>5, KeyOfOne, KeysOfParts DEF QueuesOK
    <2>2. QueuesOK'
      BY <1>3, <1>5 DEF QueuesOK
    <2>3. KeysTell'
      <3>. DEFINE n == Len(keys)
      <3>1. /\ n \in Nat /\ Len(keys') = n + 1 /\ keys'[n + 1] = e
            /\ \A i \in 1..n : keys'[i] = keys[i]
        BY <1>5, AppendProperties DEF QueuesOK
      <3>2. e[1] = "kd" <=> e[2] \in down
        BY <1>5 DEF ArrivingTells
      <3>. SUFFICES ASSUME NEW k \in Mapped, k \notin dropped',
                           NEW i \in 1..(n + 1), keys'[i][2] = k,
                           \A j \in (i + 1)..(n + 1) : keys'[j][2] # k
                    PROVE  keys'[i][1] = "kd" <=> k \in down
        BY <1>1, <1>3, <3>1 DEF KeysTell
      <3>3. CASE i = n + 1
        BY <3>1, <3>2, <3>3
      <3>4. CASE i # n + 1
        <4>1. i \in 1..n /\ n + 1 \in (i + 1)..(n + 1)
          BY <3>1, <3>4
        <4>2. e[2] # k
          BY <3>1, <4>1
        <4>3. k \notin dropped /\ k \notin KeysOf(arriving)
          BY <1>1, <2>1, <4>2
        <4>4. \A j \in (i + 1)..n : keys[j][2] # k
          <5>1. \A j \in (i + 1)..n : j \in 1..n /\ j \in (i + 1)..(n + 1)
            BY <3>1, <4>1
          <5>. QED
            BY <3>1, <5>1
        <4>. QED
          BY <3>1, <4>1, <4>3, <4>4 DEF KeysTell
      <3>. QED
        BY <3>3, <3>4
    <2>4. \A i \in Heard' : i \in Heard /\ (i \in down' <=> i \in down)
      BY <1>1, <1>3, <2>1 DEF Heard, OnTheWay
    <2>. QED
      BY <1>1, <1>2, <1>3, <2>2, <2>3, <2>4, HeldStaysTrue DEF ring
  <1>. QED
    BY <1>1, <1>4, <1>5, AcceptIs

\* The driver finds the queue full: the keys are heard of no more.
LEMMA DriverDrops ==
    ASSUME KeysInv, enqueue_full
    PROVE  KeysInv'
  <1>. USE DEF KeysInv, KeysTrue
  <1>1. /\ UNCHANGED <<prog, down, key_focus, key_state, pump, view, missed>>
        /\ UNCHANGED <<g_key_queue, g_key_head, g_key_tail>>
        /\ dropped' = dropped \cup KeysOf(arriving)
        /\ UNCHANGED <<keys, pointers>>
    BY DEF enqueue_full, Kernel!Drop, ring
  <1>2. arriving' = <<>>
    <2>1. arriving # <<>> /\ arriving' = Tail(arriving)
      BY DEF enqueue_full, Kernel!Drop
    <2>2. PICK e \in KeyEvent \cup {Move} : arriving = <<e>>
      BY <2>1, ArrivingIs
    <2>3. Tail(<<e>>) = <<>>
      OBVIOUS
    <2>. QED
      BY <2>1, <2>2, <2>3
  <1>3. KeysTypeOK'
    <2>1. Ring' = Ring /\ KeysOf(arriving) \subseteq Mapped
      BY <1>1 DEF Ring, KeysOf
    <2>. QED
      BY <1>1, <2>1 DEF KeysTypeOK
  <1>4. KeysOf(arriving') = {} /\ ArrivingTells'
    <2>1. \A d \in KeyEvent : <<>> # <<d>>
      OBVIOUS
    <2>. QED
      BY <1>2, <2>1, KeysOfParts DEF ArrivingTells
  <1>5. QueuesOK'
    BY <1>1, <1>2 DEF QueuesOK
  <1>6. KeysTell'
    BY <1>1, <1>4 DEF KeysTell
  <1>7. \A i \in Heard' : i \in Heard /\ (i \in down' <=> i \in down)
    BY <1>1, <1>4 DEF Heard, OnTheWay
  <1>. QED
    BY <1>1, <1>3, <1>4, <1>5, <1>6, <1>7, HeldStaysTrue DEF ring

\* A read of a key: its reader learns where the key is, unless there are events of
\* it still to come, and who does not read it misses it.
LEMMA ReadTells ==
    ASSUME KeysInv, keys # <<>>, keys' = Tail(keys),
           UNCHANGED <<arriving, pointers, down, dropped>>,
           \A k \in missed : k \in missed' \/ k = Head(keys)[2]
    PROVE  /\ Head(keys) \in KeyEvent
           /\ QueuesOK' /\ ArrivingTells' /\ KeysTell'
           /\ \A k \in Heard' : IF k = Head(keys)[2] THEN Head(keys)[1] = "kd" <=> k \in down
                                ELSE k \in Heard
  <1>. USE DEF KeysInv
  <1>. DEFINE n == Len(keys)
              e == Head(keys)
  <1>1. /\ n \in Nat /\ n # 0 /\ keys' \in Seq(KeyEvent) /\ Len(keys') = n - 1 /\ e = keys[1]
        /\ e \in KeyEvent /\ \A i \in 1..(n - 1) : keys'[i] = keys[i + 1]
    BY EmptySeq, HeadTailProperties DEF QueuesOK
  <1>2. KeysOf(keys) = KeysOf(keys') \cup ({e[2]} \cap Mapped)
    BY KeysOfParts DEF QueuesOK
  <1>3. QueuesOK' /\ ArrivingTells'
    BY <1>1 DEF QueuesOK, ArrivingTells
  <1>4. KeysTell'
    <2>. SUFFICES ASSUME NEW k \in Mapped \ (KeysOf(arriving) \cup dropped),
                         NEW i \in 1..(n - 1), keys'[i][2] = k,
                         \A j \in (i + 1)..(n - 1) : keys'[j][2] # k
                  PROVE  keys'[i][1] = "kd" <=> k \in down
      BY <1>1 DEF KeysTell
    <2>1. i + 1 \in 1..n /\ keys[i + 1] = keys'[i]
      BY <1>1
    <2>2. \A j \in (i + 1 + 1)..n : keys[j][2] # k
      <3>. SUFFICES ASSUME NEW j \in (i + 1 + 1)..n PROVE keys[j][2] # k
        OBVIOUS
      <3>1. j - 1 \in (i + 1)..(n - 1) /\ j - 1 \in 1..(n - 1) /\ j - 1 + 1 = j
        BY <1>1
      <3>. QED
        BY <1>1, <3>1
    <2>. QED
      BY <2>1, <2>2 DEF KeysTell
  <1>5. ASSUME NEW k \in Heard', k # e[2]
        PROVE  k \in Heard
    BY <1>2, <1>5 DEF Heard, OnTheWay
  <1>6. ASSUME NEW k \in Heard', k = e[2]
        PROVE  e[1] = "kd" <=> k \in down
    <2>1. /\ k \in Mapped \ (KeysOf(arriving) \cup dropped) /\ k \notin KeysOf(keys')
      BY <1>6 DEF Heard, OnTheWay
    <2>2. \A j \in 2..n : keys[j][2] # k
      <3>. SUFFICES ASSUME NEW j \in 2..n PROVE keys[j][2] # k
        OBVIOUS
      <3>1. j - 1 \in 1..(n - 1) /\ j - 1 + 1 = j
        BY <1>1
      <3>2. keys'[j - 1] = keys[j] /\ keys'[j - 1] \in KeyEvent
        BY <1>1, <3>1
      <3>3. keys' \in Seq(KeyEvent \cup {Move})
        BY <1>1
      <3>4. keys'[j - 1] # Move
        BY <3>2, EventIs
      <3>5. \A i \in 1..Len(keys') : keys'[i] # Move => keys'[i][2] # k
        BY <2>1, <3>3, KeysOfIs
      <3>. QED
        BY <1>1, <3>1, <3>2, <3>4, <3>5
    <2>3. 1 \in 1..n /\ \A j \in (1 + 1)..n : keys[j][2] # k
      BY <1>1, <2>2
    <2>. QED
      BY <1>1, <1>6, <2>1, <2>3 DEF KeysTell
  <1>. QED
    BY <1>1, <1>3, <1>4, <1>5, <1>6


\* Types are kept by a step that changes neither the keyboard nor the ring.
LEMMA TypesStay ==
    ASSUME KeysTypeOK, UNCHANGED <<down, prog, view>>,
           UNCHANGED <<g_key_queue, g_key_head, g_key_tail>>,
           key_state' \subseteq Mapped \cup {None}, key_focus' \in {prog, "desktop"},
           pump' \in -1..PumpMax, dropped' \subseteq Mapped, missed' \subseteq Mapped
    PROVE  KeysTypeOK'
  <1>1. Ring' = Ring
    BY DEF Ring
  <1>. QED
    BY <1>1 DEF KeysTypeOK

\* The desktop reads: what it gets, the program misses.
LEMMA DesktopReads ==
    ASSUME KeysInv, desktop_reads
    PROVE  KeysInv'
  <1>. USE DEF KeysInv, KeysTrue
  <1>1. /\ UNCHANGED <<prog, dropped, down, key_focus, key_state, pump, view>>
        /\ UNCHANGED <<g_key_queue, g_key_head, g_key_tail>>
        /\ arriving' = arriving
    BY DEF desktop_reads, read_key, Kernel!Read, ring
  <1>2. CASE read_key("desktop") /\ missed' = ReadBy("desktop")
    <2>1. keys # <<>> /\ keys' = Tail(keys) /\ pointers' = pointers
      BY <1>2 DEF read_key
    <2>2. Head(keys) \in KeyEvent
      BY <2>1, HeadTailProperties DEF QueuesOK
    <2>3. missed' = missed \cup ({Head(keys)[2]} \cap Mapped)
      <3>1. "desktop" # prog
        BY DEF KeysTypeOK
      <3>. QED
        BY <1>2, <2>2, <3>1, KeyOfOne DEF ReadBy
    <2>4. /\ QueuesOK' /\ ArrivingTells' /\ KeysTell'
          /\ \A k \in Heard' : IF k = Head(keys)[2] THEN Head(keys)[1] = "kd" <=> k \in down
                               ELSE k \in Heard
      BY <1>1, <2>1, <2>3, ReadTells
    <2>5. \A k \in Heard' : k \in Heard /\ (k \in down' <=> k \in down)
      <3>1. \A k \in Heard' : k # Head(keys)[2]
        BY <2>3 DEF Heard
      <3>. QED
        BY <1>1, <2>4, <3>1
    <2>6. KeysTypeOK'
      <3>1. /\ key_state \subseteq Mapped \cup {None} /\ key_focus \in {prog, "desktop"}
            /\ pump \in -1..PumpMax /\ dropped \subseteq Mapped /\ missed' \subseteq Mapped
        BY <2>3 DEF KeysTypeOK
      <3>. QED
        BY <1>1, <3>1, TypesStay
    <2>. QED
      BY <1>1, <2>4, <2>5, <2>6, HeldStaysTrue DEF ring
  <1>3. CASE /\ pointers # <<>> /\ pointers' = Tail(pointers)
             /\ UNCHANGED <<keys, missed>>
    <2>1. QueuesOK'
      <3>1. Tail(pointers) \in Seq({Move})
        BY <1>3 DEF QueuesOK
      <3>. QED
        BY <1>1, <1>3, <3>1 DEF QueuesOK
    <2>2. ArrivingTells' /\ KeysTell'
      BY <1>1, <1>3 DEF ArrivingTells, KeysTell
    <2>3. \A k \in Heard' : k \in Heard /\ (k \in down' <=> k \in down)
      BY <1>1, <1>3 DEF Heard, OnTheWay
    <2>4. KeysTypeOK'
      <3>1. /\ key_state \subseteq Mapped \cup {None} /\ key_focus \in {prog, "desktop"}
            /\ pump \in -1..PumpMax /\ dropped \subseteq Mapped /\ missed \subseteq Mapped
        BY DEF KeysTypeOK
      <3>. QED
        BY <1>1, <1>3, <3>1, TypesStay
    <2>. QED
      BY <1>1, <1>3, <2>1, <2>2, <2>3, <2>4, HeldStaysTrue DEF ring
  <1>. QED
    BY <1>2, <1>3 DEF desktop_reads

\* The focus moves, or the program enters the loop of its library.
LEMMA NothingIsRead ==
    ASSUME KeysInv, focus_moves \/ am_input_keybrd
    PROVE  KeysInv'
  <1>. USE DEF KeysInv, KeysTrue
  <1>1. /\ UNCHANGED <<prog, down, key_state, view, dropped, missed>>
        /\ UNCHANGED <<arriving, keys, pointers>>
        /\ UNCHANGED <<g_key_queue, g_key_head, g_key_tail>>
    BY DEF focus_moves, am_input_keybrd, kernel, ring, heard
  <1>2. QueuesOK'
    BY <1>1 DEF QueuesOK
  <1>3. ArrivingTells' /\ KeysTell'
    BY <1>1 DEF ArrivingTells, KeysTell
  <1>4. \A k \in Heard' : k \in Heard /\ (k \in down' <=> k \in down)
    BY <1>1 DEF Heard, OnTheWay
  <1>5. KeysTypeOK'
    <2>1. /\ key_state \subseteq Mapped \cup {None} /\ key_focus \in {prog, "desktop"}
          /\ pump \in -1..PumpMax /\ dropped \subseteq Mapped /\ missed \subseteq Mapped
      BY DEF KeysTypeOK
    <2>2. key_focus' \in {prog, "desktop"} /\ pump' \in -1..PumpMax
      <3>1. PumpMax \in -1..PumpMax
        BY Sizes
      <3>. QED
        BY <2>1, <3>1 DEF focus_moves, am_input_keybrd
    <2>. QED
      BY <1>1, <2>1, <2>2, TypesStay
  <1>. QED
    BY <1>1, <1>2, <1>3, <1>4, <1>5, HeldStaysTrue DEF ring

\* miniSDL reads a key.
LEMMA SDLReads ==
    ASSUME KeysInv, SDL_PollEvent
    PROVE  KeysInv'
  <1>. USE DEF KeysInv, KeysTrue
  <1>. DEFINE e == Head(keys)
  <1>1. /\ UNCHANGED <<prog, dropped, down, key_focus, pump, view>>
        /\ UNCHANGED <<g_key_queue, g_key_head, g_key_tail>>
        /\ arriving' = arriving /\ pointers' = pointers
        /\ keys # <<>> /\ keys' = Tail(keys)
        /\ missed' = ReadBy("sdl") /\ key_state' = parse_event(e) /\ key_focus = "sdl"
    BY DEF SDL_PollEvent, read_key, Kernel!Read, ring
  <1>2. prog = "sdl"
    BY <1>1 DEF KeysTypeOK
  <1>3. e \in KeyEvent
    BY <1>1, HeadTailProperties DEF QueuesOK
  <1>4. missed' = missed \ ({e[2]} \cap Mapped)
    BY <1>1, <1>2, <1>3, KeyOfOne DEF ReadBy
  <1>5. /\ QueuesOK' /\ ArrivingTells' /\ KeysTell'
        /\ \A k \in Heard' : IF k = e[2] THEN e[1] = "kd" <=> k \in down ELSE k \in Heard
    BY <1>1, <1>4, ReadTells
  <1>6. RingOK'
    <2>1. Ring' = Ring
      BY <1>1 DEF Ring
    <2>. QED
      BY <1>1, <2>1 DEF RingOK
  <1>7. KeyStateTrue'
    <2>1. ASSUME NEW k \in Heard' PROVE k \in key_state' <=> k \in down'
      <3>1. k \in Mapped /\ k # None
        BY Sizes DEF Heard
      <3>2. CASE k = e[2]
        BY <1>1, <1>5, <3>1, <3>2 DEF parse_event, linux_code_to_sdl
      <3>3. CASE k # e[2]
        <4>1. k \in key_state <=> k \in down
          BY <1>2, <1>5, <3>3 DEF KeyStateTrue
        <4>. QED
          BY <1>1, <3>1, <3>3, <4>1 DEF parse_event, linux_code_to_sdl
      <3>. QED
        BY <3>2, <3>3
    <2>. QED
      BY <2>1 DEF KeyStateTrue
  <1>8. ViewTrue'
    BY <1>1, <1>2 DEF ViewTrue
  <1>9. KeysTypeOK'
    <2>1. key_state' \subseteq Mapped \cup {None}
      BY <1>1 DEF KeysTypeOK, parse_event, linux_code_to_sdl
    <2>2. /\ key_focus \in {prog, "desktop"}
          /\ pump \in -1..PumpMax /\ dropped \subseteq Mapped /\ missed' \subseteq Mapped
      BY <1>4 DEF KeysTypeOK
    <2>. QED
      BY <1>1, <2>1, <2>2, TypesStay
  <1>. QED
    BY <1>5, <1>6, <1>7, <1>8, <1>9

\* Another program on miniSDL takes nothing for pressed; it has missed what is.
LEMMA SDLStarts ==
    ASSUME KeysInv, sdl_starts
    PROVE  KeysInv'
  <1>. USE DEF KeysInv, KeysTrue
  <1>1. /\ UNCHANGED <<prog, dropped, down, key_focus, pump, view>>
        /\ UNCHANGED <<g_key_queue, g_key_head, g_key_tail>>
        /\ UNCHANGED <<arriving, keys, pointers>>
        /\ missed' = down \cap Mapped /\ key_state' = {} /\ prog = "sdl"
    BY DEF sdl_starts, kernel, ring
  <1>2. QueuesOK' /\ ArrivingTells' /\ KeysTell'
    BY <1>1 DEF QueuesOK, ArrivingTells, KeysTell
  <1>3. RingOK'
    <2>1. Ring' = Ring
      BY <1>1 DEF Ring
    <2>. QED
      BY <1>1, <2>1 DEF RingOK
  <1>4. KeyStateTrue' /\ ViewTrue'
    BY <1>1 DEF KeyStateTrue, ViewTrue, Heard
  <1>5. KeysTypeOK'
    <2>1. /\ key_focus \in {prog, "desktop"} /\ pump \in -1..PumpMax
          /\ dropped \subseteq Mapped /\ missed' \subseteq Mapped
          /\ key_state' \subseteq Mapped \cup {None}
      BY <1>1 DEF KeysTypeOK
    <2>. QED
      BY <1>1, <2>1, TypesStay
  <1>. QED
    BY <1>2, <1>3, <1>4, <1>5


\* A loop turn of libam moves a key's event into the ring, or drops it.
LEMMA PumpReads ==
    ASSUME KeysInv, pump_input_events
    PROVE  KeysInv'
  <1>. USE DEF KeysInv, KeysTrue
  <1>. DEFINE e == Head(keys)
              known == linux_keycode_to_am(e[2]) # None
              full == next_tail = g_key_head
  <1>1. /\ UNCHANGED <<prog, dropped, down, key_focus, key_state, view>>
        /\ arriving' = arriving /\ pointers' = pointers
        /\ keys # <<>> /\ keys' = Tail(keys) /\ key_focus = "am"
        /\ pump > 0 /\ pump' = pump - 1
        /\ IF known THEN keyq_push(e) ELSE UNCHANGED ring
        /\ missed' = IF known /\ full THEN missed \cup {e[2]} ELSE ReadBy("am")
    BY DEF pump_input_events, read_key, Kernel!Read
  <1>2. prog = "am" /\ g_key_head \in RingIdx /\ g_key_tail \in RingIdx
    BY <1>1 DEF KeysTypeOK
  <1>3. e \in KeyEvent /\ e[2] \in Key /\ e[1] \in {"kd", "ku"} /\ e = <<e[1], e[2]>>
    BY <1>1, HeadTailProperties, EventIs DEF QueuesOK
  <1>4. ReadBy("am") = missed \ ({e[2]} \cap Mapped)
    BY <1>2, <1>3, KeyOfOne DEF ReadBy
  <1>5. known <=> e[2] \in Mapped
    BY <1>3, Sizes DEF linux_keycode_to_am
  <1>. HIDE DEF e, known, full
  <1>6. /\ QueuesOK' /\ ArrivingTells' /\ KeysTell'
        /\ \A k \in Heard' : IF k = e[2] THEN e[1] = "kd" <=> k \in down ELSE k \in Heard
    <2>1. \A k \in missed : k \in missed' \/ k = e[2]
      BY <1>1, <1>4
    <2>. QED
      BY <1>1, <2>1, ReadTells DEF e
  <1>7. KeyStateTrue'
    BY <1>1, <1>2 DEF KeyStateTrue
  <1>8. ASSUME g_key_tail' \in RingIdx, g_key_head' \in RingIdx, RingOK'
        PROVE  KeysTypeOK'
    <2>1. pump' \in -1..PumpMax
      BY <1>1, Sizes DEF KeysTypeOK
    <2>2. missed' \subseteq Mapped
      BY <1>1, <1>4, <1>5 DEF KeysTypeOK
    <2>3. \A i \in 1..Len(Ring') : Ring'[i] \in {"kd", "ku"} \X Mapped
      BY <1>8 DEF RingOK, RingEvent
    <2>. QED
      BY <1>1, <1>8, <2>1, <2>2, <2>3 DEF KeysTypeOK
  <1>9. CASE ~known \/ full
    <2>1. UNCHANGED <<g_key_queue, g_key_head, g_key_tail>>
      BY <1>1, <1>9 DEF keyq_push, ring, full
    <2>2. RingOK' /\ Ring' = Ring
      <3>1. Ring' = Ring
        BY <2>1 DEF Ring
      <3>. QED
        BY <2>1, <3>1 DEF RingOK
    <2>3. ViewTrue'
      <3>1. HeldAfter(view, Ring)' = HeldAfter(view, Ring)
        BY <1>1, <2>2 DEF HeldAfter
      <3>2. \A k \in Heard' : k # e[2]
        BY <1>1, <1>5, <1>9 DEF Heard
      <3>3. \A k \in Heard' : k \in Heard
        BY <1>6, <3>2
      <3>. QED
        BY <1>1, <3>1, <3>3 DEF ViewTrue
    <2>. QED
      BY <1>2, <1>6, <1>7, <1>8, <2>1, <2>2, <2>3
  <1>10. CASE known /\ ~full
    <2>1. e \in RingEvent
      BY <1>3, <1>5, <1>10 DEF RingEvent
    <2>2. /\ g_key_tail' \in RingIdx /\ g_key_head' = g_key_head
          /\ DOMAIN g_key_queue' = RingIdx
          /\ Ring' = Append(Ring, e)
      BY <1>1, <1>2, <1>10, PushAppends DEF RingOK, full
    <2>3. RingOK'
      BY <2>1, <2>2 DEF RingOK
    <2>4. ViewTrue'
      <3>1. ASSUME NEW k \in Heard' PROVE k \in HeldAfter(view, Ring)' <=> k \in down'
        <4>1. k \in Key
          BY Sizes DEF Heard
        <4>2. Ring \in Seq(KeyEvent)
          BY Sizes DEF RingOK, RingEvent, KeyEvent
        <4>3. k \in HeldAfter(view, Append(Ring, e)) <=>
                IF e[2] = k THEN e[1] = "kd" ELSE k \in HeldAfter(view, Ring)
          BY <1>3, <4>1, <4>2, HeldAppend
        <4>4. HeldAfter(view, Ring)' = HeldAfter(view, Append(Ring, e))
          BY <1>1, <2>2 DEF HeldAfter
        <4>5. k # e[2] => (k \in HeldAfter(view, Ring) <=> k \in down)
          BY <1>2, <1>6, <3>1 DEF ViewTrue
        <4>. QED
          BY <1>1, <1>6, <3>1, <4>3, <4>4, <4>5
      <3>. QED
        BY <3>1 DEF ViewTrue
    <2>. QED
      BY <1>2, <1>6, <1>7, <1>8, <2>2, <2>3, <2>4
  <1>. QED
    BY <1>9, <1>10

\* The program takes the oldest event of the ring.
LEMMA ProgramPops ==
    ASSUME KeysInv, keyq_pop
    PROVE  KeysInv'
  <1>. USE DEF KeysInv, KeysTrue
  <1>1. /\ UNCHANGED <<prog, down, key_focus, key_state, dropped, missed>>
        /\ UNCHANGED <<arriving, keys, pointers>> /\ pump' = -1
        /\ IF keyq_empty THEN UNCHANGED <<ring, view>>
           ELSE /\ view' = Apply(view, g_key_queue[g_key_head])
                /\ g_key_head' = (g_key_head + 1) % KEY_QUEUE_LEN
                /\ UNCHANGED <<g_key_queue, g_key_tail>>
    BY DEF keyq_pop, kernel, heard
  <1>2. QueuesOK' /\ ArrivingTells' /\ KeysTell'
    BY <1>1 DEF QueuesOK, ArrivingTells, KeysTell
  <1>3. Heard' = Heard
    BY <1>1 DEF Heard, OnTheWay
  <1>4. KeyStateTrue'
    BY <1>1, <1>3 DEF KeyStateTrue
  <1>5. ASSUME g_key_tail' \in RingIdx, g_key_head' \in RingIdx, RingOK', view' \subseteq Mapped
        PROVE  KeysTypeOK'
    <2>1. \A i \in 1..Len(Ring') : Ring'[i] \in {"kd", "ku"} \X Mapped
      BY <1>5 DEF RingOK, RingEvent
    <2>2. -1 \in -1..PumpMax
      BY Sizes
    <2>. QED
      BY <1>1, <1>5, <2>1, <2>2 DEF KeysTypeOK
  <1>6. CASE keyq_empty
    <2>1. UNCHANGED <<g_key_queue, g_key_head, g_key_tail>> /\ view' = view
      BY <1>1, <1>6 DEF ring
    <2>2. Ring' = Ring
      BY <2>1 DEF Ring
    <2>3. RingOK'
      BY <2>1, <2>2 DEF RingOK
    <2>4. ViewTrue'
      <3>1. HeldAfter(view, Ring)' = HeldAfter(view, Ring)
        BY <2>1, <2>2 DEF HeldAfter
      <3>. QED
        BY <1>1, <1>3, <3>1 DEF ViewTrue
    <2>5. g_key_tail' \in RingIdx /\ g_key_head' \in RingIdx /\ view' \subseteq Mapped
      BY <2>1 DEF KeysTypeOK
    <2>. QED
      BY <1>2, <1>4, <1>5, <2>3, <2>4, <2>5
  <1>7. CASE ~keyq_empty
    <2>. DEFINE e == Head(Ring)
    <2>1. /\ view' = Apply(view, g_key_queue[g_key_head])
          /\ g_key_head' = (g_key_head + 1) % KEY_QUEUE_LEN
          /\ UNCHANGED <<g_key_queue, g_key_tail>>
      BY <1>1, <1>7
    <2>2. /\ g_key_head' \in RingIdx
          /\ Ring # <<>> /\ g_key_queue[g_key_head] = e
          /\ Ring' = Tail(Ring)
      BY <1>7, <2>1, PopTakesOldest DEF RingOK, KeysTypeOK
    <2>3. e \in RingEvent /\ Tail(Ring) \in Seq(RingEvent)
      BY <2>2, HeadTailProperties DEF RingOK
    <2>4. RingOK'
      BY <2>1, <2>2, <2>3 DEF RingOK
    <2>5. ViewTrue'
      <3>1. Ring \in Seq(KeyEvent)
        BY Sizes DEF RingOK, RingEvent, KeyEvent
      <3>2. HeldAfter(view, Ring)' = HeldAfter(Apply(view, e), Tail(Ring))
        BY <2>1, <2>2 DEF HeldAfter
      <3>3. \A k \in Key : k \in HeldAfter(view, Ring)' <=> k \in HeldAfter(view, Ring)
        BY <2>2, <3>1, <3>2, HeldTail
      <3>4. Heard \subseteq Key
        BY Sizes DEF Heard
      <3>. QED
        BY <1>1, <1>3, <3>3, <3>4 DEF ViewTrue
    <2>6. view' \subseteq Mapped
      <3>1. e[2] \in Mapped
        BY <2>3 DEF RingEvent
      <3>. QED
        BY <2>1, <2>2, <3>1 DEF KeysTypeOK, Apply
    <2>7. g_key_tail' \in RingIdx
      BY <2>1 DEF KeysTypeOK
    <2>. QED
      BY <1>2, <1>4, <1>5, <2>2, <2>4, <2>5, <2>6, <2>7
  <1>. QED
    BY <1>6, <1>7

\* A step that changes nothing.
LEMMA KeysStutter ==
    ASSUME KeysInv, UNCHANGED keysVars
    PROVE  KeysInv'
  <1>. USE DEF KeysInv, KeysTrue
  <1>1. /\ UNCHANGED <<prog, down, key_focus, key_state, pump, view, dropped, missed>>
        /\ UNCHANGED <<arriving, keys, pointers>>
        /\ UNCHANGED <<g_key_queue, g_key_head, g_key_tail>>
    BY DEF keysVars, kernel, ring, heard
  <1>2. QueuesOK' /\ ArrivingTells' /\ KeysTell'
    BY <1>1 DEF QueuesOK, ArrivingTells, KeysTell
  <1>3. \A k \in Heard' : k \in Heard /\ (k \in down' <=> k \in down)
    BY <1>1 DEF Heard, OnTheWay
  <1>4. KeysTypeOK'
    <2>1. /\ key_state \subseteq Mapped \cup {None} /\ key_focus \in {prog, "desktop"}
          /\ pump \in -1..PumpMax /\ dropped \subseteq Mapped /\ missed \subseteq Mapped
      BY DEF KeysTypeOK
    <2>. QED
      BY <1>1, <2>1, TypesStay
  <1>. QED
    BY <1>1, <1>2, <1>3, <1>4, HeldStaysTrue DEF ring

\* Every step keeps the invariant.
LEMMA KeysInvStep == KeysInv /\ [KeysNext]_keysVars => KeysInv'
  <1>. SUFFICES ASSUME KeysInv, [KeysNext]_keysVars PROVE KeysInv'
    OBVIOUS
  <1>1. ASSUME NEW k \in Key, key_press(k) \/ key_release(k) PROVE KeysInv'
    BY <1>1, KeyMoves
  <1>2. CASE pointer_moves
    BY <1>2, PointerMoves
  <1>3. CASE enqueue_key
    BY <1>3, DriverAccepts
  <1>4. CASE enqueue_full
    BY <1>4, DriverDrops
  <1>5. CASE desktop_reads
    BY <1>5, DesktopReads
  <1>6. CASE focus_moves \/ am_input_keybrd
    BY <1>6, NothingIsRead
  <1>7. CASE SDL_PollEvent
    BY <1>7, SDLReads
  <1>8. CASE sdl_starts
    BY <1>8, SDLStarts
  <1>9. CASE pump_input_events
    BY <1>9, PumpReads
  <1>10. CASE keyq_pop
    BY <1>10, ProgramPops
  <1>11. CASE UNCHANGED keysVars
    BY <1>11, KeysStutter
  <1>. QED
    BY <1>1, <1>2, <1>3, <1>4, <1>5, <1>6, <1>7, <1>8, <1>9, <1>10, <1>11 DEF KeysNext

\* What a program takes for pressed is pressed, with either library, but for keys whose
\* last event was dropped or went to another program (parse_event of miniSDL, the ring
\* of libam), whatever the sizes of the queues and the keys of the keyboard.
THEOREM KeysAlwaysTrue == KeysSpec => []KeysTrue
  <1>1. KeysInv => KeysTrue
    BY DEF KeysInv
  <1>. QED
    BY <1>1, KeysInvInit, KeysInvStep, PTL DEF KeysSpec
=============================================================================
