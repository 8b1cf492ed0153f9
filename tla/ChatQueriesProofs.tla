------------------------- MODULE ChatQueriesProofs -------------------------
(***************************************************************************)
(* Proofs about ChatQueries and its ConversationCache, for any number of   *)
(* queries and conversations and any limits: the table of pending queries  *)
(* stays within its limit, outcomes are kept, the cache stays within its   *)
(* caps and gives every conversation its own turns.                        *)
(***************************************************************************)
EXTENDS ChatQueries, FiniteSetTheorems, SequenceTheorems, TLAPS

USE CapsAssumption, SlotsAssumption, ServersAssumption, TimesAssumption

-----------------------------------------------------------------------------
\* Lists of keys.

In(x, s) == \E i \in 1..Len(s) : s[i] = x
Inj(s) == \A i, j \in 1..Len(s) : s[i] = s[j] => i = j

LEMMA RemoveAtIs ==
  ASSUME NEW S, NEW s \in Seq(S), NEW i \in 1..Len(s)
  PROVE  /\ RemoveAt(s, i) \in Seq(S)
         /\ Len(RemoveAt(s, i)) = Len(s) - 1
         /\ \A j \in 1..(Len(s) - 1) : RemoveAt(s, i)[j] = IF j < i THEN s[j] ELSE s[j + 1]
  <1> DEFINE a == SubSeq(s, 1, i - 1)
  <1> DEFINE b == SubSeq(s, i + 1, Len(s))
  <1>1. a \in Seq(S) /\ Len(a) = i - 1 /\ \A j \in 1..(i - 1) : a[j] = s[j]
    OBVIOUS
  <1>2. b \in Seq(S) /\ Len(b) = Len(s) - i /\ \A j \in 1..(Len(s) - i) : b[j] = s[i + j]
    OBVIOUS
  <1>3. RemoveAt(s, i) = a \o b
    BY DEF RemoveAt
  <1> HIDE DEF a, b
  <1>4. /\ a \o b \in Seq(S) /\ Len(a \o b) = Len(a) + Len(b)
        /\ \A j \in 1..(Len(a) + Len(b)) : (a \o b)[j] = IF j <= Len(a) THEN a[j] ELSE b[j - Len(a)]
    BY <1>1, <1>2, ConcatProperties
  <1> QED BY <1>1, <1>2, <1>3, <1>4

\* Removing a key from a list without repetitions.
LEMMA WithoutIs ==
  ASSUME NEW s \in Seq(Conversations), Inj(s), NEW c \in Conversations
  PROVE  /\ Without(s, c) \in Seq(Conversations) /\ Inj(Without(s, c))
         /\ \A d \in Conversations : In(d, Without(s, c)) <=> In(d, s) /\ d # c
         /\ Len(Without(s, c)) = IF In(c, s) THEN Len(s) - 1 ELSE Len(s)
  <1>1. CASE ~In(c, s)
    <2>1. Without(s, c) = s
      BY <1>1 DEF Without, Contains, In
    <2> QED BY <1>1, <2>1 DEF In
  <1>2. CASE In(c, s)
    <2> DEFINE k == CHOOSE i \in 1..Len(s) : s[i] = c
    <2>1. k \in 1..Len(s) /\ s[k] = c
      BY <1>2 DEF In
    <2>2. Without(s, c) = RemoveAt(s, k)
      BY <1>2 DEF Without, Contains, In
    <2> HIDE DEF k
    <2> DEFINE w == Without(s, c)
    <2>3. /\ w \in Seq(Conversations) /\ Len(w) = Len(s) - 1
          /\ \A j \in 1..(Len(s) - 1) : w[j] = IF j < k THEN s[j] ELSE s[j + 1]
      BY <2>1, <2>2, RemoveAtIs
    <2> HIDE DEF w
    <2>4. Inj(w)
      BY <2>1, <2>3 DEF Inj
    <2>5. ASSUME NEW d \in Conversations PROVE In(d, w) <=> In(d, s) /\ d # c
      <3>1. ASSUME NEW j \in 1..Len(w) PROVE In(w[j], s) /\ w[j] # c
        <4>1. PICK i \in 1..Len(s) : i # k /\ w[j] = s[i]
          BY <2>1, <2>3
        <4> QED BY <2>1, <4>1 DEF In, Inj
      <3>2. ASSUME NEW i \in 1..Len(s), s[i] # c PROVE In(s[i], w)
        <4>1. CASE i < k
          BY <2>1, <2>3, <4>1 DEF In
        <4>2. CASE i > k
          <5>1. i - 1 \in 1..Len(w) /\ w[i - 1] = s[i]
            BY <2>1, <2>3, <4>2
          <5> QED BY <5>1 DEF In
        <4> QED BY <2>1, <3>2, <4>1, <4>2
      <3>3. In(d, w) => In(d, s) /\ d # c
        BY <3>1 DEF In
      <3>4. In(d, s) /\ d # c => In(d, w)
        BY <3>2 DEF In
      <3> QED BY <3>3, <3>4
    <2> QED BY <1>2, <2>3, <2>4, <2>5 DEF w
  <1> QED BY <1>1, <1>2

LEMMA AppendIs ==
  ASSUME NEW s \in Seq(Conversations), Inj(s), NEW c \in Conversations, ~In(c, s)
  PROVE  /\ Append(s, c) \in Seq(Conversations) /\ Inj(Append(s, c))
         /\ \A d \in Conversations : In(d, Append(s, c)) <=> In(d, s) \/ d = c
         /\ Len(Append(s, c)) = Len(s) + 1
  <1> DEFINE a == Append(s, c)
  <1>1. a \in Seq(Conversations) /\ Len(a) = Len(s) + 1 /\ a[Len(s) + 1] = c
        /\ \A i \in 1..Len(s) : a[i] = s[i]
    OBVIOUS
  <1> HIDE DEF a
  <1>2. Inj(a)
    BY <1>1 DEF Inj, In
  <1>3. ASSUME NEW d \in Conversations PROVE In(d, a) <=> In(d, s) \/ d = c
    <2>1. \A i \in 1..Len(a) : i \in 1..Len(s) \/ i = Len(s) + 1
      BY <1>1
    <2>2. In(d, a) => In(d, s) \/ d = c
      BY <1>1, <2>1 DEF In
    <2>3. In(d, s) => In(d, a)
      BY <1>1 DEF In
    <2>4. In(c, a)
      BY <1>1 DEF In
    <2> QED BY <2>2, <2>3, <2>4
  <1> QED BY <1>1, <1>2, <1>3 DEF a

LEMMA TailIs ==
  ASSUME NEW s \in Seq(Conversations), Inj(s), s # <<>>
  PROVE  /\ Tail(s) \in Seq(Conversations) /\ Inj(Tail(s)) /\ s[1] \in Conversations
         /\ \A d \in Conversations : In(d, Tail(s)) <=> In(d, s) /\ d # s[1]
         /\ Len(Tail(s)) = Len(s) - 1
  <1> DEFINE w == Tail(s)
  <1>1. w \in Seq(Conversations) /\ Len(w) = Len(s) - 1 /\ Len(s) >= 1 /\ Len(s) \in Nat
        /\ \A i \in 1..(Len(s) - 1) : w[i] = s[i + 1]
    OBVIOUS
  <1> HIDE DEF w
  <1>2. Inj(w)
    BY <1>1 DEF Inj
  <1>3. ASSUME NEW d \in Conversations PROVE In(d, w) <=> In(d, s) /\ d # s[1]
    <2>1. ASSUME NEW j \in 1..Len(w) PROVE In(w[j], s) /\ w[j] # s[1]
      <3>1. j + 1 \in 1..Len(s) /\ w[j] = s[j + 1] /\ 1 \in 1..Len(s)
        BY <1>1
      <3> QED BY <3>1 DEF In, Inj
    <2>2. ASSUME NEW i \in 1..Len(s), s[i] # s[1] PROVE In(s[i], w)
      <3>1. i - 1 \in 1..Len(w) /\ w[i - 1] = s[i]
        BY <1>1, <2>2
      <3> QED BY <3>1 DEF In
    <2>3. In(d, w) => In(d, s) /\ d # s[1]
      BY <2>1 DEF In
    <2>4. In(d, s) /\ d # s[1] => In(d, w)
      BY <2>2 DEF In
    <2> QED BY <2>3, <2>4
  <1> QED BY <1>1, <1>2, <1>3 DEF w

LEMMA TrimmedIs ==
  ASSUME NEW l \in Seq(Conversations), l # <<>>
  PROVE  /\ Trimmed(l) \in Seq(Conversations) /\ Trimmed(l) # <<>>
         /\ MaxTurns > 0 => Len(Trimmed(l)) <= MaxTurns
         /\ \A i \in 1..Len(Trimmed(l)) : \E j \in 1..Len(l) : Trimmed(l)[i] = l[j]
  <1>1. CASE MaxTurns > 0 /\ Len(l) > MaxTurns
    <2> DEFINE m == Len(l) - MaxTurns + 1
    <2>1. Trimmed(l) = SubSeq(l, m, Len(l))
      BY <1>1 DEF Trimmed
    <2>2. m \in 1..Len(l) /\ Len(l) \in Nat
      BY <1>1
    <2> HIDE DEF m
    <2>3. /\ SubSeq(l, m, Len(l)) \in Seq(Conversations)
          /\ Len(SubSeq(l, m, Len(l))) = Len(l) - m + 1
          /\ \A i \in 1..(Len(l) - m + 1) : SubSeq(l, m, Len(l))[i] = l[m + i - 1]
      BY <2>2, SubSeqProperties
    <2>4. Len(l) - m + 1 = MaxTurns
      BY <1>1 DEF m
    <2>5. ASSUME NEW i \in 1..Len(Trimmed(l)) PROVE \E j \in 1..Len(l) : Trimmed(l)[i] = l[j]
      <3>1. m + i - 1 \in 1..Len(l)
        BY <2>1, <2>2, <2>3
      <3>2. i \in 1..(Len(l) - m + 1)
        BY <2>1, <2>3
      <3>3. Trimmed(l)[i] = l[m + i - 1]
        BY <2>1, <2>3, <3>2
      <3> QED BY <3>1, <3>3
    <2>6. Trimmed(l) \in Seq(Conversations) /\ Len(Trimmed(l)) = MaxTurns
      BY <2>1, <2>3, <2>4
    <2>7. Trimmed(l) # <<>>
      BY <1>1, <2>6
    <2> QED BY <2>5, <2>6, <2>7
  <1>2. CASE ~(MaxTurns > 0 /\ Len(l) > MaxTurns)
    BY <1>2 DEF Trimmed
  <1> QED BY <1>1, <1>2

-----------------------------------------------------------------------------
\* The operations of the cache.

CacheOK == CacheTypeOK /\ CacheBounded

\* The caps and the agreement of the two views, in the terms of the lemmas above.
LEMMA CacheOKIs ==
  CacheOK <=> /\ order \in Seq(Conversations) /\ turns \in [Conversations -> Seq(Conversations)]
              /\ Inj(order) /\ \A c \in Conversations : Cached(c) <=> In(c, order)
              /\ MaxConversations > 0 => Len(order) <= MaxConversations
              /\ MaxTurns > 0 => \A c \in Conversations : Len(turns[c]) <= MaxTurns
  BY DEF CacheOK, CacheTypeOK, CacheBounded, Keyed, Inj, In

\* The same of the next state, from the primed parts.
LEMMA CacheOKNext ==
  ASSUME order' \in Seq(Conversations), turns' \in [Conversations -> Seq(Conversations)],
         Inj(order'), \A c \in Conversations : turns'[c] # <<>> <=> In(c, order'),
         MaxConversations > 0 => Len(order') <= MaxConversations,
         MaxTurns > 0 => \A c \in Conversations : Len(turns'[c]) <= MaxTurns
  PROVE  CacheOK'
  BY DEF CacheOK, CacheTypeOK, CacheBounded, Keyed, Inj, In, Cached

LEMMA NewestIs ==
  ASSUME CacheOK, NEW c \in Conversations
  PROVE  /\ Newest(c) \in Seq(Conversations) /\ Inj(Newest(c))
         /\ \A d \in Conversations : In(d, Newest(c)) <=> In(d, order) \/ d = c
         /\ Len(Newest(c)) = IF In(c, order) THEN Len(order) ELSE Len(order) + 1
  <1>1. order \in Seq(Conversations) /\ Inj(order)
    BY CacheOKIs
  <1> DEFINE w == Without(order, c)
  <1>2. /\ w \in Seq(Conversations) /\ Inj(w)
        /\ \A d \in Conversations : In(d, w) <=> In(d, order) /\ d # c
        /\ Len(w) = IF In(c, order) THEN Len(order) - 1 ELSE Len(order)
    BY <1>1, WithoutIs
  <1>3. Newest(c) = Append(w, c)
    BY DEF Newest
  <1> HIDE DEF w
  <1>4. /\ Append(w, c) \in Seq(Conversations) /\ Inj(Append(w, c))
        /\ \A d \in Conversations : In(d, Append(w, c)) <=> In(d, w) \/ d = c
        /\ Len(Append(w, c)) = Len(w) + 1
    BY <1>2, AppendIs
  <1>5. Len(order) \in Nat
    BY <1>1
  <1> QED BY <1>2, <1>3, <1>4, <1>5

LEMMA TouchOK ==
  ASSUME CacheOK, NEW c \in Conversations, Touch(c)
  PROVE  CacheOK'
  <1>1. CASE Cached(c)
    <2>1. order' = Newest(c) /\ turns' = turns /\ In(c, order)
      BY <1>1, CacheOKIs DEF Touch
    <2>2. /\ order' \in Seq(Conversations) /\ Inj(order') /\ Len(order') = Len(order)
          /\ \A d \in Conversations : In(d, order') <=> In(d, order)
      BY <2>1, NewestIs
    <2>3. \A d \in Conversations : turns'[d] # <<>> <=> In(d, order')
      BY <2>1, <2>2, CacheOKIs DEF Cached
    <2> QED BY <2>1, <2>2, <2>3, CacheOKIs, CacheOKNext
  <1>2. CASE ~Cached(c)
    BY <1>2 DEF Touch, CacheOK, CacheTypeOK, CacheBounded, Keyed, Cached
  <1> QED BY <1>1, <1>2

LEMMA ForgetOK ==
  ASSUME CacheOK, NEW c \in Conversations, Forget(c)
  PROVE  CacheOK'
  <1>1. order' = Without(order, c) /\ turns' = [turns EXCEPT ![c] = <<>>]
    BY DEF Forget
  <1>2. /\ order' \in Seq(Conversations) /\ Inj(order')
        /\ \A d \in Conversations : In(d, order') <=> In(d, order) /\ d # c
        /\ Len(order') = IF In(c, order) THEN Len(order) - 1 ELSE Len(order)
    BY <1>1, WithoutIs, CacheOKIs
  <1>3. turns \in [Conversations -> Seq(Conversations)] /\ order \in Seq(Conversations)
    BY CacheOKIs
  <1>4. \A d \in Conversations : turns'[d] = IF d = c THEN <<>> ELSE turns[d]
    BY <1>1, <1>3
  <1>5. turns' \in [Conversations -> Seq(Conversations)]
    BY <1>1, <1>3
  <1>6. \A d \in Conversations : turns'[d] # <<>> <=> In(d, order')
    BY <1>2, <1>4, CacheOKIs DEF Cached
  <1>7. MaxConversations > 0 => Len(order') <= MaxConversations
    BY <1>2, <1>3, CacheOKIs
  <1>8. MaxTurns > 0 => \A d \in Conversations : Len(turns'[d]) <= MaxTurns
    BY <1>4, CacheOKIs
  <1> QED BY <1>2, <1>5, <1>6, <1>7, <1>8, CacheOKNext

LEMMA CacheTurnOK ==
  ASSUME CacheOK, NEW c \in Conversations, NEW turn \in Conversations, CacheTurn(c, turn)
  PROVE  /\ CacheOK'
         /\ \A d \in Conversations \ {c} : turns'[d] = turns[d] \/ turns'[d] = <<>>
         /\ turns'[c] = Trimmed(Append(turns[c], turn))
  <1>1. /\ order \in Seq(Conversations) /\ turns \in [Conversations -> Seq(Conversations)]
        /\ Inj(order) /\ Len(order) \in Nat
        /\ \A d \in Conversations : turns[d] # <<>> <=> In(d, order)
        /\ MaxConversations > 0 => Len(order) <= MaxConversations
        /\ MaxTurns > 0 => \A d \in Conversations : Len(turns[d]) <= MaxTurns
    BY CacheOKIs DEF Cached
  <1> DEFINE l == Trimmed(Append(turns[c], turn))
  <1>2. /\ l \in Seq(Conversations) /\ l # <<>>
        /\ MaxTurns > 0 => Len(l) <= MaxTurns
    <2>0. turns[c] \in Seq(Conversations)
      BY <1>1
    <2>1. Append(turns[c], turn) \in Seq(Conversations) /\ Append(turns[c], turn) # <<>>
      BY <2>0, AppendProperties
    <2> QED BY <2>1, TrimmedIs
  <1>3. \A d \in Conversations :
          turns'[d] = IF d = c THEN l ELSE IF d \in Evicted(c) THEN <<>> ELSE turns[d]
    BY DEF CacheTurn
  <1>4. turns' = [d \in Conversations |->
          IF d = c THEN l ELSE IF d \in Evicted(c) THEN <<>> ELSE turns[d]]
    BY DEF CacheTurn
  <1> HIDE DEF l
  <1>5. turns' \in [Conversations -> Seq(Conversations)]
    <2>1. <<>> \in Seq(Conversations) /\ \A d \in Conversations : turns[d] \in Seq(Conversations)
      BY <1>1
    <2> QED BY <1>2, <1>4, <2>1
  <1>6. MaxTurns > 0 => \A d \in Conversations : Len(turns'[d]) <= MaxTurns
    <2>1. Len(<<>>) = 0
      OBVIOUS
    <2>2. ASSUME NEW d \in Conversations, MaxTurns > 0 PROVE Len(turns'[d]) <= MaxTurns
      <3>1. CASE d = c BY <1>2, <1>3, <2>2, <3>1
      <3>2. CASE d # c /\ d \in Evicted(c) BY <1>3, <2>1, <3>2
      <3>3. CASE d # c /\ d \notin Evicted(c) BY <1>1, <1>3, <2>2, <3>3
      <3> QED BY <3>1, <3>2, <3>3
    <2> QED BY <2>2
  <1>7. CASE Evicted(c) = {}
    <2>1. order' = Newest(c)
      BY <1>7 DEF CacheTurn
    <2>2. /\ order' \in Seq(Conversations) /\ Inj(order')
          /\ \A d \in Conversations : In(d, order') <=> In(d, order) \/ d = c
          /\ Len(order') = IF In(c, order) THEN Len(order) ELSE Len(order) + 1
      BY <2>1, NewestIs
    <2>3. \A d \in Conversations : turns'[d] # <<>> <=> In(d, order')
      BY <1>1, <1>2, <1>3, <1>7, <2>2
    <2>4. MaxConversations > 0 => Len(order') <= MaxConversations
      <3>1. MaxConversations > 0 => In(c, order) \/ ~(Len(order) >= MaxConversations)
        BY <1>1, <1>7 DEF Evicted, Cached
      <3> QED BY <1>1, <2>2, <3>1
    <2>5. CacheOK'
      BY <1>5, <1>6, <2>2, <2>3, <2>4, CacheOKNext
    <2> QED BY <1>3, <1>7, <2>5 DEF l
  <1>8. CASE Evicted(c) # {}
    <2>1. /\ order' = Append(Tail(order), c) /\ Evicted(c) = {order[1]}
          /\ ~In(c, order) /\ order # <<>>
      <3>1. ~Cached(c) /\ MaxConversations > 0 /\ Len(order) >= MaxConversations
            /\ Evicted(c) = {order[1]}
        BY <1>8 DEF Evicted
      <3>2. Len(order) # 0
        BY <1>1, <3>1
      <3>3. order # <<>>
        BY <3>2
      <3> QED BY <1>1, <1>8, <3>1, <3>3 DEF CacheTurn, Cached
    <2>2. /\ Tail(order) \in Seq(Conversations) /\ Inj(Tail(order)) /\ order[1] \in Conversations
          /\ \A d \in Conversations : In(d, Tail(order)) <=> In(d, order) /\ d # order[1]
          /\ Len(Tail(order)) = Len(order) - 1
      BY <1>1, <2>1, TailIs
    <2>3. ~In(c, Tail(order)) /\ In(order[1], order)
      BY <1>1, <2>1, <2>2 DEF In
    <2>4. /\ order' \in Seq(Conversations) /\ Inj(order')
          /\ \A d \in Conversations : In(d, order') <=> In(d, Tail(order)) \/ d = c
          /\ Len(order') = Len(order)
      <3>1. Len(order) = Len(Tail(order)) + 1
        BY <1>1, <2>2
      <3> HIDE DEF Inj, In
      <3> DEFINE w == Tail(order)
      <3>2. w \in Seq(Conversations) /\ Inj(w) /\ ~In(c, w)
        BY <2>2, <2>3
      <3> HIDE DEF w
      <3>3. /\ Append(w, c) \in Seq(Conversations) /\ Inj(Append(w, c))
            /\ \A d \in Conversations : In(d, Append(w, c)) <=> In(d, w) \/ d = c
            /\ Len(Append(w, c)) = Len(w) + 1
        BY <3>2, AppendIs
      <3>4. order' = Append(w, c)
        BY <2>1 DEF w
      <3> QED BY <3>1, <3>3, <3>4 DEF w
    <2>5. \A d \in Conversations : turns'[d] # <<>> <=> In(d, order')
      BY <1>1, <1>2, <1>3, <2>1, <2>2, <2>3, <2>4
    <2>6. CacheOK'
      BY <1>1, <1>5, <1>6, <2>4, <2>5, CacheOKNext
    <2> QED BY <1>3, <2>6 DEF l
  <1> QED BY <1>7, <1>8

LEMMA MigrateOK ==
  ASSUME CacheOK, NEW c \in Conversations, NEW d \in Conversations, c # d,
         Cached(c) \/ Cached(d), Migrate(c, d)
  PROVE  /\ CacheOK'
         /\ \A e \in Conversations : \/ turns'[e] = turns[e] \/ turns'[e] = <<>>
                                     \/ e = d /\ turns'[e] = turns[c]
  <1>1. /\ order \in Seq(Conversations) /\ turns \in [Conversations -> Seq(Conversations)]
        /\ Inj(order) /\ Len(order) \in Nat
        /\ \A e \in Conversations : turns[e] # <<>> <=> In(e, order)
        /\ MaxConversations > 0 => Len(order) <= MaxConversations
        /\ MaxTurns > 0 => \A e \in Conversations : Len(turns[e]) <= MaxTurns
    BY CacheOKIs DEF Cached
  <1>2. CASE Cached(c)
    <2> DEFINE v == Without(order, c)
    <2> DEFINE w == Without(v, d)
    <2>1. /\ order' = Append(w, d) /\ turns' = [turns EXCEPT ![d] = turns[c], ![c] = <<>>]
          /\ In(c, order)
      BY <1>1, <1>2 DEF Migrate, Cached
    <2>2. /\ v \in Seq(Conversations) /\ Inj(v)
          /\ \A e \in Conversations : In(e, v) <=> In(e, order) /\ e # c
          /\ Len(v) = Len(order) - 1
      BY <1>1, <2>1, WithoutIs
    <2> HIDE DEF v
    <2>3. /\ w \in Seq(Conversations) /\ Inj(w)
          /\ \A e \in Conversations : In(e, w) <=> In(e, v) /\ e # d
          /\ Len(w) = IF In(d, v) THEN Len(v) - 1 ELSE Len(v)
      BY <2>2, WithoutIs
    <2> HIDE DEF w
    <2>4. /\ order' \in Seq(Conversations) /\ Inj(order')
          /\ \A e \in Conversations : In(e, order') <=> In(e, w) \/ e = d
          /\ Len(order') = Len(w) + 1
      BY <2>1, <2>3, AppendIs
    <2>5. \A e \in Conversations :
            turns'[e] = IF e = c THEN <<>> ELSE IF e = d THEN turns[c] ELSE turns[e]
      BY <1>1, <2>1
    <2>6. turns' \in [Conversations -> Seq(Conversations)]
      <3>1. <<>> \in Seq(Conversations) /\ turns[c] \in Seq(Conversations)
        BY <1>1
      <3> QED BY <1>1, <2>1, <3>1
    <2>7. \A e \in Conversations : turns'[e] # <<>> <=> In(e, order')
      BY <1>1, <1>2, <2>2, <2>3, <2>4, <2>5 DEF Cached
    <2>8. MaxConversations > 0 => Len(order') <= MaxConversations
      <3>1. Len(w) \in Nat /\ Len(v) \in Nat
        BY <2>2, <2>3
      <3>2. Len(order') <= Len(order)
        BY <1>1, <2>2, <2>3, <2>4, <3>1
      <3>3. Len(order') \in Nat
        BY <2>4
      <3> QED BY <1>1, <3>2, <3>3
    <2>9. MaxTurns > 0 => \A e \in Conversations : Len(turns'[e]) <= MaxTurns
      <3>1. Len(<<>>) = 0
        OBVIOUS
      <3>2. ASSUME NEW e \in Conversations, MaxTurns > 0 PROVE Len(turns'[e]) <= MaxTurns
        <4>1. CASE e = c BY <2>5, <3>1, <4>1
        <4>2. CASE e # c /\ e = d BY <1>1, <2>5, <3>2, <4>2
        <4>3. CASE e # c /\ e # d BY <1>1, <2>5, <3>2, <4>3
        <4> QED BY <4>1, <4>2, <4>3
      <3> QED BY <3>2
    <2>10. CacheOK'
      BY <2>4, <2>6, <2>7, <2>8, <2>9, CacheOKNext
    <2> QED BY <2>5, <2>10
  <1>3. CASE ~Cached(c)
    <2>1. order' = Newest(d) /\ turns' = turns /\ In(d, order)
      BY <1>1, <1>3 DEF Migrate, Cached
    <2>2. /\ order' \in Seq(Conversations) /\ Inj(order') /\ Len(order') = Len(order)
          /\ \A e \in Conversations : In(e, order') <=> In(e, order)
      BY <2>1, NewestIs
    <2>3. \A e \in Conversations : turns'[e] # <<>> <=> In(e, order')
      BY <1>1, <2>1, <2>2
    <2>4. CacheOK'
      BY <1>1, <2>1, <2>2, <2>3, CacheOKNext
    <2> QED BY <2>1, <2>4
  <1> QED BY <1>2, <1>3

-----------------------------------------------------------------------------
\* The inductive invariant.

\* A slot with table entry e, thread q and owed time o: an entry outlives the time its
\* query was given, and a kept outcome its retention.
SlotOK(e, q, o) ==
    /\ q.polled /\ q.left >= 0 => e.status = "in_progress" /\ e.left >= q.left
    /\ o >= 0 => e.status \in Over /\ e.left >= o
    /\ q.polled => o < 0
    /\ q.at \in {"reserved", "returned", "raised"} => q.polled

\* A thread q whose answers have made the renamings r.
ThreadOK(q, r) ==
    /\ q.at \in {"waiting", "answered", "moved"} => q.conv \in Conversations
    /\ q.at = "answered" /\ q.reply \notin {Nowhere, q.conv} =>
         q.reply \in Conversations /\ <<q.conv, q.reply>> \in r
    /\ q.at = "moved" => q.reply = q.conv

Transitive(r) == \A c, d, e \in Conversations : <<c, d>> \in r /\ <<d, e>> \in r => <<c, e>> \in r

SlotsOK == \A s \in Slots : SlotOK(table[s], query[s], owed[s])
ThreadsOK == \A s \in Slots : ThreadOK(query[s], renamed)
Capacity == Cardinality(InProgress(Swept)) <= Limit

IInv == /\ TypeOK /\ CacheOK /\ SlotsOK /\ ThreadsOK /\ Capacity
        /\ Transitive(renamed) /\ TurnsBelong

LEMMA TimesAre ==
  /\ Ttl \in Times /\ -1 \in Times
  /\ \A n \in Times : /\ n \in Int /\ Later(n) \in Times
                      /\ Later(n) <= n /\ (n >= 0 => Later(n) = n - 1) /\ (n < 0 => Later(n) = n)
  BY DEF Times, Later

LEMMA IdleIs ==
  /\ Idle \in Thread /\ Idle.polled = FALSE /\ Idle.at = "idle" /\ Idle.left = -1
  /\ Absent \in Entry /\ Absent.status = "absent" /\ Absent.left = -1
  /\ \A r : ThreadOK(Idle, r)
  <1>1. Idle \in Thread /\ Absent \in Entry
    BY TimesAre DEF Idle, Thread, Places, Absent, Entry
  <1>2. Idle.polled = FALSE /\ Idle.at = "idle" /\ Idle.left = -1
    BY DEF Idle
  <1>3. Absent.status = "absent" /\ Absent.left = -1
    BY DEF Absent
  <1> QED BY <1>1, <1>2, <1>3 DEF ThreadOK

LEMMA InitOK == Init => IInv
  <1> SUFFICES ASSUME Init PROVE IInv
    OBVIOUS
  <1>1. order = <<>> /\ turns = [c \in Conversations |-> <<>>] /\ renamed = {}
    BY DEF Init, CacheInit
  <1>2. CacheOK
    <2>1. \A c \in Conversations : ~Cached(c)
      BY <1>1 DEF Cached
    <2>2. CacheTypeOK
      BY <1>1 DEF CacheTypeOK
    <2>3. CacheBounded
      <3>1. Len(<<>>) = 0
        OBVIOUS
      <3>2. Keyed
        BY <1>1, <2>1, <3>1 DEF Keyed
      <3>3. \A c \in Conversations : Len(turns[c]) = 0
        BY <1>1, <3>1
      <3> QED BY <1>1, <3>1, <3>2, <3>3 DEF CacheBounded
    <2> QED BY <2>2, <2>3 DEF CacheOK
  <1>3. TypeOK
    BY <1>1, <1>2, IdleIs, TimesAre DEF Init, TypeOK, CacheOK
  <1>4. SlotsOK /\ ThreadsOK
    BY IdleIs DEF Init, SlotsOK, SlotOK, ThreadsOK
  <1>5. Capacity
    <2>1. \A s \in Slots : Swept[s] = Absent
      BY DEF Init, Swept
    <2>2. InProgress(Swept) = {}
      BY <2>1, IdleIs DEF InProgress
    <2> QED BY <2>2, FS_EmptySet DEF Capacity
  <1>6. Transitive(renamed) /\ TurnsBelong
    BY <1>1 DEF Transitive, TurnsBelong
  <1> QED BY <1>2, <1>3, <1>4, <1>5, <1>6 DEF IInv

-----------------------------------------------------------------------------
\* Steps of a question: the table and what is owed stay as they are.

\* The thread of slot s becomes q, still with the time of its query, or is over.
Becomes(s, q) ==
    /\ query' = [query EXCEPT ![s] = q] /\ UNCHANGED <<table, owed>>
    /\ q \in Thread
    /\ \/ q.polled = query[s].polled /\ q.left = query[s].left
       \/ q = Idle
    /\ q.at \in {"reserved", "returned", "raised"} => q.polled

LEMMA QueryStepOK ==
  ASSUME IInv, NEW s \in Slots, NEW q, Becomes(s, q), ThreadOK(q, renamed'),
         renamed' \subseteq Conversations \X Conversations, renamed \subseteq renamed',
         Transitive(renamed)', CacheOK', TurnsBelong'
  PROVE  IInv'
  <1>1. TypeOK'
    BY DEF IInv, TypeOK, Becomes, CacheOK
  <1>2. \A u \in Slots : query'[u] = IF u = s THEN q ELSE query[u]
    BY DEF IInv, TypeOK, Becomes
  <1>3. table' = table /\ owed' = owed
    BY DEF Becomes
  <1>4. SlotOK(table[s], q, owed[s])
    <2>1. SlotOK(table[s], query[s], owed[s])
      BY DEF IInv, SlotsOK
    <2>2. CASE q.polled = query[s].polled /\ q.left = query[s].left
      BY <2>1, <2>2 DEF SlotOK, Becomes
    <2>3. CASE q = Idle
      BY <2>1, <2>3, IdleIs DEF SlotOK
    <2> QED BY <2>2, <2>3 DEF Becomes
  <1>5. SlotsOK'
    BY <1>2, <1>3, <1>4 DEF IInv, SlotsOK
  <1>6. ThreadsOK'
    BY <1>2 DEF IInv, ThreadsOK, ThreadOK
  <1>7. Capacity'
    BY <1>3 DEF IInv, Capacity, InProgress, Swept
  <1> QED BY <1>1, <1>5, <1>6, <1>7 DEF IInv

\* The same where cache and renamings stay.
LEMMA QuietQueryStepOK ==
  ASSUME IInv, NEW s \in Slots, NEW q, Becomes(s, q), ThreadOK(q, renamed),
         UNCHANGED <<order, turns, renamed>>
  PROVE  IInv'
  <1>1. CacheOK' /\ TurnsBelong' /\ Transitive(renamed)'
    BY DEF IInv, CacheOK, CacheTypeOK, CacheBounded, Keyed, Cached, TurnsBelong, Transitive
  <1> QED BY <1>1, QueryStepOK DEF IInv, TypeOK

\* What a call becomes that is over.
LEMMA RaisedIs ==
  ASSUME IInv, NEW s \in Slots
  PROVE  /\ \A q \in {Raised(s), Returned(s)} :
              /\ q \in Thread
              /\ \/ q.polled = query[s].polled /\ q.left = query[s].left
                 \/ q = Idle
              /\ q.at \in {"reserved", "returned", "raised"} => q.polled
              /\ \A r : ThreadOK(q, r)
  <1>1. query[s] \in Thread /\ query[s].left \in Times
    BY DEF IInv, TypeOK, Thread
  <1>2. CASE query[s].polled = TRUE
    <2> DEFINE q == [Idle EXCEPT !.at = "raised", !.polled = TRUE, !.left = query[s].left]
    <2>1. Raised(s) = q /\ Returned(s) = [q EXCEPT !.at = "returned"]
      BY <1>2 DEF Raised, Returned
    <2>2. q \in Thread /\ q.at = "raised" /\ q.polled = TRUE /\ q.left = query[s].left
      BY <1>1, IdleIs DEF Thread, Places
    <2> HIDE DEF q
    <2> DEFINE p == [q EXCEPT !.at = "returned"]
    <2>3. p \in Thread /\ p.at = "returned" /\ p.polled = TRUE /\ p.left = query[s].left
      BY <2>2 DEF Thread, Places
    <2> HIDE DEF p
    <2>4. \A r : ThreadOK(q, r) /\ ThreadOK(p, r)
      BY <2>2, <2>3 DEF ThreadOK
    <2> QED BY <1>2, <2>1, <2>2, <2>3, <2>4 DEF p
  <1>3. CASE query[s].polled = FALSE
    <2>1. Raised(s) = Idle /\ Returned(s) = Idle
      BY <1>3 DEF Raised, Returned
    <2> QED BY <2>1, IdleIs
  <1> QED BY <1>1, <1>2, <1>3 DEF Thread

LEMMA AskOK == ASSUME IInv, NEW s \in Slots, Ask(s) PROVE IInv'
  <1> DEFINE q == [Idle EXCEPT !.at = "asking"]
  <1>1. query[s] = Idle /\ query' = [query EXCEPT ![s] = q]
        /\ UNCHANGED <<order, turns, table, owed, renamed>>
    BY DEF Ask, cacheVars
  <1>2. q \in Thread /\ q.at = "asking" /\ q.polled = Idle.polled /\ q.left = Idle.left
    BY IdleIs DEF Thread, Places
  <1> HIDE DEF q
  <1>3. ThreadOK(q, renamed)
    BY <1>2 DEF ThreadOK
  <1>4. Becomes(s, q)
    BY <1>1, <1>2 DEF Becomes
  <1> QED BY <1>1, <1>3, <1>4, QuietQueryStepOK

LEMMA StartWorkerOK == ASSUME IInv, NEW s \in Slots, StartWorker(s) PROVE IInv'
  <1> DEFINE q == [query[s] EXCEPT !.at = "asking"]
  <1>1. query' = [query EXCEPT ![s] = q] /\ UNCHANGED <<order, turns, table, owed, renamed>>
    BY DEF StartWorker, cacheVars
  <1>2. q \in Thread /\ q.at = "asking" /\ q.polled = query[s].polled /\ q.left = query[s].left
    BY DEF IInv, TypeOK, Thread, Places
  <1> HIDE DEF q
  <1>3. ThreadOK(q, renamed)
    BY <1>2 DEF ThreadOK
  <1>4. Becomes(s, q)
    BY <1>1, <1>2 DEF Becomes
  <1> QED BY <1>1, <1>3, <1>4, QuietQueryStepOK

LEMMA FailsOK == ASSUME IInv, NEW s \in Slots, Fails(s) \/ MoveRaises(s) PROVE IInv'
  <1>1. query' = [query EXCEPT ![s] = Raised(s)] /\ UNCHANGED <<order, turns, table, owed, renamed>>
    BY DEF Fails, MoveRaises, cacheVars
  <1>2. Becomes(s, Raised(s)) /\ ThreadOK(Raised(s), renamed)
    BY <1>1, RaisedIs DEF Becomes
  <1> QED BY <1>1, <1>2, QuietQueryStepOK

\* A conversation is chosen.
LEMMA ChosenOK ==
  ASSUME IInv, NEW s \in Slots, NEW c \in Conversations,
         query' = [query EXCEPT ![s].at = "waiting", ![s].conv = c],
         UNCHANGED <<table, owed, renamed, turns>>, CacheOK'
  PROVE  IInv'
  <1> DEFINE q == [query[s] EXCEPT !.at = "waiting", !.conv = c]
  <1>1. query' = [query EXCEPT ![s] = q]
    BY DEF IInv, TypeOK
  <1>2. q \in Thread /\ q.at = "waiting" /\ q.polled = query[s].polled /\ q.left = query[s].left
        /\ q.conv = c
    BY DEF IInv, TypeOK, Thread, Places
  <1> HIDE DEF q
  <1>3. ThreadOK(q, renamed') /\ Becomes(s, q)
    BY <1>1, <1>2 DEF ThreadOK, Becomes
  <1>4. TurnsBelong' /\ Transitive(renamed)'
    BY DEF IInv, TurnsBelong, Transitive
  <1> QED BY <1>3, <1>4, QueryStepOK DEF IInv, TypeOK

LEMMA ResumeOK == ASSUME IInv, NEW s \in Slots, NEW c \in Conversations, Resume(s, c) PROVE IInv'
  <1>1. CacheOK'
    BY TouchOK DEF IInv, Resume
  <1> QED BY <1>1, ChosenOK DEF Resume, Touch

LEMMA OpenOK == ASSUME IInv, NEW s \in Slots, NEW c \in Conversations, Open(s, c) PROVE IInv'
  <1>1. CacheOK'
    BY DEF IInv, Open, cacheVars, CacheOK, CacheTypeOK, CacheBounded, Keyed, Cached
  <1> QED BY <1>1, ChosenOK DEF Open, cacheVars

\* Adding what came before c and what came after d keeps the renamings transitive.
LEMMA RenamedOK ==
  ASSUME IInv, NEW c \in Conversations, NEW d \in Conversations, NEW r,
         r = renamed \cup (Before(c) \X After(d))
  PROVE  r \subseteq Conversations \X Conversations /\ Transitive(r) /\ <<c, d>> \in r
  <1>1. renamed \subseteq Conversations \X Conversations /\ Transitive(renamed)
    BY DEF IInv, TypeOK
  <1>2. /\ Before(c) \subseteq Conversations /\ After(d) \subseteq Conversations
        /\ c \in Before(c) /\ d \in After(d)
        /\ \A x \in Conversations : x \in Before(c) <=> x = c \/ <<x, c>> \in renamed
        /\ \A x \in Conversations : x \in After(d) <=> x = d \/ <<d, x>> \in renamed
    BY DEF Before, After
  <1>3. \A x, y \in Conversations :
          <<x, y>> \in r <=> <<x, y>> \in renamed \/ (x \in Before(c) /\ y \in After(d))
    OBVIOUS
  <1>4. ASSUME NEW x \in Conversations, NEW y \in Conversations, NEW z \in Conversations,
               <<x, y>> \in r, <<y, z>> \in r
        PROVE  <<x, z>> \in r
    <2>1. CASE <<x, y>> \in renamed /\ <<y, z>> \in renamed
      BY <1>1, <1>3, <2>1 DEF Transitive
    <2>2. CASE <<x, y>> \in renamed /\ y \in Before(c) /\ z \in After(d)
      <3>1. x \in Before(c)
        BY <1>1, <1>2, <2>2 DEF Transitive
      <3> QED BY <1>3, <2>2, <3>1
    <2>3. CASE x \in Before(c) /\ y \in After(d) /\ <<y, z>> \in renamed
      <3>1. z \in After(d)
        BY <1>1, <1>2, <2>3 DEF Transitive
      <3> QED BY <1>3, <2>3, <3>1
    <2>4. CASE x \in Before(c) /\ z \in After(d)
      BY <1>3, <2>4
    <2> QED BY <1>3, <1>4, <2>1, <2>2, <2>3, <2>4
  <1>5. Transitive(r)
    BY <1>4 DEF Transitive
  <1> QED BY <1>1, <1>2, <1>5

LEMMA AnswerOK ==
  ASSUME IInv, NEW s \in Slots, NEW reply \in Conversations \cup {Nowhere}, NEW text \in BOOLEAN,
         Answer(s, reply, text)
  PROVE  IInv'
  <1> DEFINE q == [query[s] EXCEPT !.at = "answered", !.reply = reply, !.text = text]
  <1>1. query[s].at = "waiting" /\ UNCHANGED <<order, turns, table, owed>>
    BY DEF Answer, cacheVars
  <1>2. query' = [query EXCEPT ![s] = q]
    BY DEF Answer, IInv, TypeOK
  <1>3. q \in Thread /\ q.at = "answered" /\ q.polled = query[s].polled /\ q.left = query[s].left
        /\ q.reply = reply /\ q.conv = query[s].conv
    BY DEF IInv, TypeOK, Thread, Places
  <1> HIDE DEF q
  <1>4. query[s].conv \in Conversations
    BY <1>1 DEF IInv, ThreadsOK, ThreadOK
  <1>5. Becomes(s, q)
    BY <1>1, <1>2, <1>3 DEF Becomes
  <1>6. CacheOK'
    BY <1>1 DEF IInv, CacheOK, CacheTypeOK, CacheBounded, Keyed, Cached
  <1>7. CASE reply \in {Nowhere, query[s].conv}
    <2>1. renamed' = renamed
      BY <1>7 DEF Answer
    <2>2. ThreadOK(q, renamed)
      BY <1>3, <1>4, <1>7 DEF ThreadOK
    <2> QED BY <1>1, <1>5, <2>1, <2>2, QuietQueryStepOK
  <1>8. CASE reply \notin {Nowhere, query[s].conv}
    <2>1. renamed' = renamed \cup (Before(query[s].conv) \X After(reply)) /\ reply \in Conversations
      BY <1>8 DEF Answer
    <2>2. renamed' \subseteq Conversations \X Conversations /\ Transitive(renamed')
          /\ <<query[s].conv, reply>> \in renamed' /\ renamed \subseteq renamed'
      BY <1>4, <2>1, RenamedOK
    <2>3. ThreadOK(q, renamed')
      BY <1>3, <1>4, <2>1, <2>2 DEF ThreadOK
    <2>4. TurnsBelong' /\ Transitive(renamed)'
      BY <1>1, <2>2 DEF IInv, TurnsBelong, Transitive
    <2> QED BY <1>5, <1>6, <2>2, <2>3, <2>4, QueryStepOK
  <1> QED BY <1>7, <1>8

\* Turns that move with a conversation, or are added to it, belong to it.
LEMMA MoveOK == ASSUME IInv, NEW s \in Slots, Move(s) PROVE IInv'
  <1> DEFINE c == query[s].conv
  <1> DEFINE d == query[s].reply
  <1> DEFINE q == [query[s] EXCEPT !.at = "moved", !.conv = query[s].reply]
  <1>1. /\ query[s].at = "answered" /\ Elsewhere(s) /\ (Cached(c) \/ Cached(d)) /\ Migrate(c, d)
        /\ UNCHANGED <<table, owed, renamed>>
    BY DEF Move
  <1>2. query' = [query EXCEPT ![s] = q]
    BY DEF Move, IInv, TypeOK
  <1>3. c \in Conversations /\ d \in Conversations /\ <<c, d>> \in renamed /\ c # d
    BY <1>1 DEF IInv, ThreadsOK, ThreadOK, Elsewhere
  <1>4. q \in Thread /\ q.at = "moved" /\ q.polled = query[s].polled /\ q.left = query[s].left
        /\ q.conv = d /\ q.reply = d
    BY <1>3 DEF IInv, TypeOK, Thread, Places
  <1> HIDE DEF q
  <1>5. Becomes(s, q) /\ ThreadOK(q, renamed')
    BY <1>1, <1>2, <1>3, <1>4 DEF Becomes, ThreadOK
  <1>6. /\ CacheOK'
        /\ \A e \in Conversations : \/ turns'[e] = turns[e] \/ turns'[e] = <<>>
                                    \/ e = d /\ turns'[e] = turns[c]
    BY <1>1, <1>3, MigrateOK DEF IInv
  <1>7. ASSUME NEW e \in Conversations, NEW i \in 1..Len(turns'[e])
        PROVE  turns'[e][i] = e \/ <<turns'[e][i], e>> \in renamed
    <2>1. CASE turns'[e] = turns[e]
      BY <1>7, <2>1 DEF IInv, TurnsBelong
    <2>2. CASE turns'[e] = <<>>
      <3>1. Len(<<>>) = 0
        OBVIOUS
      <3> QED BY <1>7, <2>2, <3>1
    <2>3. CASE e = d /\ turns'[e] = turns[c]
      <3>1. turns[c][i] = c \/ <<turns[c][i], c>> \in renamed
        BY <1>3, <1>7, <2>3 DEF IInv, TurnsBelong
      <3>2. turns[c][i] \in Conversations
        BY <1>3, <1>7, <2>3 DEF IInv, TypeOK, CacheTypeOK
      <3>3. <<turns[c][i], d>> \in renamed
        BY <1>3, <3>1, <3>2 DEF IInv, Transitive
      <3> QED BY <2>3, <3>3
    <2> QED BY <1>6, <2>1, <2>2, <2>3
  <1>8. TurnsBelong' /\ Transitive(renamed)'
    BY <1>1, <1>7 DEF IInv, TurnsBelong, Transitive
  <1> QED BY <1>1, <1>5, <1>6, <1>8, QueryStepOK DEF IInv, TypeOK

LEMMA RememberOK == ASSUME IInv, NEW s \in Slots, Remember(s) PROVE IInv'
  <1> DEFINE c == query[s].conv
  <1> DEFINE q == IF query[s].text THEN Returned(s) ELSE Raised(s)
  <1>1. /\ query[s].at = "moved" \/ (query[s].at = "answered" /\ ~Elsewhere(s))
        /\ query' = [query EXCEPT ![s] = q] /\ UNCHANGED <<table, owed, renamed>>
    BY DEF Remember
  <1>2. q \in {Raised(s), Returned(s)}
    OBVIOUS
  <1> HIDE DEF q
  <1>3. Becomes(s, q) /\ ThreadOK(q, renamed')
    BY <1>1, <1>2, RaisedIs DEF Becomes
  <1>4. c \in Conversations /\ (IF query[s].reply = Nowhere THEN c ELSE query[s].reply) = c
    BY <1>1 DEF IInv, ThreadsOK, ThreadOK, Elsewhere
  <1>5. CASE query[s].text
    <2>1. CacheTurn(c, c)
      BY <1>4, <1>5 DEF Remember
    <2>2. /\ CacheOK' /\ turns'[c] = Trimmed(Append(turns[c], c))
          /\ \A d \in Conversations \ {c} : turns'[d] = turns[d] \/ turns'[d] = <<>>
      BY <1>4, <2>1, CacheTurnOK DEF IInv
    <2> DEFINE l == Append(turns[c], c)
    <2>3. /\ turns[c] \in Seq(Conversations) /\ l \in Seq(Conversations) /\ l # <<>>
          /\ Len(l) = Len(turns[c]) + 1 /\ l[Len(l)] = c
          /\ \A j \in 1..Len(turns[c]) : l[j] = turns[c][j]
      <3>1. turns[c] \in Seq(Conversations)
        BY <1>4 DEF IInv, TypeOK, CacheTypeOK
      <3> QED BY <1>4, <3>1, AppendProperties
    <2> HIDE DEF l
    <2>4. ASSUME NEW j \in 1..Len(l) PROVE l[j] = c \/ <<l[j], c>> \in renamed
      <3>1. CASE j = Len(l)
        BY <2>3, <3>1
      <3>2. CASE j # Len(l)
        <4>1. j \in 1..Len(turns[c])
          BY <2>3, <3>2
        <4> QED BY <1>4, <2>3, <4>1 DEF IInv, TurnsBelong
      <3> QED BY <3>1, <3>2
    <2>5. \A i \in 1..Len(Trimmed(l)) : \E j \in 1..Len(l) : Trimmed(l)[i] = l[j]
      BY <2>3, TrimmedIs
    <2>6. ASSUME NEW e \in Conversations, NEW i \in 1..Len(turns'[e])
          PROVE  turns'[e][i] = e \/ <<turns'[e][i], e>> \in renamed
      <3>1. CASE e = c
        BY <2>2, <2>4, <2>5, <2>6, <3>1 DEF l
      <3>2. CASE e # c /\ turns'[e] = turns[e]
        BY <2>6, <3>2 DEF IInv, TurnsBelong
      <3>3. CASE e # c /\ turns'[e] = <<>>
        <4>1. Len(<<>>) = 0
          OBVIOUS
        <4> QED BY <2>6, <3>3, <4>1
      <3> QED BY <2>2, <3>1, <3>2, <3>3
    <2>7. TurnsBelong' /\ Transitive(renamed)'
      BY <1>1, <2>6 DEF IInv, TurnsBelong, Transitive
    <2> QED BY <1>1, <1>3, <2>2, <2>7, QueryStepOK DEF IInv, TypeOK
  <1>6. CASE ~query[s].text
    BY <1>1, <1>3, <1>6, QuietQueryStepOK DEF Remember, cacheVars
  <1> QED BY <1>5, <1>6

\* Reading and deleting a history.
LEMMA HistoryOK ==
  ASSUME IInv, NEW c \in Conversations, ReadHistory(c) \/ Delete(c)
  PROVE  IInv'
  <1>1. UNCHANGED <<table, query, owed, renamed>>
    BY DEF ReadHistory, Delete, threadVars
  <1>2. CacheOK'
    BY TouchOK, ForgetOK DEF IInv, ReadHistory, Delete
  <1>3. \A e \in Conversations : turns'[e] = turns[e] \/ turns'[e] = <<>>
    BY DEF ReadHistory, Delete, Touch, Forget, IInv, TypeOK, CacheTypeOK
  <1>4. ASSUME NEW e \in Conversations, NEW i \in 1..Len(turns'[e])
        PROVE  turns'[e][i] = e \/ <<turns'[e][i], e>> \in renamed
    <2>1. Len(<<>>) = 0
      OBVIOUS
    <2> QED BY <1>3, <1>4, <2>1 DEF IInv, TurnsBelong
  <1>5. TurnsBelong' /\ Transitive(renamed)'
    BY <1>1, <1>4 DEF IInv, TurnsBelong, Transitive
  <1>6. TypeOK'
    BY <1>1, <1>2 DEF IInv, TypeOK, CacheOK
  <1>7. SlotsOK' /\ ThreadsOK' /\ Capacity'
    BY <1>1 DEF IInv, SlotsOK, ThreadsOK, Capacity, InProgress, Swept
  <1> QED BY <1>2, <1>5, <1>6, <1>7 DEF IInv

-----------------------------------------------------------------------------
\* Steps of the table: the cache stays as it is.

SweptEntry(e) == IF e.left < 0 THEN Absent ELSE e

LEMMA SweptIs ==
  ASSUME IInv
  PROVE  /\ Swept \in [Slots -> Entry]
         /\ \A s \in Slots : Swept[s] = SweptEntry(table[s])
         /\ \A s \in Slots : SlotOK(Swept[s], query[s], owed[s])
  <1>1. \A s \in Slots : Swept[s] = SweptEntry(table[s])
    BY DEF Swept, SweptEntry
  <1>2. Swept \in [Slots -> Entry]
    BY IdleIs DEF Swept, IInv, TypeOK
  <1>3. ASSUME NEW s \in Slots PROVE SlotOK(SweptEntry(table[s]), query[s], owed[s])
    <2>1. SlotOK(table[s], query[s], owed[s])
      BY DEF IInv, SlotsOK
    <2>2. table[s].left \in Int /\ query[s].left \in Int /\ owed[s] \in Int
      BY TimesAre DEF IInv, TypeOK, Entry, Thread
    <2>3. CASE table[s].left < 0
      <3>1. ~(query[s].polled /\ query[s].left >= 0) /\ ~(owed[s] >= 0)
        BY <2>1, <2>2, <2>3 DEF SlotOK
      <3> QED BY <2>1, <3>1 DEF SlotOK
    <2>4. CASE ~(table[s].left < 0)
      BY <2>1, <2>4 DEF SweptEntry
    <2> QED BY <2>3, <2>4
  <1> QED BY <1>1, <1>2, <1>3

\* A table with fewer queries in progress is within the limit too.
LEMMA FewerOK ==
  ASSUME IInv, InProgress(Swept)' \subseteq InProgress(Swept)
  PROVE  Capacity'
  <1>1. IsFiniteSet(InProgress(Swept))
    BY FS_Subset DEF InProgress
  <1>2. /\ IsFiniteSet(InProgress(Swept)')
        /\ Cardinality(InProgress(Swept)') <= Cardinality(InProgress(Swept))
    BY <1>1, FS_Subset
  <1>3. Cardinality(InProgress(Swept)') \in Nat /\ Cardinality(InProgress(Swept)) \in Nat
    BY <1>1, <1>2, FS_CardinalityType
  <1> QED BY <1>2, <1>3 DEF IInv, Capacity

\* What the steps of the table have in common.
LEMMA TableStepOK ==
  ASSUME IInv, UNCHANGED <<order, turns, renamed>>,
         table' \in [Slots -> Entry], query' \in [Slots -> Thread], owed' \in [Slots -> Times],
         \A s \in Slots : SlotOK(table'[s], query'[s], owed'[s]) /\ ThreadOK(query'[s], renamed),
         Capacity'
  PROVE  IInv'
  <1>1. CacheOK' /\ TurnsBelong' /\ Transitive(renamed)'
    BY DEF IInv, CacheOK, CacheTypeOK, CacheBounded, Keyed, Cached, TurnsBelong, Transitive
  <1>2. TypeOK'
    BY <1>1 DEF IInv, TypeOK, CacheOK
  <1>3. SlotsOK' /\ ThreadsOK'
    BY DEF SlotsOK, ThreadsOK
  <1> QED BY <1>1, <1>2, <1>3 DEF IInv

LEMMA SweepOK == ASSUME IInv, Refuse \/ Poll PROVE IInv'
  <1>1. table' = Swept /\ UNCHANGED <<order, turns, query, renamed, owed>>
    BY DEF Refuse, Poll, cacheVars, threadVars
  <1>2. InProgress(Swept)' \subseteq InProgress(Swept)
    <2>1. ASSUME NEW s \in Slots, Swept'[s].status = "in_progress"
          PROVE  Swept[s].status = "in_progress"
      <3>1. Swept'[s] = IF Swept[s].left < 0 THEN Absent ELSE Swept[s]
        BY <1>1 DEF Swept
      <3> QED BY <2>1, <3>1, IdleIs
    <2> QED BY <2>1 DEF InProgress
  <1>3. Capacity'
    BY <1>2, FewerOK
  <1> QED BY <1>1, <1>3, SweptIs, TableStepOK DEF IInv, TypeOK, ThreadsOK

\* A new entry lives at least as long as the query has time.
LEMMA StartOK ==
  ASSUME IInv, NEW s \in Slots, NEW timeout \in Timeouts, Start(s, timeout)
  PROVE  IInv'
  <1> DEFINE time == IF timeout > Ttl THEN timeout ELSE Ttl
  <1> DEFINE e == [status |-> "in_progress", left |-> Lifetime(timeout)]
  <1> DEFINE q == [Idle EXCEPT !.at = "reserved", !.polled = TRUE, !.left = time]
  <1>1. /\ Cardinality(InProgress(Swept)) < Limit
        /\ table' = [Swept EXCEPT ![s] = e] /\ query' = [query EXCEPT ![s] = q]
        /\ owed' = [owed EXCEPT ![s] = -1] /\ UNCHANGED <<order, turns, renamed>>
    BY DEF Start, cacheVars
  <1>2. time \in Nat /\ Lifetime(timeout) = time
    BY DEF Lifetime
  <1> HIDE DEF time
  <1>3. e \in Entry /\ e.status = "in_progress" /\ e.left = time
    BY <1>2 DEF Entry, Times
  <1>4. q \in Thread /\ q.at = "reserved" /\ q.polled = TRUE /\ q.left = time
    BY <1>2, IdleIs DEF Thread, Places, Times
  <1> HIDE DEF e, q
  <1>5. SlotOK(e, q, -1) /\ ThreadOK(q, renamed)
    BY <1>2, <1>3, <1>4 DEF SlotOK, ThreadOK
  <1>6. /\ table' \in [Slots -> Entry] /\ query' \in [Slots -> Thread] /\ owed' \in [Slots -> Times]
    BY <1>1, <1>3, <1>4, SweptIs, TimesAre DEF IInv, TypeOK
  <1>7. ASSUME NEW u \in Slots
        PROVE  SlotOK(table'[u], query'[u], owed'[u]) /\ ThreadOK(query'[u], renamed)
    <2>1. CASE u = s
      <3>1. table'[u] = e /\ query'[u] = q /\ owed'[u] = -1
        BY <1>1, <2>1, SweptIs DEF IInv, TypeOK
      <3> QED BY <1>5, <3>1
    <2>2. CASE u # s
      <3>1. table'[u] = Swept[u] /\ query'[u] = query[u] /\ owed'[u] = owed[u]
        BY <1>1, <2>2, SweptIs DEF IInv, TypeOK
      <3> QED BY <3>1, SweptIs DEF IInv, ThreadsOK
    <2> QED BY <2>1, <2>2
  <1>8. Capacity'
    <2>1. ASSUME NEW u \in Slots, Swept'[u].status = "in_progress"
          PROVE  u = s \/ Swept[u].status = "in_progress"
      <3>1. CASE u # s
        <4>1. table'[u] = Swept[u]
          BY <1>1, <3>1, SweptIs
        <4>2. Swept'[u] = IF Swept[u].left < 0 THEN Absent ELSE Swept[u]
          BY <4>1 DEF Swept
        <4> QED BY <2>1, <4>2, IdleIs
      <3> QED BY <3>1
    <2>2. InProgress(Swept)' \subseteq InProgress(Swept) \cup {s}
      BY <2>1 DEF InProgress
    <2> DEFINE P == InProgress(Swept)
    <2>3. IsFiniteSet(P)
      BY FS_Subset DEF InProgress
    <2>4. IsFiniteSet(P \cup {s}) /\ Cardinality(P \cup {s}) <= Cardinality(P) + 1
      <3> HIDE DEF P
      <3>1. Cardinality(P) \in Nat
        BY <2>3, FS_CardinalityType
      <3>2. CASE s \in P
        <4>1. P \cup {s} = P
          BY <3>2
        <4> QED BY <4>1, <3>1, <2>3
      <3>3. CASE s \notin P
        <4>1. /\ IsFiniteSet(P \cup {s})
              /\ Cardinality(P \cup {s}) = Cardinality(P) + 1
          BY <2>3, <3>3, FS_AddElement
        <4> QED BY <4>1, <3>1
      <3> QED BY <3>2, <3>3
    <2>5. IsFiniteSet(InProgress(Swept)')
          /\ Cardinality(InProgress(Swept)') <= Cardinality(P \cup {s})
      BY <2>2, <2>4, FS_Subset
    <2>6. Cardinality(P) \in Nat /\ Cardinality(P \cup {s}) \in Nat
          /\ Cardinality(InProgress(Swept)') \in Nat
      BY <2>3, <2>4, <2>5, FS_CardinalityType
    <2> QED BY <1>1, <2>4, <2>5, <2>6 DEF Capacity
  <1> QED BY <1>1, <1>6, <1>7, <1>8, TableStepOK

\* An entry that is not in progress any more frees its place.
LEMMA EntryOK ==
  ASSUME IInv, NEW s \in Slots, NEW e \in Entry, NEW o \in Times,
         table' = [table EXCEPT ![s] = e], query' = [query EXCEPT ![s] = Idle],
         owed' = [owed EXCEPT ![s] = o], UNCHANGED <<order, turns, renamed>>,
         e.status # "in_progress", o >= 0 => e.status \in Over /\ e.left >= o
  PROVE  IInv'
  <1>1. /\ table' \in [Slots -> Entry] /\ query' \in [Slots -> Thread] /\ owed' \in [Slots -> Times]
    BY IdleIs DEF IInv, TypeOK
  <1>2. ASSUME NEW u \in Slots
        PROVE  SlotOK(table'[u], query'[u], owed'[u]) /\ ThreadOK(query'[u], renamed)
    <2>1. CASE u = s
      <3>1. table'[u] = e /\ query'[u] = Idle /\ owed'[u] = o
        BY <2>1 DEF IInv, TypeOK
      <3> QED BY <3>1, IdleIs DEF SlotOK
    <2>2. CASE u # s
      BY <2>2 DEF IInv, TypeOK, SlotsOK, ThreadsOK
    <2> QED BY <2>1, <2>2
  <1>3. ASSUME NEW u \in Slots, Swept'[u].status = "in_progress"
        PROVE  Swept[u].status = "in_progress"
    <2>1. Swept'[u] = IF table'[u].left < 0 THEN Absent ELSE table'[u]
      BY DEF Swept
    <2>2. table'[u] = IF u = s THEN e ELSE table[u]
      BY DEF IInv, TypeOK
    <2>3. Swept[u] = IF table[u].left < 0 THEN Absent ELSE table[u]
      BY DEF Swept
    <2> QED BY <1>3, <2>1, <2>2, <2>3, IdleIs
  <1>4. Capacity'
    BY <1>3, FewerOK DEF InProgress
  <1> QED BY <1>1, <1>2, <1>4, TableStepOK

LEMMA StartFailsOK == ASSUME IInv, NEW s \in Slots, StartFails(s) PROVE IInv'
  <1>1. /\ table' = [table EXCEPT ![s] = Absent] /\ query' = [query EXCEPT ![s] = Idle]
        /\ owed' = owed /\ query[s].at = "reserved" /\ UNCHANGED <<order, turns, renamed>>
    BY DEF StartFails, cacheVars
  <1>2. owed' = [owed EXCEPT ![s] = owed[s]] /\ owed[s] \in Times
    BY <1>1 DEF IInv, TypeOK
  <1>3. ~(owed[s] >= 0)
    BY <1>1, <1>2, TimesAre DEF IInv, SlotsOK, SlotOK
  <1> QED BY <1>1, <1>2, <1>3, IdleIs, EntryOK

LEMMA ReportOK == ASSUME IInv, NEW s \in Slots, Report(s) PROVE IInv'
  <1> DEFINE e == IF table[s] = Absent THEN table[s]
                  ELSE [status |-> IF query[s].at = "returned" THEN "completed" ELSE "error",
                        left |-> Ttl]
  <1> DEFINE o == IF query[s].left < 0 THEN -1 ELSE Ttl
  <1>1. /\ query[s].at \in {"returned", "raised"}
        /\ table' = [table EXCEPT ![s] = e] /\ query' = [query EXCEPT ![s] = Idle]
        /\ owed' = [owed EXCEPT ![s] = o] /\ UNCHANGED <<order, turns, renamed>>
    BY DEF Report, cacheVars
  <1>2. query[s].left >= 0 => table[s].status = "in_progress" /\ table[s] # Absent
    BY <1>1, IdleIs DEF IInv, SlotsOK, SlotOK
  <1>3. query[s].left \in Int
    BY TimesAre DEF IInv, TypeOK, Thread
  <1>4. o \in Times
    BY TimesAre
  <1>5. /\ e \in Entry /\ e.status # "in_progress"
        /\ table[s] # Absent => e.status \in Over /\ e.left = Ttl
    BY IdleIs, TimesAre DEF Entry, Over
  <1>6. o >= 0 => e.status \in Over /\ e.left >= o
    <2>1. o >= 0 => query[s].left >= 0 /\ o = Ttl
      BY <1>3
    <2> HIDE DEF o, e
    <2> QED BY <1>2, <1>5, <2>1
  <1> HIDE DEF o, e
  <1> QED BY <1>1, <1>4, <1>5, <1>6, EntryOK

\* Time passes for the entries and their queries alike.
LEMMA TickOK == ASSUME IInv, Tick PROVE IInv'
  <1> DEFINE e(s) == [table[s] EXCEPT !.left = Later(@)]
  <1> DEFINE q(s) == [query[s] EXCEPT !.left = Later(@)]
  <1>1. /\ table' = [s \in Slots |-> e(s)] /\ query' = [s \in Slots |-> q(s)]
        /\ owed' = [s \in Slots |-> Later(owed[s])] /\ UNCHANGED <<order, turns, renamed>>
    BY DEF Tick, cacheVars
  <1>2. ASSUME NEW s \in Slots
        PROVE  /\ table[s].left \in Times /\ query[s].left \in Times /\ owed[s] \in Times
               /\ e(s) \in Entry /\ e(s).status = table[s].status
               /\ e(s).left = Later(table[s].left)
               /\ q(s) \in Thread /\ q(s).left = Later(query[s].left)
               /\ q(s).polled = query[s].polled /\ q(s).at = query[s].at
               /\ q(s).conv = query[s].conv /\ q(s).reply = query[s].reply
    <2>1. table[s] \in Entry /\ query[s] \in Thread /\ owed[s] \in Times
      BY DEF IInv, TypeOK
    <2>2. Later(table[s].left) \in Times /\ Later(query[s].left) \in Times
      BY <2>1, TimesAre DEF Entry, Thread
    <2> QED BY <2>1, <2>2 DEF Entry, Thread
  <1> HIDE DEF e, q
  <1>3. ASSUME NEW s \in Slots
        PROVE  SlotOK(e(s), q(s), Later(owed[s])) /\ ThreadOK(q(s), renamed)
    <2>1. SlotOK(table[s], query[s], owed[s]) /\ ThreadOK(query[s], renamed)
      BY DEF IInv, SlotsOK, ThreadsOK
    <2>2. \A n \in {table[s].left, query[s].left, owed[s]} :
            n \in Int /\ (n >= 0 => Later(n) = n - 1) /\ (n < 0 => Later(n) = n)
      BY <1>2, TimesAre
    <2>3. SlotOK(e(s), q(s), Later(owed[s]))
      <3>1. q(s).left >= 0 => query[s].left >= 0 /\ q(s).left = query[s].left - 1
        BY <1>2, <2>2
      <3>2. Later(owed[s]) >= 0 => owed[s] >= 0 /\ Later(owed[s]) = owed[s] - 1
        BY <2>2
      <3>3. table[s].left >= 0 => e(s).left = table[s].left - 1
        BY <1>2, <2>2
      <3>4. Later(owed[s]) >= 0 <=> Later(owed[s]) \in Nat
        BY <2>2
      <3>5. owed[s] < 0 => Later(owed[s]) < 0
        BY <2>2
      <3> QED BY <1>2, <2>1, <2>2, <3>1, <3>2, <3>3, <3>5 DEF SlotOK
    <2>4. ThreadOK(q(s), renamed)
      BY <1>2, <2>1 DEF ThreadOK
    <2> QED BY <2>3, <2>4
  <1>4. /\ table' \in [Slots -> Entry] /\ query' \in [Slots -> Thread] /\ owed' \in [Slots -> Times]
    BY <1>1, <1>2, TimesAre
  <1>5. \A s \in Slots : /\ table'[s] = e(s) /\ query'[s] = q(s) /\ owed'[s] = Later(owed[s])
    BY <1>1
  <1>6. ASSUME NEW s \in Slots, Swept'[s].status = "in_progress"
        PROVE  Swept[s].status = "in_progress"
    <2>1. Swept'[s] = IF e(s).left < 0 THEN Absent ELSE e(s)
      BY <1>5 DEF Swept
    <2>2. Swept[s] = IF table[s].left < 0 THEN Absent ELSE table[s]
      BY DEF Swept
    <2>3. table[s].left < 0 => e(s).left < 0
      BY <1>2, TimesAre
    <2> QED BY <1>2, <1>6, <2>1, <2>2, <2>3, IdleIs
  <1>7. Capacity'
    BY <1>6, FewerOK DEF InProgress
  <1> QED BY <1>1, <1>3, <1>4, <1>5, <1>7, TableStepOK

-----------------------------------------------------------------------------
\* The theorems.

LEMMA WorkOK == ASSUME IInv, NEW s \in Slots, Work(s) PROVE IInv'
  BY StartFailsOK, StartWorkerOK, ResumeOK, OpenOK, FailsOK, AnswerOK, MoveOK, RememberOK,
     ReportOK DEF Work

LEMMA NextOK == IInv /\ [Next]_vars => IInv'
  <1> SUFFICES ASSUME IInv, [Next]_vars PROVE IInv'
    OBVIOUS
  <1>1. CASE Refuse \/ Poll
    BY <1>1, SweepOK
  <1>2. CASE Tick
    BY <1>2, TickOK
  <1>3. CASE \E s \in Slots : Ask(s) \/ Work(s)
    BY <1>3, AskOK, WorkOK
  <1>4. CASE \E s \in Slots, timeout \in Timeouts : Start(s, timeout)
    BY <1>4, StartOK
  <1>5. CASE \E c \in Conversations : ReadHistory(c) \/ Delete(c)
    BY <1>5, HistoryOK
  <1>6. CASE UNCHANGED vars
    BY <1>6 DEF vars, IInv, TypeOK, CacheOK, CacheTypeOK, CacheBounded, Keyed, Cached, SlotsOK,
       ThreadsOK, Capacity, InProgress, Swept, Transitive, TurnsBelong
  <1> QED BY <1>1, <1>2, <1>3, <1>4, <1>5, <1>6 DEF Next

LEMMA Invariant == Spec => []IInv
  <1>1. IInv /\ [Next]_vars => IInv'
    BY NextOK
  <1> QED BY InitOK, <1>1, PTL DEF Spec

\* Types: entries, threads, the cache and the renamings keep their shapes.
THEOREM TypeCorrect == Spec => []TypeOK
  <1>1. IInv => TypeOK
    BY DEF IInv
  <1> QED BY <1>1, Invariant, PTL

\* Whatever is started, swept, polled and reported in whichever order, no more queries
\* than the limit are within the time that they were given.
THEOREM RunningIsBounded == Spec => []RunningBounded
  <1>1. IInv => RunningBounded
    <2> SUFFICES ASSUME IInv PROVE RunningBounded
      OBVIOUS
    <2> DEFINE R == {s \in Slots : query[s].polled /\ query[s].left >= 0}
    <2>1. ASSUME NEW s \in R PROVE s \in InProgress(Swept)
      <3>1. table[s].status = "in_progress" /\ table[s].left >= query[s].left
            /\ query[s].left >= 0
        BY DEF IInv, SlotsOK, SlotOK
      <3>2. query[s].left \in Int /\ table[s].left \in Int
        BY TimesAre DEF IInv, TypeOK, Thread, Entry
      <3>3. ~(table[s].left < 0)
        BY <3>1, <3>2
      <3> QED BY <3>1, <3>3 DEF InProgress, Swept
    <2>2. R \subseteq InProgress(Swept)
      BY <2>1
    <2>3. IsFiniteSet(InProgress(Swept))
      BY FS_Subset DEF InProgress
    <2> HIDE DEF R
    <2>4. IsFiniteSet(R) /\ Cardinality(R) <= Cardinality(InProgress(Swept))
      BY <2>2, <2>3, FS_Subset
    <2>5. Cardinality(R) \in Nat /\ Cardinality(InProgress(Swept)) \in Nat
      BY <2>3, <2>4, FS_CardinalityType
    <2>6. Cardinality(R) <= Limit
      BY <2>4, <2>5 DEF IInv, Capacity
    <2> QED BY <2>6 DEF R, RunningBounded
  <1> QED BY <1>1, Invariant, PTL

\* The outcome of a query that ended in its time is not swept before its retention ends.
THEOREM OutcomesAreKept == Spec => []OutcomeKept
  <1>1. IInv => OutcomeKept
    BY DEF IInv, SlotsOK, SlotOK, OutcomeKept
  <1> QED BY <1>1, Invariant, PTL

\* For any caps, the cache stays within them and its two views agree.
THEOREM CacheIsBounded == Spec => []CacheBounded
  <1>1. IInv => CacheBounded
    BY DEF IInv, CacheOK
  <1> QED BY <1>1, Invariant, PTL

\* No conversation is sent the turns of another one.
THEOREM TurnsAlwaysBelong == Spec => []TurnsBelong
  <1>1. IInv => TurnsBelong
    BY DEF IInv
  <1> QED BY <1>1, Invariant, PTL
=============================================================================
