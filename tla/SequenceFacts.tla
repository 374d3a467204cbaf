----------------------------- MODULE SequenceFacts -----------------------------
(***************************************************************************)
(* What the proofs about queues and connections need of sequences: which   *)
(* elements a sequence has, and that it has none of them twice, when an    *)
(* element is appended, as a queue or a connection does with a message,    *)
(* and when its head is taken away.                                        *)
(***************************************************************************)
EXTENDS Sequences, FiniteSetTheorems, TLAPS

\* x is in the sequence s, and nothing is in it twice.
In(x, s) == \E i \in 1 .. Len(s) : s[i] = x
Inj(s)   == \A i, j \in 1 .. Len(s) : s[i] = s[j] => i = j

\* The empty sequence and those of one element.
LEMMA ShortSequences ==
  /\ Inj(<<>>) /\ \A m : ~ In(m, <<>>)
  /\ \A x : Inj(<<x>>) /\ Len(<<x>>) = 1 /\ Head(<<x>>) = x /\ <<x>> # <<>>
  /\ \A x, m : In(m, <<x>>) <=> m = x
  BY DEF In, Inj

\* What is in a sequence is of its type.
LEMMA Element ==
  ASSUME NEW S, NEW s \in Seq(S), NEW m, In(m, s)
  PROVE  m \in S /\ s # <<>>
  BY DEF In

\* The only element of a sequence of length one.
LEMMA Single ==
  ASSUME NEW S, NEW s \in Seq(S), Len(s) = 1
  PROVE  s # <<>> /\ \A m : In(m, s) <=> m = Head(s)
  BY DEF In

\* A sequence that is prolonged.
LEMMA AppendFacts ==
  ASSUME NEW S, NEW s \in Seq(S), NEW x \in S
  PROVE  /\ Append(s, x) \in Seq(S) /\ Append(s, x) # <<>>
         /\ Len(Append(s, x)) = Len(s) + 1
         /\ \A m : In(m, Append(s, x)) <=> In(m, s) \/ m = x
         /\ s # <<>> => Head(Append(s, x)) = Head(s)
         /\ Inj(s) /\ ~ In(x, s) => Inj(Append(s, x))
<1>1. /\ Append(s, x) \in Seq(S) /\ Len(s) \in Nat
      /\ Len(Append(s, x)) = Len(s) + 1
      /\ \A i \in 1 .. Len(s) : Append(s, x)[i] = s[i]
      /\ Append(s, x)[Len(s) + 1] = x
  OBVIOUS
<1>2. \A m : In(m, Append(s, x)) <=> In(m, s) \/ m = x
  <2>1. ASSUME NEW m, In(m, Append(s, x)), m # x
        PROVE  In(m, s)
    BY <1>1, <2>1 DEF In
  <2>2. ASSUME NEW m, In(m, s) \/ m = x
        PROVE  In(m, Append(s, x))
    <3>1. CASE m = x
      <4>1. Len(s) + 1 \in 1 .. Len(Append(s, x))
        BY <1>1
      <4>2. QED
        BY <1>1, <3>1, <4>1 DEF In
    <3>2. CASE In(m, s)
      BY <1>1, <3>2 DEF In
    <3>3. QED
      BY <2>2, <3>1, <3>2
  <2>3. QED
    BY <2>1, <2>2
<1>3. ASSUME Inj(s), ~ In(x, s)
      PROVE  Inj(Append(s, x))
  BY <1>1, <1>3 DEF In, Inj
<1>4. Append(s, x) # <<>> /\ (s # <<>> => Head(Append(s, x)) = Head(s))
  BY SMTT(20)
<1>5. QED
  BY <1>1, <1>2, <1>3, <1>4

\* A sequence whose first element is taken away.
LEMMA TailFacts ==
  ASSUME NEW S, NEW s \in Seq(S), s # <<>>
  PROVE  /\ Tail(s) \in Seq(S) /\ Head(s) \in S
         /\ Len(Tail(s)) = Len(s) - 1 /\ Len(s) \in Nat /\ Len(s) >= 1
         /\ In(Head(s), s)
         /\ \A m : In(m, Tail(s)) => In(m, s)
         /\ \A m : In(m, s) => m = Head(s) \/ In(m, Tail(s))
         /\ Inj(s) => Inj(Tail(s)) /\ ~ In(Head(s), Tail(s))
<1>1. /\ Tail(s) \in Seq(S) /\ Head(s) \in S
      /\ Len(Tail(s)) = Len(s) - 1 /\ Len(s) \in Nat /\ Len(s) >= 1
      /\ \A i \in 1 .. Len(s) - 1 : Tail(s)[i] = s[i + 1]
      /\ Head(s) = s[1]
  OBVIOUS
<1>2. In(Head(s), s)
  BY <1>1 DEF In
<1>3. ASSUME NEW m, In(m, Tail(s))
      PROVE  In(m, s)
  <2>1. PICK i \in 1 .. Len(s) - 1 : Tail(s)[i] = m
    BY <1>1, <1>3 DEF In
  <2>2. i + 1 \in 1 .. Len(s) /\ s[i + 1] = m
    BY <1>1, <2>1
  <2>3. QED
    BY <2>2 DEF In
<1>4. ASSUME NEW m, In(m, s), m # Head(s)
      PROVE  In(m, Tail(s))
  <2>1. PICK i \in 1 .. Len(s) : s[i] = m
    BY <1>4 DEF In
  <2>2. i - 1 \in 1 .. Len(Tail(s)) /\ Tail(s)[i - 1] = m
    BY <1>1, <1>4, <2>1
  <2>3. QED
    BY <2>2 DEF In
<1>5. ASSUME Inj(s)
      PROVE  Inj(Tail(s)) /\ ~ In(Head(s), Tail(s))
  <2>1. ASSUME NEW i \in 1 .. Len(Tail(s)), NEW j \in 1 .. Len(Tail(s)),
               Tail(s)[i] = Tail(s)[j]
        PROVE  i = j
    <3>1. i + 1 \in 1 .. Len(s) /\ j + 1 \in 1 .. Len(s) /\ s[i + 1] = s[j + 1]
      BY <1>1, <2>1
    <3>2. QED
      BY <1>5, <3>1 DEF Inj
  <2>2. ASSUME NEW i \in 1 .. Len(Tail(s)), Tail(s)[i] = Head(s)
        PROVE  FALSE
    <3>1. i + 1 \in 1 .. Len(s) /\ 1 \in 1 .. Len(s) /\ s[i + 1] = s[1]
      BY <1>1, <2>2
    <3>2. i + 1 = 1
      BY <1>5, <3>1 DEF Inj
    <3>3. QED
      BY <3>2
  <2>3. QED
    BY <2>1, <2>2 DEF In, Inj
<1>6. QED
  BY <1>1, <1>2, <1>3, <1>4, <1>5

\* There are as many elements as positions in a sequence without repetitions.
LEMMA Elements ==
  ASSUME NEW S, NEW s \in Seq(S), Inj(s), NEW T, IsFiniteSet(T),
         \A m : In(m, s) => m \in T
  PROVE  Cardinality(T) >= Len(s)
<1>1. Len(s) \in Nat
  OBVIOUS
<1>2. DEFINE f == [i \in 1 .. Len(s) |-> s[i]]
<1>3. f \in [1 .. Len(s) -> T]
  BY DEF In
<1>4. f \in Injection(1 .. Len(s), T)
  BY <1>3 DEF Injection, IsInjective, Inj
<1>5. Cardinality(1 .. Len(s)) <= Cardinality(T)
  <2> HIDE DEF f
  <2>1. QED
    BY <1>4, FS_Injection
<1>6. Cardinality(1 .. Len(s)) = Len(s)
  <2>1. Cardinality(1 .. Len(s)) = IF 1 > Len(s) THEN 0 ELSE Len(s) - 1 + 1
    BY <1>1, FS_Interval, SMTT(20)
  <2>2. QED
    BY <1>1, <2>1
<1>7. Cardinality(T) \in Nat
  BY FS_CardinalityType
<1>8. QED
  BY <1>1, <1>5, <1>6, <1>7
=============================================================================
