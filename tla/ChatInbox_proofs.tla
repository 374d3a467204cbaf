---------------------------- MODULE ChatInbox_proofs ----------------------------
(***************************************************************************)
(* Theorems about ChatInbox, for any events and conversations: nothing is  *)
(* forgotten or shown twice, and one event at most overtakes another.      *)
(*                                                                         *)
(* Everything follows from the order of the numbers: what is held back     *)
(* rises, and what is in the inbox is beyond all that is held back or      *)
(* shown (Order).  /chat drops nothing, because outside the chat mode what *)
(* is held back has the Noop of /back behind it (Woken), and while that is *)
(* in the inbox there is no line.  In the chat mode nothing of the chat is *)
(* held back (Elsewhere), so what is held back is not overtaken            *)
(* (NoneAhead) before the task runs outside the chat mode; then only the   *)
(* event that get() returned first comes too early (MixFacts).             *)
(*                                                                         *)
(* What Only computes is proved by induction over the sequence, as the     *)
(* search for the least place where the claim fails (Least).               *)
(***************************************************************************)
EXTENDS ChatInbox, SequenceTheorems, WellFoundedInduction, TLAPS

-----------------------------------------------------------------------------
(* Sequences *)

\* Induction without an operator: a set of naturals has a least element.
LEMMA Least ==
  ASSUME NEW T \in SUBSET Nat, T # {}
  PROVE  \E x \in T : \A y \in T : x <= y
<1> DEFINE Lt == OpToRel(<, Nat)
<1>1. IsWellFoundedOn(Lt, Nat)
  BY NatLessThanWellFounded, Zenon
<1> HIDE DEF Lt
<1>2. PICK x \in T : \A y \in T : <<y, x>> \notin Lt
  BY <1>1, WFMin
<1>3. \A y \in T : y < x => <<y, x>> \in Lt
  BY DEF Lt, OpToRel
<1>4. \A y \in T : ~ (y < x) => x <= y
  OBVIOUS
<1>5. QED
  BY <1>2, <1>3, <1>4

\* One step of Only.
Taken(s, S, i, o) == IF s[i] \in S THEN Append(o, s[i]) ELSE o

\* What Only computes on the way exists.
LEMMA OnlyExists ==
  ASSUME NEW T, NEW s \in Seq(T), NEW S
  PROVE  \E f :
           /\ f = [i \in 0 .. Len(s) |-> IF i = 0 THEN <<>> ELSE Taken(s, S, i, f[i - 1])]
           /\ Only(s, S) = f[Len(s)]
<1> DEFINE Rec(f, n) ==
      f = [i \in 0 .. n |-> IF i = 0 THEN <<>> ELSE Taken(s, S, i, f[i - 1])]
<1> DEFINE Bad == {n \in 0 .. Len(s) : ~ \E f : Rec(f, n)}
<1>1. Len(s) \in Nat
  OBVIOUS
<1>2. ASSUME Bad # {}
      PROVE  FALSE
  <2>1. Bad \in SUBSET Nat
    BY <1>1
  <2>2. PICK m \in Bad : \A n \in Bad : m <= n
    BY <1>2, <2>1, Least
  <2>3. m \in 0 .. Len(s) /\ ~ \E f : Rec(f, m)
    OBVIOUS
  <2>4. m # 0
    <3>1. Rec([i \in 0 .. 0 |-> <<>>], 0)
      OBVIOUS
    <3>2. QED
      BY <2>3, <3>1
  <2>5. m - 1 \in 0 .. Len(s) /\ ~ (m <= m - 1)
    BY <1>1, <2>3, <2>4
  <2>6. PICK f : Rec(f, m - 1)
    BY <2>2, <2>5
  <2> DEFINE g == [i \in 0 .. m |-> IF i = m THEN Taken(s, S, m, f[m - 1]) ELSE f[i]]
  <2>7. \A i \in 0 .. m : g[i] = IF i = 0 THEN <<>> ELSE Taken(s, S, i, g[i - 1])
    <3>1. ASSUME NEW i \in 0 .. m
          PROVE  g[i] = IF i = 0 THEN <<>> ELSE Taken(s, S, i, g[i - 1])
      <4>1. CASE i = m
        <5>1. m - 1 \in 0 .. m /\ m - 1 # m
          BY <2>3, <2>4
        <5>2. g[m] = Taken(s, S, m, f[m - 1]) /\ g[m - 1] = f[m - 1]
          BY <2>3, <5>1
        <5>3. QED
          BY <2>4, <4>1, <5>2
      <4>2. CASE i # m
        <5>1. i \in 0 .. m - 1 /\ (i # 0 => i - 1 \in 0 .. m /\ i - 1 # m)
          BY <2>3, <4>2
        <5>2. f[i] = IF i = 0 THEN <<>> ELSE Taken(s, S, i, f[i - 1])
          BY <2>6, <5>1
        <5>3. g[i] = f[i] /\ (i # 0 => g[i - 1] = f[i - 1])
          BY <4>2, <5>1
        <5>4. QED
          BY <5>2, <5>3
      <4>3. QED
        BY <4>1, <4>2
    <3>2. QED
      BY <3>1
  <2>8. Rec(g, m)
    <3>1. g = [i \in 0 .. m |-> g[i]]
      OBVIOUS
    <3> HIDE DEF g
    <3>2. QED
      BY <2>7, <3>1
  <2>9. QED
    BY <2>3, <2>8
<1>3. \E f : Rec(f, Len(s))
  BY <1>1, <1>2
<1>4. PICK f : f = CHOOSE h : Rec(h, Len(s))
  OBVIOUS
<1>5. Rec(f, Len(s))
  BY <1>3, <1>4
<1>6. Only(s, S) = f[Len(s)]
  BY <1>4 DEF Only, Taken
<1>7. QED
  BY <1>5, <1>6

\* o has, in their order, the elements of S among the first n of s; g tells where.
Places(o, g, s, n) ==
  /\ g \in [1 .. Len(o) -> 1 .. n]
  /\ \A k \in 1 .. Len(o) : o[k] = s[g[k]]
  /\ \A k, l \in 1 .. Len(o) : k < l => g[k] < g[l]
Selects(o, s, S, n) ==
  /\ \E g : Places(o, g, s, n)
  /\ \A j \in 1 .. n : s[j] \in S => \E k \in 1 .. Len(o) : o[k] = s[j]

\* One more element.
LEMMA SelectOne ==
  ASSUME NEW T, NEW s \in Seq(T), NEW S, NEW n \in 1 .. Len(s),
         NEW o \in Seq(T \cap S), Selects(o, s, S, n - 1)
  PROVE  Taken(s, S, n, o) \in Seq(T \cap S) /\ Selects(Taken(s, S, n, o), s, S, n)
<1>1. n \in Nat /\ n # 0 /\ s[n] \in T
  OBVIOUS
<1>2. PICK g : Places(o, g, s, n - 1)
  BY DEF Selects
<1>3. /\ Len(o) \in Nat
      /\ g \in [1 .. Len(o) -> 1 .. n - 1]
      /\ \A k \in 1 .. Len(o) : g[k] \in 1 .. n /\ g[k] < n
  BY <1>1, <1>2 DEF Places
<1>4. CASE s[n] \notin S
  <2>1. Taken(s, S, n, o) = o
    BY <1>4 DEF Taken
  <2>2. Places(o, g, s, n)
    BY <1>1, <1>2, <1>3 DEF Places
  <2>3. \A j \in 1 .. n : s[j] \in S => j \in 1 .. n - 1
    BY <1>1, <1>4
  <2>4. QED
    BY <2>1, <2>2, <2>3 DEF Selects
<1>5. CASE s[n] \in S
  <2>1. PICK q : q = Append(o, s[n])
    OBVIOUS
  <2>2. /\ q \in Seq(T \cap S) /\ Len(q) = Len(o) + 1
        /\ \A k \in 1 .. Len(o) : q[k] = o[k]
        /\ q[Len(o) + 1] = s[n]
    BY <1>1, <1>5, <2>1
  <2>3. PICK h : h = [k \in 1 .. Len(q) |-> IF k = Len(q) THEN n ELSE g[k]]
    OBVIOUS
  <2>4. \A k \in 1 .. Len(q) : k = Len(q) \/ k \in 1 .. Len(o)
    BY <1>3, <2>2
  <2>5. /\ h \in [1 .. Len(q) -> 1 .. n]
        /\ \A k \in 1 .. Len(q) : h[k] = IF k = Len(q) THEN n ELSE g[k]
    BY <1>1, <1>3, <2>3, <2>4
  <2>6. \A k \in 1 .. Len(q) : q[k] = s[h[k]]
    BY <1>2, <1>3, <2>2, <2>4, <2>5 DEF Places
  <2>7. \A k, l \in 1 .. Len(q) : k < l => h[k] < h[l]
    <3>1. ASSUME NEW k \in 1 .. Len(q), NEW l \in 1 .. Len(q), k < l
          PROVE  h[k] < h[l]
      <4>1. k \in 1 .. Len(o) /\ h[k] = g[k]
        BY <1>3, <2>2, <2>5, <3>1
      <4>2. CASE l = Len(q)
        BY <1>3, <2>5, <4>1, <4>2
      <4>3. CASE l # Len(q)
        BY <1>2, <2>4, <2>5, <3>1, <4>1, <4>3 DEF Places
      <4>4. QED
        BY <4>2, <4>3
    <3>2. QED
      BY <3>1
  <2>8. Places(q, h, s, n)
    BY <2>5, <2>6, <2>7 DEF Places
  <2>9. ASSUME NEW j \in 1 .. n, s[j] \in S
        PROVE  \E k \in 1 .. Len(q) : q[k] = s[j]
    <3>1. CASE j = n
      BY <1>3, <2>2, <3>1
    <3>2. CASE j # n
      <4>1. j \in 1 .. n - 1
        BY <1>1, <3>2
      <4>2. PICK k \in 1 .. Len(o) : o[k] = s[j]
        BY <2>9, <4>1 DEF Selects
      <4>3. QED
        BY <1>3, <2>2, <4>2
    <3>3. QED
      BY <3>1, <3>2
  <2>10. Taken(s, S, n, o) = q
    BY <1>5, <2>1 DEF Taken
  <2>11. QED
    BY <2>2, <2>8, <2>9, <2>10 DEF Selects
<1>6. QED
  BY <1>4, <1>5

\* What Only selects.
LEMMA OnlySelects ==
  ASSUME NEW T, NEW s \in Seq(T), NEW S
  PROVE  Only(s, S) \in Seq(T \cap S) /\ Selects(Only(s, S), s, S, Len(s))
<1>1. PICK f :
        /\ f = [i \in 0 .. Len(s) |-> IF i = 0 THEN <<>> ELSE Taken(s, S, i, f[i - 1])]
        /\ Only(s, S) = f[Len(s)]
  BY OnlyExists
<1>2. /\ Len(s) \in Nat /\ f[0] = <<>>
      /\ \A i \in 1 .. Len(s) : f[i] = Taken(s, S, i, f[i - 1])
  BY <1>1, SMTT(20)
<1> DEFINE Bad == {n \in 0 .. Len(s) : ~ (f[n] \in Seq(T \cap S) /\ Selects(f[n], s, S, n))}
<1>3. ASSUME Bad # {}
      PROVE  FALSE
  <2>1. Bad \in SUBSET Nat
    BY <1>2
  <2>2. PICK m \in Bad : \A n \in Bad : m <= n
    BY <1>3, <2>1, Least
  <2>3. m \in 0 .. Len(s) /\ ~ (f[m] \in Seq(T \cap S) /\ Selects(f[m], s, S, m))
    OBVIOUS
  <2>4. m # 0
    <3>1. Places(<<>>, <<>>, s, 0)
      BY DEF Places
    <3>2. Selects(<<>>, s, S, 0)
      BY <3>1 DEF Selects
    <3>3. f[0] \in Seq(T \cap S) /\ Selects(f[0], s, S, 0)
      BY <1>2, <3>2
    <3>4. QED
      BY <2>3, <3>3
  <2>5. m - 1 \in 0 .. Len(s) /\ ~ (m <= m - 1) /\ m \in 1 .. Len(s)
    BY <1>2, <2>3, <2>4
  <2>6. f[m - 1] \in Seq(T \cap S) /\ Selects(f[m - 1], s, S, m - 1)
    BY <2>2, <2>5
  <2>7. QED
    BY <1>2, <2>3, <2>5, <2>6, SelectOne
<1>4. QED
  BY <1>1, <1>2, <1>3, SMTT(20)

\* What Only keeps: the elements of S.
LEMMA OnlySet ==
  ASSUME NEW s \in Seq(Nat), NEW S
  PROVE  Only(s, S) \in Seq(Nat) /\ ToSet(Only(s, S)) = ToSet(s) \cap S
<1>1. PICK o : o = Only(s, S)
  OBVIOUS
<1>2. o \in Seq(Nat \cap S) /\ Selects(o, s, S, Len(s))
  BY <1>1, OnlySelects
<1>3. o \in Seq(Nat) /\ \A k \in 1 .. Len(o) : o[k] \in S
  BY <1>2
<1>4. PICK g : Places(o, g, s, Len(s))
  BY <1>2 DEF Selects
<1>5. ToSet(o) = {o[k] : k \in 1 .. Len(o)} /\ ToSet(s) = {s[k] : k \in 1 .. Len(s)}
  BY <1>3 DEF ToSet
<1>6. ASSUME NEW x, x \in ToSet(o)
      PROVE  x \in ToSet(s) \cap S
  <2>1. PICK k \in 1 .. Len(o) : o[k] = x
    BY <1>5, <1>6
  <2>2. g[k] \in 1 .. Len(s) /\ x = s[g[k]]
    BY <1>4, <2>1 DEF Places
  <2>3. QED
    BY <1>3, <1>5, <2>1, <2>2
<1>7. \A x : x \in ToSet(s) \cap S => x \in ToSet(o)
  BY <1>2, <1>5 DEF Selects
<1>8. QED
  BY <1>1, <1>3, <1>6, <1>7

\* s is increasing, but for the Noop.
Rising(s) ==
  \A i, j \in 1 .. Len(s) : i < j /\ s[i] # Noop /\ s[j] # Noop => s[i] < s[j]

\* Only keeps the order.
LEMMA OnlyRising ==
  ASSUME NEW s \in Seq(Nat), NEW S, Rising(s)
  PROVE  Rising(Only(s, S))
<1>1. PICK o : o = Only(s, S)
  OBVIOUS
<1>2. o \in Seq(Nat \cap S) /\ Selects(o, s, S, Len(s))
  BY <1>1, OnlySelects
<1>3. PICK g : Places(o, g, s, Len(s))
  BY <1>2 DEF Selects
<1>4. ASSUME NEW i \in 1 .. Len(o), NEW j \in 1 .. Len(o), i < j,
             o[i] # Noop, o[j] # Noop
      PROVE  o[i] < o[j]
  <2>1. /\ g[i] \in 1 .. Len(s) /\ g[j] \in 1 .. Len(s) /\ g[i] < g[j]
        /\ o[i] = s[g[i]] /\ o[j] = s[g[j]]
    BY <1>3, <1>4 DEF Places
  <2>2. QED
    BY <1>4, <2>1 DEF Rising
<1>5. QED
  BY <1>1, <1>4 DEF Rising

-----------------------------------------------------------------------------
(* The inductive invariant *)

Types ==
  /\ running \in BOOLEAN /\ active \in BOOLEAN
  /\ posted \in Seq(Event) /\ Len(posted) <= MaxEvents
  /\ inbox \in Seq(Nat) /\ pending \in Seq(Nat) /\ shown \in Seq(Nat)
  /\ target \in Peer \cup Room \cup {None}

\* An event of a conversation: only those are held back.
OfChat(n) == posted[n].type \in {"message", "room_leave"}

\* What is where is an event, or in the inbox the one that /back posts.
Events ==
  /\ \A n \in ToSet(inbox) : n \in Number \/ n = Noop
  /\ \A n \in ToSet(pending) : n \in Number /\ OfChat(n)
  /\ ToSet(shown) \subseteq Number

\* What is in the inbox came after all that is held back or shown.
Order ==
  /\ Rising(inbox) /\ Rising(pending) /\ IsInjective(shown)
  /\ \A m \in ToSet(inbox), n \in ToSet(pending) \cup ToSet(shown) : m # Noop => n < m

\* Nothing is in two places or, receipts and invitations apart, in none.
Apart    == ToSet(pending) \cap ToSet(shown) = {}
Complete == Kept \subseteq ToSet(inbox) \cup ToSet(pending) \cup ToSet(shown)

\* Outside the chat mode what is held back is shown before the next line.
Woken == ~active /\ pending # <<>> => Noop \in ToSet(inbox)

\* In the chat mode nothing of the chat is held back.
Elsewhere == active => \A n \in ToSet(pending) : posted[n].of # target

\* Nothing that is held back has been overtaken.
NoneAhead ==
  \A n \in ToSet(pending), m \in ToSet(shown) : posted[m].of = posted[n].of => m < n

IInv ==
  /\ Types /\ Events /\ Order /\ Apart /\ Complete
  /\ Woken /\ Elsewhere /\ NoneAhead /\ OvertakenByOne

-----------------------------------------------------------------------------
(* Sequences that are put together *)

\* The elements of a sequence by their places.
LEMMA SetOf ==
  ASSUME NEW s \in Seq(Nat)
  PROVE  /\ Len(s) \in Nat /\ ToSet(s) \subseteq Nat
         /\ \A k \in 1 .. Len(s) : s[k] \in Nat /\ s[k] \in ToSet(s)
         /\ \A n \in ToSet(s) : \E k \in 1 .. Len(s) : s[k] = n
         /\ IsInjective(s) <=> \A i, j \in 1 .. Len(s) : s[i] = s[j] => i = j
<1>1. DOMAIN s = 1 .. Len(s) /\ Len(s) \in Nat /\ \A k \in 1 .. Len(s) : s[k] \in Nat
  OBVIOUS
<1>2. QED
  BY <1>1 DEF ToSet, IsInjective

\* An increasing sequence repeats nothing.
LEMMA RisingIsInjective ==
  ASSUME NEW s \in Seq(Nat), Rising(s), Noop \notin ToSet(s)
  PROVE  IsInjective(s)
<1>1. ASSUME NEW i \in 1 .. Len(s), NEW j \in 1 .. Len(s), s[i] = s[j]
      PROVE  i = j
  <2>1. /\ i < j => s[i] < s[j]
        /\ j < i => s[j] < s[i]
    BY SetOf, SMTT(20) DEF Rising
  <2>2. s[i] \in Nat /\ s[j] \in Nat /\ i \in Nat /\ j \in Nat
    OBVIOUS
  <2>3. QED
    BY <1>1, <2>1, <2>2
<1>2. QED
  BY <1>1, SetOf

\* Two sequences one after the other.
LEMMA ConcatFacts ==
  ASSUME NEW s \in Seq(Nat), NEW t \in Seq(Nat)
  PROVE  /\ s \o t \in Seq(Nat) /\ Len(s \o t) = Len(s) + Len(t)
         /\ \A k \in 1 .. Len(s) : (s \o t)[k] = s[k]
         /\ \A k \in 1 .. Len(t) :
              Len(s) + k \in 1 .. Len(s \o t) /\ (s \o t)[Len(s) + k] = t[k]
         /\ \A k \in 1 .. Len(s \o t) :
              k \in 1 .. Len(s) \/ \E l \in 1 .. Len(t) : k = Len(s) + l
         /\ ToSet(s \o t) = ToSet(s) \cup ToSet(t)
<1>1. PICK q : q = s \o t
  OBVIOUS
<1>2. /\ q \in Seq(Nat) /\ Len(q) = Len(s) + Len(t) /\ Len(s) \in Nat /\ Len(t) \in Nat
      /\ \A k \in 1 .. Len(s) : q[k] = s[k]
      /\ \A k \in 1 .. Len(t) : q[Len(s) + k] = t[k]
  BY <1>1, ConcatProperties
<1>3. \A k \in 1 .. Len(t) : Len(s) + k \in 1 .. Len(q)
  BY <1>2
<1>4. \A k \in 1 .. Len(q) : k \in 1 .. Len(s) \/ \E l \in 1 .. Len(t) : k = Len(s) + l
  <2>1. ASSUME NEW k \in 1 .. Len(q), k \notin 1 .. Len(s)
        PROVE  \E l \in 1 .. Len(t) : k = Len(s) + l
    <3>1. k - Len(s) \in 1 .. Len(t) /\ k = Len(s) + (k - Len(s))
      BY <1>2, <2>1
    <3>2. QED
      BY <3>1
  <2>2. QED
    BY <2>1
<1>5. ASSUME NEW x, x \in ToSet(q)
      PROVE  x \in ToSet(s) \cup ToSet(t)
  <2>1. PICK k \in 1 .. Len(q) : q[k] = x
    BY <1>2, <1>5, SetOf
  <2>2. CASE k \in 1 .. Len(s)
    BY <1>2, <2>1, <2>2, SetOf
  <2>3. ASSUME NEW l \in 1 .. Len(t), k = Len(s) + l
        PROVE  x \in ToSet(t)
    BY <1>2, <2>1, <2>3, SetOf
  <2>4. QED
    BY <1>4, <2>2, <2>3
<1>6. ASSUME NEW x, x \in ToSet(s) \cup ToSet(t)
      PROVE  x \in ToSet(q)
  <2>1. CASE x \in ToSet(s)
    <3>1. PICK k \in 1 .. Len(s) : s[k] = x
      BY <2>1, SetOf
    <3>2. k \in 1 .. Len(q) /\ q[k] = x
      BY <1>2, <3>1, SMTT(20)
    <3>3. QED
      BY <1>2, <3>2, SetOf
  <2>2. CASE x \in ToSet(t)
    <3>1. PICK k \in 1 .. Len(t) : t[k] = x
      BY <2>2, SetOf
    <3>2. Len(s) + k \in 1 .. Len(q) /\ q[Len(s) + k] = x
      BY <1>2, <1>3, <3>1
    <3>3. QED
      BY <1>2, <3>2, SetOf
  <2>3. QED
    BY <1>6, <2>1, <2>2
<1>7. QED
  BY <1>1, <1>2, <1>3, <1>4, <1>5, <1>6

LEMMA Associative ==
  ASSUME NEW s \in Seq(Nat), NEW t \in Seq(Nat), NEW u \in Seq(Nat)
  PROVE  s \o t \o u = s \o (t \o u)
  BY SMTT(20)

\* Two that repeat nothing and have nothing in common.
LEMMA ConcatInjective ==
  ASSUME NEW s \in Seq(Nat), NEW t \in Seq(Nat), IsInjective(s), IsInjective(t),
         ToSet(s) \cap ToSet(t) = {}
  PROVE  IsInjective(s \o t)
<1>1. PICK q : q = s \o t
  OBVIOUS
<1>2. /\ q \in Seq(Nat) /\ Len(s) \in Nat /\ Len(t) \in Nat
      /\ \A k \in 1 .. Len(s) : q[k] = s[k]
      /\ \A k \in 1 .. Len(t) : q[Len(s) + k] = t[k]
      /\ \A k \in 1 .. Len(q) : k \in 1 .. Len(s) \/ \E l \in 1 .. Len(t) : k = Len(s) + l
  BY <1>1, ConcatFacts, SetOf
<1>3. ASSUME NEW i \in 1 .. Len(q), NEW j \in 1 .. Len(q), q[i] = q[j]
      PROVE  i = j
  <2>1. CASE i \in 1 .. Len(s) /\ j \in 1 .. Len(s)
    BY <1>2, <1>3, <2>1, SetOf
  <2>2. ASSUME i \in 1 .. Len(s), NEW l \in 1 .. Len(t), j = Len(s) + l
        PROVE  FALSE
    <3>1. s[i] = t[l]
      BY <1>2, <1>3, <2>2
    <3>2. s[i] \in ToSet(s) /\ t[l] \in ToSet(t)
      BY <2>2, SetOf
    <3>3. QED
      BY <3>1, <3>2
  <2>3. ASSUME j \in 1 .. Len(s), NEW l \in 1 .. Len(t), i = Len(s) + l
        PROVE  FALSE
    <3>1. s[j] = t[l]
      BY <1>2, <1>3, <2>3
    <3>2. s[j] \in ToSet(s) /\ t[l] \in ToSet(t)
      BY <2>3, SetOf
    <3>3. QED
      BY <3>1, <3>2
  <2>4. ASSUME NEW k \in 1 .. Len(t), NEW l \in 1 .. Len(t),
               i = Len(s) + k, j = Len(s) + l
        PROVE  i = j
    <3>1. t[k] = t[l]
      BY <1>2, <1>3, <2>4
    <3>2. k = l
      BY <3>1, SetOf
    <3>3. QED
      BY <2>4, <3>2
  <2>5. QED
    BY <1>2, <2>1, <2>2, <2>3, <2>4
<1>4. QED
  BY <1>1, <1>2, <1>3, SetOf

\* Two that increase, the second beyond the first.
LEMMA ConcatRising ==
  ASSUME NEW s \in Seq(Nat), NEW t \in Seq(Nat), Rising(s), Rising(t),
         \A m \in ToSet(s), n \in ToSet(t) : m # Noop /\ n # Noop => m < n
  PROVE  Rising(s \o t)
<1>1. PICK q : q = s \o t
  OBVIOUS
<1>2. /\ q \in Seq(Nat) /\ Len(s) \in Nat /\ Len(t) \in Nat
      /\ \A k \in 1 .. Len(s) : q[k] = s[k]
      /\ \A k \in 1 .. Len(t) : q[Len(s) + k] = t[k]
      /\ \A k \in 1 .. Len(q) : k \in 1 .. Len(s) \/ \E l \in 1 .. Len(t) : k = Len(s) + l
  BY <1>1, ConcatFacts, SetOf
<1>3. ASSUME NEW i \in 1 .. Len(q), NEW j \in 1 .. Len(q), i < j,
             q[i] # Noop, q[j] # Noop
      PROVE  q[i] < q[j]
  <2>1. CASE i \in 1 .. Len(s) /\ j \in 1 .. Len(s)
    BY <1>2, <1>3, <2>1 DEF Rising
  <2>2. ASSUME i \in 1 .. Len(s), NEW l \in 1 .. Len(t), j = Len(s) + l
        PROVE  q[i] < q[j]
    BY <1>2, <1>3, <2>2, SetOf
  <2>3. ASSUME j \in 1 .. Len(s), NEW l \in 1 .. Len(t), i = Len(s) + l
        PROVE  FALSE
    BY <1>2, <1>3, <2>3
  <2>4. ASSUME NEW k \in 1 .. Len(t), NEW l \in 1 .. Len(t),
               i = Len(s) + k, j = Len(s) + l
        PROVE  q[i] < q[j]
    <3>1. k < l
      BY <1>2, <1>3, <2>4
    <3>2. QED
      BY <1>2, <1>3, <2>4, <3>1 DEF Rising
  <2>5. QED
    BY <1>2, <2>1, <2>2, <2>3, <2>4
<1>4. QED
  BY <1>1, <1>3 DEF Rising

\* A sequence of one element.
LEMMA OneElement ==
  ASSUME NEW x \in Nat
  PROVE  /\ <<x>> \in Seq(Nat) /\ Len(<<x>>) = 1 /\ <<x>>[1] = x
         /\ ToSet(<<x>>) = {x} /\ Rising(<<x>>)
<1>1. PICK s : s = <<x>>
  OBVIOUS
<1>2. s \in Seq(Nat) /\ Len(s) = 1 /\ s[1] = x
  BY <1>1
<1>3. \A k \in 1 .. Len(s) : k = 1
  BY <1>2
<1>4. 1 \in 1 .. Len(s)
  BY <1>2
<1>5. \A y : y \in ToSet(s) <=> y = x
  <2>1. ASSUME NEW y, y \in ToSet(s)
        PROVE  y = x
    <3>1. PICK k \in 1 .. Len(s) : s[k] = y
      BY <1>2, <2>1, SetOf
    <3>2. QED
      BY <1>2, <1>3, <3>1
  <2>2. x \in ToSet(s)
    BY <1>2, <1>4, SetOf
  <2>3. QED
    BY <2>1, <2>2
<1>6. Rising(s)
  BY <1>3 DEF Rising
<1>7. QED
  BY <1>1, <1>2, <1>5, <1>6

\* One more element, which is the Noop or beyond all.
LEMMA AppendOne ==
  ASSUME NEW s \in Seq(Nat), NEW x \in Nat
  PROVE  /\ Append(s, x) \in Seq(Nat) /\ ToSet(Append(s, x)) = ToSet(s) \cup {x}
         /\ Rising(s) /\ (x # Noop => \A n \in ToSet(s) : n # Noop => n < x) =>
              Rising(Append(s, x))
<1>1. PICK t : t = <<x>>
  OBVIOUS
<1>2. t \in Seq(Nat) /\ ToSet(t) = {x} /\ Rising(t)
  BY <1>1, OneElement
<1>3. Append(s, x) = s \o t
  BY <1>1, AppendIsConcat
<1>4. QED
  BY <1>2, <1>3, ConcatFacts, ConcatRising

\* What is taken first, and the rest.
LEMMA HeadTail ==
  ASSUME NEW s \in Seq(Nat), s # <<>>, Rising(s)
  PROVE  /\ Head(s) \in Nat /\ Tail(s) \in Seq(Nat)
         /\ ToSet(s) = {Head(s)} \cup ToSet(Tail(s)) /\ Rising(Tail(s))
         /\ \A n \in ToSet(Tail(s)) : Head(s) # Noop /\ n # Noop => Head(s) < n
<1>1. PICK h, u : h = Head(s) /\ u = Tail(s)
  OBVIOUS
<1>2. /\ h \in Nat /\ u \in Seq(Nat) /\ Len(s) \in Nat /\ Len(u) = Len(s) - 1
      /\ 1 \in 1 .. Len(s) /\ s[1] = h
      /\ \A k \in 1 .. Len(u) : k + 1 \in 1 .. Len(s) /\ u[k] = s[k + 1]
  BY <1>1, HeadTailProperties, SetOf
<1>3. ASSUME NEW x, x \in ToSet(s), x # h
      PROVE  x \in ToSet(u)
  <2>1. PICK k \in 1 .. Len(s) : s[k] = x
    BY <1>3, SetOf
  <2>2. k - 1 \in 1 .. Len(u) /\ u[k - 1] = x
    BY <1>2, <1>3, <2>1, SMTT(20)
  <2>3. QED
    BY <1>2, <2>2, SetOf
<1>4. ASSUME NEW x, x \in ToSet(u)
      PROVE  /\ x \in ToSet(s)
             /\ h # Noop /\ x # Noop => h < x
  <2>1. PICK k \in 1 .. Len(u) : u[k] = x
    BY <1>2, <1>4, SetOf
  <2>2. k + 1 \in 1 .. Len(s) /\ s[k + 1] = x /\ 1 < k + 1
    BY <1>2, <2>1
  <2>3. h # Noop /\ x # Noop => h < x
    BY <1>2, <2>2 DEF Rising
  <2>4. QED
    BY <2>2, <2>3, SetOf
<1>5. h \in ToSet(s)
  BY <1>2, SetOf
<1>6. Rising(u)
  <2>1. ASSUME NEW i \in 1 .. Len(u), NEW j \in 1 .. Len(u), i < j,
               u[i] # Noop, u[j] # Noop
        PROVE  u[i] < u[j]
    <3>1. /\ i + 1 \in 1 .. Len(s) /\ u[i] = s[i + 1]
          /\ j + 1 \in 1 .. Len(s) /\ u[j] = s[j + 1]
      BY <1>2
    <3>2. i + 1 < j + 1
      BY <2>1
    <3>3. QED
      BY <2>1, <3>1, <3>2 DEF Rising
  <2>2. QED
    BY <2>1 DEF Rising
<1>7. QED
  BY <1>1, <1>2, <1>3, <1>4, <1>5, <1>6

\* q is h and then the rising sequence r.
Leads(q, h, r) ==
  /\ Rising(r) /\ (h # Noop => h \notin ToSet(r))
  /\ q[1] = h /\ ToSet(q) = {h} \cup ToSet(r)
  /\ \A k \in 1 .. Len(q) : k # 1 => k - 1 \in 1 .. Len(r) /\ q[k] = r[k - 1]

\* What Only selects behind a first element that may come too early.
LEMMA FirstAndRest ==
  ASSUME NEW h \in Nat, NEW r \in Seq(Nat), NEW q \in Seq(Nat), Leads(q, h, r),
         NEW S \in SUBSET (Nat \ {Noop}), NEW o, o = Only(q, S)
  PROVE  /\ o \in Seq(Nat) /\ IsInjective(o) /\ ToSet(o) = ({h} \cup ToSet(r)) \cap S
         /\ \A k, l \in 1 .. Len(o) : k < l => o[k] < o[l] \/ o[k] = h
<1>1. /\ Rising(r) /\ (h # Noop => h \notin ToSet(r))
      /\ q[1] = h /\ ToSet(q) = {h} \cup ToSet(r)
      /\ \A k \in 1 .. Len(q) : k # 1 => k - 1 \in 1 .. Len(r) /\ q[k] = r[k - 1]
  BY DEF Leads
<1>2. o \in Seq(Nat \cap S) /\ Selects(o, q, S, Len(q))
  BY OnlySelects
<1>3. /\ o \in Seq(Nat) /\ \A k \in 1 .. Len(o) : o[k] \in Nat /\ o[k] \in S /\ o[k] # Noop
      /\ Len(q) \in Nat
  BY <1>2
<1>4. PICK g : Places(o, g, q, Len(q))
  BY <1>2 DEF Selects
<1>5. ASSUME NEW k \in 1 .. Len(o), NEW l \in 1 .. Len(o), k < l
      PROVE  o[k] # o[l] /\ (o[k] < o[l] \/ o[k] = h)
  <2>1. g[k] \in 1 .. Len(q) /\ g[l] \in 1 .. Len(q)
    BY <1>4 DEF Places
  <2>2. PICK a \in 1 .. Len(q), b \in 1 .. Len(q) : a = g[k] /\ b = g[l]
    BY <2>1
  <2>3. a < b /\ o[k] = q[a] /\ o[l] = q[b]
    BY <1>4, <1>5, <2>2 DEF Places
  <2>4. b # 1 /\ b - 1 \in 1 .. Len(r) /\ o[l] = r[b - 1]
    <3>1. b # 1
      BY <2>3
    <3>2. QED
      BY <1>1, <2>3, <3>1
  <2>5. CASE a = 1
    <3>1. o[k] = h /\ o[l] \in ToSet(r)
      BY <1>1, <2>3, <2>4, <2>5, SetOf
    <3>2. QED
      BY <1>1, <1>3, <3>1
  <2>6. CASE a # 1
    <3>1. a - 1 \in 1 .. Len(r) /\ o[k] = r[a - 1] /\ a - 1 < b - 1
      BY <1>1, <2>3, <2>6
    <3>2. o[k] < o[l]
      BY <1>1, <1>3, <2>4, <3>1 DEF Rising
    <3>3. QED
      BY <1>3, <3>2, SMTT(20)
  <2>7. QED
    BY <2>5, <2>6
<1>6. IsInjective(o)
  <2>1. ASSUME NEW k \in 1 .. Len(o), NEW l \in 1 .. Len(o), o[k] = o[l], k # l
        PROVE  FALSE
    <3>1. k < l \/ l < k
      BY <2>1
    <3>2. QED
      BY <1>5, <2>1, <3>1
  <2>2. QED
    BY <1>3, <2>1, SetOf
<1>7. ToSet(o) = ToSet(q) \cap S
  BY OnlySet
<1>8. QED
  BY <1>1, <1>3, <1>5, <1>6, <1>7

\* What is in s came after all that is in t.
Follows(s, t) == \A m \in ToSet(s), n \in ToSet(t) : m # Noop => n < m

\* The order in which process_inbox shows what there is: only the first of the
\* inbox may come too early.
LEMMA MixFacts ==
  ASSUME NEW s \in Seq(Nat), NEW t \in Seq(Nat), s # <<>>, Rising(s), Rising(t),
         Follows(s, t), NEW S \in SUBSET (Nat \ {Noop})
  PROVE  \E o \in Seq(Nat) :
           /\ o = Only(<<Head(s)>> \o t \o Tail(s), S) /\ IsInjective(o)
           /\ ToSet(o) = (ToSet(s) \cup ToSet(t)) \cap S
           /\ \A k, l \in 1 .. Len(o) : k < l => o[k] < o[l] \/ o[k] = Head(s)
<1>1. PICK h, u, w : h = Head(s) /\ u = Tail(s) /\ w = <<h>>
  OBVIOUS
<1>2. PICK r : r = t \o u
  OBVIOUS
<1>3. PICK q : q = w \o r
  OBVIOUS
<1>4. /\ h \in Nat /\ u \in Seq(Nat) /\ ToSet(s) = {h} \cup ToSet(u) /\ Rising(u)
      /\ \A n \in ToSet(u) : h # Noop /\ n # Noop => h < n
  BY <1>1, HeadTail
<1>5. /\ w \in Seq(Nat) /\ Len(w) = 1 /\ w[1] = h /\ ToSet(w) = {h}
  BY <1>1, <1>4, OneElement
<1>6. \A m \in ToSet(t), n \in ToSet(u) : m # Noop /\ n # Noop => m < n
  BY <1>4 DEF Follows
<1>7. r \in Seq(Nat) /\ ToSet(r) = ToSet(t) \cup ToSet(u) /\ Rising(r)
  BY <1>2, <1>4, <1>6, ConcatFacts, ConcatRising
<1>8. h # Noop => h \notin ToSet(r)
  <2>1. h # Noop => \A n \in ToSet(t) : n < h
    BY <1>4 DEF Follows
  <2>2. h # Noop => \A n \in ToSet(r) : n # h
    BY <1>4, <1>7, <2>1
  <2>3. QED
    BY <2>2
<1>9. /\ w \o r \in Seq(Nat) /\ ToSet(w \o r) = ToSet(w) \cup ToSet(r)
      /\ \A k \in 1 .. Len(w) : (w \o r)[k] = w[k]
      /\ \A k \in 1 .. Len(r) : (w \o r)[Len(w) + k] = r[k]
      /\ \A k \in 1 .. Len(w \o r) :
           k \in 1 .. Len(w) \/ \E l \in 1 .. Len(r) : k = Len(w) + l
  BY <1>5, <1>7, ConcatFacts, ZenonT(60)
<1>10. q[1] = h
  <2>1. 1 \in 1 .. Len(w)
    BY <1>5
  <2>2. QED
    BY <1>3, <1>5, <1>9, <2>1
<1>11. ASSUME NEW k \in 1 .. Len(q), k # 1
       PROVE  k - 1 \in 1 .. Len(r) /\ q[k] = r[k - 1]
  <2>1. k \notin 1 .. Len(w)
    BY <1>5, <1>11
  <2>2. PICK l \in 1 .. Len(r) : k = Len(w) + l
    BY <1>3, <1>9, <2>1
  <2>3. l = k - 1
    BY <1>5, <2>2
  <2>4. QED
    BY <1>3, <1>9, <2>2, <2>3
<1>12. <<Head(s)>> \o t \o Tail(s) = q
  <2>1. w \o t \o u = w \o (t \o u)
    BY <1>4, <1>5, Associative, ZenonT(60)
  <2>2. QED
    BY <1>1, <1>2, <1>3, <2>1
<1>13. PICK o : o = Only(q, S)
  OBVIOUS
<1>14. q \in Seq(Nat) /\ ToSet(q) = {h} \cup ToSet(r)
  BY <1>3, <1>5, <1>9
<1>15. /\ o \in Seq(Nat) /\ IsInjective(o) /\ ToSet(o) = ({h} \cup ToSet(r)) \cap S
       /\ \A k, l \in 1 .. Len(o) : k < l => o[k] < o[l] \/ o[k] = h
  <2>1. Leads(q, h, r)
    BY <1>7, <1>8, <1>10, <1>11, <1>14 DEF Leads
  <2>2. h \in Nat /\ r \in Seq(Nat)
    BY <1>4, <1>7
  <2>3. QED
    BY <1>13, <1>14, <2>1, <2>2, FirstAndRest, SMTT(20)
<1>16. QED
  BY <1>1, <1>4, <1>7, <1>12, <1>13, <1>15

-----------------------------------------------------------------------------
(* Facts about events and overtakers *)

\* Events have numbers from 1, and those of chats have a conversation.
LEMMA EventFacts ==
  ASSUME Types
  PROVE  /\ Len(posted) \in Nat /\ Number \in SUBSET (Nat \ {Noop}) /\ Number \subseteq Nat
         /\ \A n \in Number : OfChat(n) => posted[n].of # None
         /\ \A n \in Number : posted[n].type = "notice" => posted[n].of = None
<1>1. Len(posted) \in Nat /\ Number \in SUBSET (Nat \ {Noop}) /\ Number \subseteq Nat
  BY DEF Types, Number, Noop
<1>2. \A e \in Event : /\ e.type \in {"message", "room_leave"} => e.of \in Peer \cup Room
                       /\ e.type = "notice" => e.of = None
  BY DEF Event
<1>3. \A n \in Number : posted[n] \in Event
  BY DEF Types, Number
<1>4. None \notin Peer \cup Room
  BY ChatInboxAssumption
<1>5. QED
  BY <1>1, <1>2, <1>3, <1>4 DEF OfChat

\* Who overtook an event that was shown before.
LEMMA OldOvertakers ==
  ASSUME shown \in Seq(Nat), NEW o \in Seq(Nat), shown' = shown \o o, posted' = posted,
         NEW n \in ToSet(shown), NEW m, m \in Overtakers(n)'
  PROVE  m \in Overtakers(n)
<1>1. /\ m > n /\ posted[m].of = posted[n].of
      /\ \A i \in 1 .. Len(shown') : shown'[i] = n => \E j \in 1 .. i : shown'[j] = m
  BY DEF Overtakers
<1>2. /\ Len(shown) \in Nat /\ \A i \in 1 .. Len(shown) : i \in 1 .. Len(shown')
      /\ \A i \in 1 .. Len(shown) : shown'[i] = shown[i]
  BY ConcatFacts, SetOf
<1>3. ASSUME NEW i \in 1 .. Len(shown), shown[i] = n
      PROVE  \E j \in 1 .. i : shown[j] = m
  <2>1. PICK j \in 1 .. i : shown'[j] = m
    BY <1>1, <1>2, <1>3
  <2>2. j \in 1 .. Len(shown)
    BY <1>2
  <2>3. QED
    BY <1>2, <2>1, <2>2
<1>4. PICK i \in 1 .. Len(shown) : shown[i] = n
  BY SetOf
<1>5. PICK j \in 1 .. i : shown[j] = m
  BY <1>3, <1>4
<1>6. j \in 1 .. Len(shown)
  BY <1>2
<1>7. m \in ToSet(shown)
  BY <1>5, <1>6, SetOf
<1>8. QED
  BY <1>1, <1>3, <1>7 DEF Overtakers

\* Who overtakes an event that is shown now comes with it.
LEMMA NewOvertakers ==
  ASSUME shown \in Seq(Nat), NEW o \in Seq(Nat), shown' = shown \o o, posted' = posted,
         NEW l \in 1 .. Len(o), NEW m, m \in Overtakers(o[l])',
         \A k \in ToSet(shown) : posted[k].of = posted[o[l]].of => k < o[l]
  PROVE  \E k \in 1 .. Len(o) : k < l /\ o[k] = m /\ m > o[l]
<1>1. PICK n : n = o[l]
  OBVIOUS
<1>2. /\ m > n /\ posted[m].of = posted[n].of
      /\ \A i \in 1 .. Len(shown') : shown'[i] = n => \E j \in 1 .. i : shown'[j] = m
  BY <1>1 DEF Overtakers
<1>3. /\ Len(shown) \in Nat /\ n \in Nat
      /\ Len(shown) + l \in 1 .. Len(shown') /\ shown'[Len(shown) + l] = n
      /\ \A i \in 1 .. Len(shown) : shown'[i] = shown[i]
      /\ \A k \in 1 .. Len(o) : shown'[Len(shown) + k] = o[k]
      /\ \A k \in 1 .. Len(shown') :
           k \in 1 .. Len(shown) \/ \E i \in 1 .. Len(o) : k = Len(shown) + i
  BY <1>1, ConcatFacts, SetOf, SMTT(20)
<1>4. PICK j \in 1 .. (Len(shown) + l) : shown'[j] = m
  BY <1>2, <1>3
<1>5. j \in 1 .. Len(shown')
  BY <1>3
<1>6. j \notin 1 .. Len(shown)
  <2>1. ASSUME j \in 1 .. Len(shown)
        PROVE  FALSE
    <3>1. m \in ToSet(shown) /\ m \in Nat
      BY <1>3, <1>4, <2>1, SetOf
    <3>2. m < n
      BY <1>1, <1>2, <3>1
    <3>3. QED
      BY <1>2, <1>3, <3>1, <3>2
  <2>2. QED
    BY <2>1
<1>7. PICK k \in 1 .. Len(o) : j = Len(shown) + k
  BY <1>3, <1>5, <1>6
<1>8. o[k] = m
  BY <1>3, <1>4, <1>7
<1>9. k <= l /\ m # n
  BY <1>2, <1>3, <1>7
<1>10. k < l
  BY <1>1, <1>8, <1>9
<1>11. QED
  BY <1>1, <1>2, <1>8, <1>10

\* Nothing that waits has been overtaken by what was shown before.
LEMMA NotAhead ==
  ASSUME IInv, NEW n \in ToSet(inbox) \cup ToSet(pending), n # Noop,
         NEW k \in ToSet(shown), posted[k].of = posted[n].of
  PROVE  k < n
BY DEF IInv, Order, NoneAhead

\* The empty sequence.
LEMMA Nothing == <<>> \in Seq(Nat) /\ Rising(<<>>) /\ ToSet(<<>>) = {}
<1>1. <<>> \in Seq(Nat) /\ Len(<<>>) = 0
  OBVIOUS
<1>2. ToSet(<<>>) = {}
  BY DEF ToSet
<1>3. QED
  BY <1>1, <1>2 DEF Rising

-----------------------------------------------------------------------------
(* Actions *)

\* process_inbox in the chat mode.
LEMMA ProcessInChat ==
  ASSUME IInv, ProcessInbox, active
  PROVE  IInv'
<1>1. PICK h, d : h = Only(inbox, Here) /\ d = Only(inbox, Held)
  OBVIOUS
<1>2. /\ shown' = shown \o h /\ pending' = pending \o d /\ inbox' = <<>>
      /\ running' = running /\ posted' = posted /\ active' = active /\ target' = target
  BY <1>1 DEF ProcessInbox, chat
<1>3. /\ Types /\ Events /\ Order /\ Apart /\ Complete
      /\ Elsewhere /\ NoneAhead /\ OvertakenByOne
  BY DEF IInv
<1>4. inbox \in Seq(Nat) /\ pending \in Seq(Nat) /\ shown \in Seq(Nat)
  BY <1>3 DEF Types
<1>5. /\ Here \subseteq Number /\ Held \subseteq Number /\ Here \cap Held = {}
      /\ \A n \in Held : OfChat(n) /\ posted[n].of # target
      /\ \A n \in Here : posted[n].type = "notice" \/ (OfChat(n) /\ posted[n].of = target)
      /\ \A n \in Kept : n \in Number /\ (n \in Here \/ n \in Held)
  BY DEF Here, Held, OfChat, Kept
<1>6. /\ Len(posted) \in Nat /\ Number \in SUBSET (Nat \ {Noop}) /\ Number \subseteq Nat
      /\ \A n \in Number : OfChat(n) => posted[n].of # None
      /\ \A n \in Number : posted[n].type = "notice" => posted[n].of = None
  BY <1>3, EventFacts
<1>7. /\ h \in Seq(Nat) /\ ToSet(h) = ToSet(inbox) \cap Here /\ Rising(h)
      /\ d \in Seq(Nat) /\ ToSet(d) = ToSet(inbox) \cap Held /\ Rising(d)
  BY <1>1, <1>3, <1>4, OnlySet, OnlyRising DEF Order
<1>8. /\ shown' \in Seq(Nat) /\ ToSet(shown') = ToSet(shown) \cup ToSet(h)
      /\ pending' \in Seq(Nat) /\ ToSet(pending') = ToSet(pending) \cup ToSet(d)
      /\ inbox' \in Seq(Nat) /\ Rising(inbox') /\ ToSet(inbox') = {}
  BY <1>2, <1>4, <1>7, ConcatFacts, Nothing
<1>9. /\ Number' = Number /\ Kept' = Kept /\ \A n : OfChat(n)' <=> OfChat(n)
  BY <1>2 DEF Number, Kept, OfChat
<1>10. \A n \in ToSet(pending) : n \in Number /\ OfChat(n) /\ posted[n].of # target
  BY <1>3 DEF Events, Elsewhere
<1>11. /\ \A m \in ToSet(h) \cup ToSet(d) : m \in Number /\ m # Noop
       /\ \A m \in ToSet(h) \cup ToSet(d), n \in ToSet(pending) \cup ToSet(shown) : n < m
  BY <1>3, <1>5, <1>6, <1>7 DEF Order
<1>12. ToSet(pending) \cup ToSet(shown) \subseteq Nat
  BY <1>4, SetOf
<1>13. \A m \in ToSet(h) \cup ToSet(d) : m \notin ToSet(pending) \cup ToSet(shown)
  <2>1. \A m \in Nat : ~ (m < m)
    OBVIOUS
  <2>2. QED
    BY <1>11, <1>12, <2>1
<1>14. Types'
  BY <1>2, <1>3, <1>8 DEF Types
<1>15. Events'
  BY <1>3, <1>5, <1>7, <1>8, <1>9 DEF Events
<1>16. Order'
  <2>1. Rising(pending')
    BY <1>2, <1>3, <1>4, <1>7, <1>11, ConcatRising DEF Order
  <2>2. Noop \notin ToSet(h)
    BY <1>11
  <2>3. IsInjective(h)
    BY <1>7, <2>2, RisingIsInjective
  <2>4. IsInjective(shown) /\ ToSet(shown) \cap ToSet(h) = {}
    BY <1>3, <1>13 DEF Order
  <2>5. IsInjective(shown')
    BY <1>2, <1>4, <1>7, <2>3, <2>4, ConcatInjective
  <2>6. QED
    BY <1>8, <2>1, <2>5 DEF Order
<1>17. Apart'
  BY <1>3, <1>5, <1>7, <1>8, <1>13 DEF Apart
<1>18. Complete'
  BY <1>3, <1>5, <1>7, <1>8, <1>9 DEF Complete
<1>19. Woken' /\ Elsewhere'
  BY <1>2, <1>5, <1>7, <1>8, <1>10 DEF Woken, Elsewhere
<1>20. NoneAhead'
  <2>1. ASSUME NEW n \in ToSet(pending'), NEW m \in ToSet(shown'),
               posted[m].of = posted[n].of
        PROVE  m < n
    <3>1. n \in ToSet(pending) \/ n \in ToSet(d)
      BY <1>8
    <3>2. n \in Number /\ OfChat(n) /\ posted[n].of # target /\ posted[n].of # None
      BY <1>5, <1>6, <1>7, <1>10, <3>1
    <3>3. CASE m \in ToSet(shown)
      BY <1>3, <1>11, <2>1, <3>1, <3>3 DEF NoneAhead
    <3>4. CASE m \in ToSet(h)
      BY <1>5, <1>6, <1>7, <2>1, <3>2, <3>4
    <3>5. QED
      BY <1>8, <3>3, <3>4
  <2>2. QED
    BY <1>2, <2>1 DEF NoneAhead
<1>21. OvertakenByOne'
  <2>1. ASSUME NEW n \in ToSet(pending'), NEW m \in Overtakers(n)'
        PROVE  FALSE
    <3>1. m \in ToSet(shown') /\ m > n /\ posted'[m].of = posted'[n].of
      BY DEF Overtakers
    <3>2. m < n /\ m \in Nat /\ n \in Nat
      BY <1>8, <1>20, <3>1, SetOf DEF NoneAhead
    <3>3. QED
      BY <3>1, <3>2
  <2>2. ASSUME NEW n \in ToSet(h), NEW m \in Overtakers(n)'
        PROVE  FALSE
    <3>1. PICK l \in 1 .. Len(h) : h[l] = n
      BY <1>7, SetOf
    <3>2. \A k \in ToSet(shown) : k < n
      BY <1>11
    <3>3. PICK k \in 1 .. Len(h) : k < l /\ h[k] = m /\ m > n
      BY <1>2, <1>4, <1>7, <2>2, <3>1, <3>2, NewOvertakers, ZenonT(60)
    <3>4. m \in Nat /\ n \in Nat /\ m # Noop /\ n # Noop
      BY <1>7, <1>11, <3>1, <3>3, SetOf
    <3>5. m < n
      BY <1>7, <3>1, <3>3, <3>4 DEF Rising
    <3>6. QED
      BY <3>3, <3>4, <3>5
  <2>3. ASSUME NEW n \in ToSet(shown), OfChat(n),
               NEW m1 \in Overtakers(n)', NEW m2 \in Overtakers(n)'
        PROVE  m1 = m2
    <3>1. m1 \in Overtakers(n) /\ m2 \in Overtakers(n)
      BY <1>2, <1>4, <1>7, <2>3, OldOvertakers
    <3>2. QED
      BY <1>3, <2>3, <3>1 DEF OvertakenByOne, OfChat
  <2>4. QED
    BY <1>8, <1>9, <2>1, <2>2, <2>3 DEF OvertakenByOne, OfChat
<1>22. QED
  BY <1>14, <1>15, <1>16, <1>17, <1>18, <1>19, <1>20, <1>21 DEF IInv

\* process_inbox outside the chat mode: all that was held back is shown.
LEMMA ProcessAll ==
  ASSUME IInv, ProcessInbox, ~active
  PROVE  IInv'
<1>1. PICK q, o : q = InOrder /\ o = Only(q, Number)
  OBVIOUS
<1>2. /\ shown' = shown \o o /\ pending' = <<>> /\ inbox' = <<>> /\ inbox # <<>>
      /\ running' = running /\ posted' = posted /\ active' = active /\ target' = target
  BY <1>1 DEF ProcessInbox, chat
<1>3. Types /\ Events /\ Order /\ Apart /\ Complete /\ NoneAhead /\ OvertakenByOne
  BY DEF IInv
<1>4. /\ inbox \in Seq(Nat) /\ pending \in Seq(Nat) /\ shown \in Seq(Nat)
      /\ Rising(inbox) /\ Rising(pending)
      /\ \A m \in ToSet(inbox), n \in ToSet(pending) : m # Noop => n < m
      /\ \A m \in ToSet(inbox), n \in ToSet(shown) : m # Noop => n < m
  BY <1>3 DEF Types, Order
<1>5. Number \in SUBSET (Nat \ {Noop}) /\ Number \subseteq Nat
  BY <1>3, EventFacts
<1>6. /\ o \in Seq(Nat) /\ IsInjective(o)
      /\ ToSet(o) = (ToSet(inbox) \cup ToSet(pending)) \cap Number
      /\ \A k, l \in 1 .. Len(o) : k < l => o[k] < o[l] \/ o[k] = Head(inbox)
  <2>1. \E p \in Seq(Nat) :
          /\ p = Only(<<Head(inbox)>> \o pending \o Tail(inbox), Number) /\ IsInjective(p)
          /\ ToSet(p) = (ToSet(inbox) \cup ToSet(pending)) \cap Number
          /\ \A k, l \in 1 .. Len(p) : k < l => p[k] < p[l] \/ p[k] = Head(inbox)
    <3>1. Follows(inbox, pending)
      BY <1>4 DEF Follows
    <3>2. QED
      BY <1>2, <1>4, <1>5, <3>1, MixFacts
  <2>2. o = Only(<<Head(inbox)>> \o pending \o Tail(inbox), Number)
    BY <1>1 DEF InOrder
  <2>3. QED
    BY <2>1, <2>2
<1>7. /\ shown' \in Seq(Nat) /\ ToSet(shown') = ToSet(shown) \cup ToSet(o)
      /\ pending' \in Seq(Nat) /\ Rising(pending') /\ ToSet(pending') = {}
      /\ inbox' \in Seq(Nat) /\ Rising(inbox') /\ ToSet(inbox') = {}
  BY <1>2, <1>4, <1>6, ConcatFacts, Nothing
<1>8. Number' = Number /\ Kept' = Kept /\ Kept \subseteq Number
  BY <1>2 DEF Number, Kept
<1>9. \A n \in ToSet(shown) : n \in Nat /\ n \notin ToSet(o)
  <2>1. ASSUME NEW n \in ToSet(shown), n \in ToSet(o)
        PROVE  FALSE
    <3>1. n \in Nat /\ n # Noop /\ n \notin ToSet(pending)
      BY <1>3, <1>5, <1>6, <2>1 DEF Apart
    <3>2. n < n
      BY <1>4, <1>6, <2>1, <3>1
    <3>3. QED
      BY <3>1, <3>2
  <2>2. QED
    BY <1>4, <2>1, SetOf
<1>10. Types' /\ Events'
  BY <1>2, <1>3, <1>6, <1>7, <1>8 DEF Types, Events
<1>11. Order'
  <2>1. IsInjective(shown) /\ ToSet(shown) \cap ToSet(o) = {}
    BY <1>3, <1>9 DEF Order
  <2>2. IsInjective(shown')
    BY <1>2, <1>4, <1>6, <2>1, ConcatInjective
  <2>3. QED
    BY <1>7, <2>2 DEF Order
<1>12. Apart' /\ Elsewhere' /\ NoneAhead'
  BY <1>7 DEF Apart, Elsewhere, NoneAhead
<1>13. Woken'
  BY <1>2 DEF Woken
<1>14. Complete'
  BY <1>3, <1>6, <1>7, <1>8 DEF Complete
<1>15. OvertakenByOne'
  <2>1. ASSUME NEW n \in ToSet(o), NEW m \in Overtakers(n)'
        PROVE  m = Head(inbox)
    <3>1. PICK l \in 1 .. Len(o) : o[l] = n
      BY <1>6, SetOf
    <3>2. n \in ToSet(inbox) \cup ToSet(pending) /\ n # Noop /\ n \in Nat
      BY <1>5, <1>6
    <3>3. \A k \in ToSet(shown) : posted[k].of = posted[n].of => k < n
      BY <3>2, NotAhead
    <3>4. PICK k \in 1 .. Len(o) : k < l /\ o[k] = m /\ m > n
      BY <1>2, <1>4, <1>6, <2>1, <3>1, <3>3, NewOvertakers
    <3>5. m \in Nat
      BY <1>6, <3>4, SetOf
    <3>6. o[k] < o[l] \/ o[k] = Head(inbox)
      BY <1>6, <3>4
    <3>7. QED
      BY <3>1, <3>2, <3>4, <3>5, <3>6
  <2>2. ASSUME NEW n \in ToSet(shown), OfChat(n),
               NEW m1 \in Overtakers(n)', NEW m2 \in Overtakers(n)'
        PROVE  m1 = m2
    <3>1. m1 \in Overtakers(n) /\ m2 \in Overtakers(n)
      BY <1>2, <1>4, <1>6, <2>2, OldOvertakers
    <3>2. QED
      BY <1>3, <2>2, <3>1 DEF OvertakenByOne, OfChat
  <2>3. QED
    BY <1>2, <1>7, <2>1, <2>2 DEF OvertakenByOne, OfChat
<1>16. QED
  BY <1>10, <1>11, <1>12, <1>13, <1>14, <1>15 DEF IInv

\* Posting an event, which is newer than all others.
LEMMA PostInv ==
  ASSUME IInv, NEW e \in Event, Post(e)
  PROVE  IInv'
<1>1. PICK z : z = Len(posted) + 1
  OBVIOUS
<1>2. /\ Len(posted) < MaxEvents /\ posted' = Append(posted, e) /\ inbox' = Append(inbox, z)
      /\ running' = running /\ active' = active /\ target' = target
      /\ pending' = pending /\ shown' = shown
  BY <1>1 DEF Post, chat
<1>3. Types /\ Events /\ Order /\ Apart /\ Complete /\ Woken /\ Elsewhere /\ NoneAhead
      /\ OvertakenByOne
  BY DEF IInv
<1>4. /\ posted \in Seq(Event) /\ Len(posted) \in Nat /\ MaxEvents \in Nat
      /\ inbox \in Seq(Nat) /\ pending \in Seq(Nat) /\ shown \in Seq(Nat)
  BY <1>3, ChatInboxAssumption DEF Types
<1>5. /\ posted' \in Seq(Event) /\ Len(posted') = z /\ z \in Nat /\ z # Noop
      /\ Len(posted') <= MaxEvents /\ \A n \in Number : posted'[n] = posted[n]
  BY <1>1, <1>2, <1>4 DEF Number, Noop
<1>6. /\ Number' = Number \cup {z} /\ \A n \in Number : n \in Nat /\ n < z
  BY <1>1, <1>4, <1>5, SMTT(20) DEF Number
<1>7. /\ \A n \in ToSet(inbox) : n \in Number \/ n = Noop
      /\ \A n \in ToSet(pending) : n \in Number /\ OfChat(n)
      /\ ToSet(shown) \subseteq Number
  BY <1>3 DEF Events
<1>8. /\ inbox' \in Seq(Nat) /\ ToSet(inbox') = ToSet(inbox) \cup {z} /\ Rising(inbox')
  <2>1. \A n \in ToSet(inbox) : n # Noop => n < z
    BY <1>6, <1>7
  <2>2. Rising(inbox)
    BY <1>3 DEF Order
  <2>3. QED
    BY <1>2, <1>4, <1>5, <2>1, <2>2, AppendOne
<1>9. \A n \in Number : OfChat(n)' <=> OfChat(n)
  BY <1>5 DEF OfChat
<1>10. Types'
  BY <1>2, <1>3, <1>5, <1>8 DEF Types
<1>11. Events'
  <2>1. /\ \A n \in ToSet(inbox') : n \in Number' \/ n = Noop
        /\ ToSet(shown') \subseteq Number'
    BY <1>2, <1>6, <1>7, <1>8
  <2>2. \A n \in ToSet(pending') : n \in Number' /\ OfChat(n)'
    BY <1>2, <1>6, <1>7, <1>9
  <2>3. QED
    BY <2>1, <2>2 DEF Events
<1>12. Order'
  BY <1>2, <1>3, <1>6, <1>7, <1>8 DEF Order
<1>13. Apart' /\ Complete'
  <2>1. Kept' \subseteq Kept \cup {z}
    BY <1>5, <1>6 DEF Kept
  <2>2. QED
    BY <1>2, <1>3, <1>8, <2>1 DEF Apart, Complete
<1>14. Woken' /\ Elsewhere'
  BY <1>2, <1>3, <1>5, <1>7, <1>8 DEF Woken, Elsewhere
<1>15. NoneAhead'
  BY <1>2, <1>3, <1>5, <1>7 DEF NoneAhead
<1>16. OvertakenByOne'
  <2>1. ASSUME NEW n \in Number
        PROVE  Overtakers(n)' = Overtakers(n)
    BY <1>2, <1>5, <1>7 DEF Overtakers
  <2>2. ASSUME NEW n \in ToSet(pending) \cup ToSet(shown), OfChat(n)',
               NEW m1 \in Overtakers(n)', NEW m2 \in Overtakers(n)'
        PROVE  m1 = m2
    <3>1. n \in Number
      BY <1>7
    <3>2. OfChat(n) /\ m1 \in Overtakers(n) /\ m2 \in Overtakers(n)
      BY <1>9, <2>1, <2>2, <3>1
    <3>3. QED
      BY <1>3, <3>2 DEF OvertakenByOne, OfChat
  <2>3. QED
    BY <1>2, <2>2 DEF OvertakenByOne, OfChat
<1>17. QED
  BY <1>10, <1>11, <1>12, <1>13, <1>14, <1>15, <1>16 DEF IInv

\* What only posted, pending and shown decide.
LEMMA SameEvents ==
  ASSUME posted' = posted, pending' = pending, shown' = shown
  PROVE  /\ Number' = Number /\ Kept' = Kept /\ (OvertakenByOne <=> OvertakenByOne')
         /\ (NoneAhead <=> NoneAhead') /\ (Apart <=> Apart')
         /\ \A n : OfChat(n)' <=> OfChat(n)
<1>1. \A n : Overtakers(n)' = Overtakers(n)
  BY DEF Overtakers
<1>2. OvertakenByOne <=> OvertakenByOne'
  BY <1>1 DEF OvertakenByOne
<1>3. QED
  BY <1>2 DEF Number, Kept, NoneAhead, Apart, OfChat

\* /chat: nothing is held back that the new chat could drop.
LEMMA EnterInv ==
  ASSUME IInv, NEW c \in Peer \cup Room \cup {None}, Enter(c)
  PROVE  IInv'
<1>1. /\ ~active /\ active' = TRUE /\ target' = c /\ pending' = <<>> /\ ~Contains(inbox, Noop)
      /\ running' = running /\ posted' = posted /\ inbox' = inbox /\ shown' = shown
  BY DEF Enter, Line
<1>2. Types /\ Events /\ Order /\ Apart /\ Complete /\ Woken /\ NoneAhead /\ OvertakenByOne
  BY DEF IInv
<1>3. pending = <<>>
  <2>1. inbox \in Seq(Nat)
    BY <1>2 DEF Types
  <2>2. Noop \notin ToSet(inbox)
    BY <1>1, <2>1, SetOf DEF Contains
  <2>3. QED
    BY <1>1, <1>2, <2>2 DEF Woken
<1>4. /\ Number' = Number /\ Kept' = Kept /\ OvertakenByOne' /\ NoneAhead' /\ Apart'
      /\ \A n : OfChat(n)' <=> OfChat(n)
  BY <1>1, <1>2, <1>3, SameEvents
<1>5. Types' /\ Events' /\ Order' /\ Complete'
  BY <1>1, <1>2, <1>3, <1>4 DEF Types, Events, Order, Complete
<1>6. Woken' /\ Elsewhere'
  BY <1>1, Nothing DEF Woken, Elsewhere
<1>7. QED
  BY <1>4, <1>5, <1>6 DEF IInv

\* /back, which wakes the task.
LEMMA BackInv ==
  ASSUME IInv, Back
  PROVE  IInv'
<1>1. /\ active' = FALSE /\ inbox' = Append(inbox, Noop)
      /\ running' = running /\ posted' = posted /\ target' = target
      /\ pending' = pending /\ shown' = shown
  BY DEF Back
<1>2. Types /\ Events /\ Order /\ Apart /\ Complete /\ NoneAhead /\ OvertakenByOne
  BY DEF IInv
<1>3. /\ inbox' \in Seq(Nat) /\ ToSet(inbox') = ToSet(inbox) \cup {Noop} /\ Rising(inbox')
  <2>1. inbox \in Seq(Nat) /\ Noop \in Nat /\ Rising(inbox)
    BY <1>2 DEF Types, Order, Noop
  <2>2. QED
    BY <1>1, <2>1, AppendOne
<1>4. /\ Number' = Number /\ Kept' = Kept /\ OvertakenByOne' /\ NoneAhead' /\ Apart'
      /\ \A n : OfChat(n)' <=> OfChat(n)
  BY <1>1, <1>2, SameEvents
<1>5. Types'
  BY <1>1, <1>2, <1>3 DEF Types
<1>6. Events' /\ Order' /\ Complete'
  BY <1>1, <1>2, <1>3, <1>4 DEF Events, Order, Complete
<1>7. Woken' /\ Elsewhere'
  BY <1>1, <1>3 DEF Woken, Elsewhere
<1>8. QED
  BY <1>4, <1>5, <1>6, <1>7 DEF IInv

\* /quit, and a step that changes nothing.
LEMMA QuitInv ==
  ASSUME IInv, Quit \/ UNCHANGED vars
  PROVE  IInv'
<1>1. /\ running' \in BOOLEAN /\ posted' = posted /\ inbox' = inbox /\ active' = active
      /\ target' = target /\ pending' = pending /\ shown' = shown
  BY DEF Quit, vars, chat, IInv, Types
<1>2. /\ Types /\ Events /\ Order /\ Apart /\ Complete /\ Woken /\ Elsewhere /\ NoneAhead
      /\ OvertakenByOne
  BY DEF IInv
<1>3. /\ Number' = Number /\ Kept' = Kept /\ OvertakenByOne' /\ NoneAhead' /\ Apart'
      /\ \A n : OfChat(n)' <=> OfChat(n)
  BY <1>1, <1>2, SameEvents
<1>4. Types' /\ Events' /\ Order' /\ Complete' /\ Woken' /\ Elsewhere'
  BY <1>1, <1>2, <1>3 DEF Types, Events, Order, Complete, Woken, Elsewhere
<1>5. QED
  BY <1>3, <1>4 DEF IInv

-----------------------------------------------------------------------------
(* Theorems *)

LEMMA InitInv == Init => IInv
<1> SUFFICES ASSUME Init PROVE IInv
  OBVIOUS
<1>1. /\ running = TRUE /\ posted = <<>> /\ inbox = <<>> /\ pending = <<>> /\ shown = <<>>
      /\ active = FALSE /\ target = None
  BY DEF Init
<1>2. ToSet(inbox) = {} /\ ToSet(pending) = {} /\ ToSet(shown) = {}
  BY <1>1, Nothing
<1>3. Types
  <2>1. \A S : <<>> \in Seq(S) /\ Len(<<>>) = 0
    OBVIOUS
  <2>2. Len(posted) <= MaxEvents
    BY <1>1, <2>1, ChatInboxAssumption
  <2>3. QED
    BY <1>1, <2>1, <2>2 DEF Types
<1>4. Number = {} /\ Kept = {}
  BY <1>1 DEF Number, Kept
<1>5. Events /\ Apart /\ Complete /\ Elsewhere /\ NoneAhead
  BY <1>1, <1>2, <1>4 DEF Events, Apart, Complete, Elsewhere, NoneAhead
<1>6. Order
  <2>1. Rising(<<>>) /\ IsInjective(<<>>)
    BY Nothing, SetOf, RisingIsInjective
  <2>2. QED
    BY <1>1, <1>2, <2>1 DEF Order
<1>7. Woken /\ OvertakenByOne
  BY <1>1, <1>2 DEF Woken, OvertakenByOne
<1>8. QED
  BY <1>3, <1>5, <1>6, <1>7 DEF IInv

\* The invariant holds in every state that the terminal reaches.
THEOREM Invariance == Spec => []IInv
<1>1. IInv /\ [Next]_vars => IInv'
  <2> SUFFICES ASSUME IInv, [Next]_vars PROVE IInv'
    OBVIOUS
  <2>1. CASE ProcessInbox
    BY <2>1, ProcessInChat, ProcessAll
  <2>2. CASE Back
    BY <2>2, BackInv
  <2>3. CASE Quit \/ UNCHANGED vars
    BY <2>3, QuitInv
  <2>4. ASSUME NEW e \in Event, Post(e)
        PROVE  IInv'
    BY <2>4, PostInv
  <2>5. ASSUME NEW c \in Peer \cup Room \cup {None}, Enter(c)
        PROVE  IInv'
    BY <2>5, EnterInv
  <2>6. QED
    BY <2>1, <2>2, <2>3, <2>4, <2>5 DEF Next
<1>2. QED
  BY <1>1, InitInv, PTL DEF Spec

\* Only messages and leaves are held back.
THEOREM TypesCorrect == Spec => []TypeOK
<1>1. IInv => TypeOK
  <2> SUFFICES ASSUME IInv PROVE TypeOK
    OBVIOUS
  <2>1. \A n \in ToSet(inbox) : n \in Number \cup {Noop}
    BY DEF IInv, Events
  <2>2. QED
    BY <2>1 DEF IInv, Types, Events, OfChat, TypeOK
<1>2. QED
  BY <1>1, Invariance, PTL

\* process_inbox, /chat and /back forget no event that the chat mode keeps, and
\* show none twice.
THEOREM EveryEventOnce == Spec => []NothingForgotten
<1>1. IInv => NothingForgotten
  <2> SUFFICES ASSUME IInv PROVE NothingForgotten
    OBVIOUS
  <2>1. PICK i, w : i = Only(inbox, Number) /\ w = i \o pending
    OBVIOUS
  <2>2. Types /\ Events /\ Order /\ Apart /\ Complete
    BY DEF IInv
  <2>3. /\ inbox \in Seq(Nat) /\ pending \in Seq(Nat) /\ shown \in Seq(Nat)
        /\ Rising(inbox) /\ Rising(pending) /\ IsInjective(shown)
    BY <2>2 DEF Types, Order
  <2>4. Number \in SUBSET (Nat \ {Noop}) /\ Number \subseteq Nat
    BY <2>2, EventFacts
  <2>5. i \in Seq(Nat) /\ ToSet(i) = ToSet(inbox) \cap Number /\ Rising(i)
    BY <2>1, <2>3, OnlySet, OnlyRising
  <2>6. Noop \notin ToSet(i) /\ Noop \notin ToSet(pending)
    BY <2>2, <2>4, <2>5 DEF Events
  <2>7. IsInjective(i) /\ IsInjective(pending)
    BY <2>3, <2>5, <2>6, RisingIsInjective
  <2>8. \A n \in ToSet(i) : n \in Nat /\ n \notin ToSet(pending) \cup ToSet(shown)
    <3>1. ASSUME NEW n \in ToSet(i), n \in ToSet(pending) \cup ToSet(shown)
          PROVE  FALSE
      <4>1. n \in Nat /\ n # Noop /\ n \in ToSet(inbox)
        BY <2>4, <2>5
      <4>2. n < n
        BY <2>2, <3>1, <4>1 DEF Order
      <4>3. QED
        BY <4>1, <4>2
    <3>2. QED
      BY <2>4, <2>5, <3>1
  <2>9. w \in Seq(Nat) /\ ToSet(w) = ToSet(i) \cup ToSet(pending) /\ IsInjective(w)
    <3>1. ToSet(i) \cap ToSet(pending) = {}
      BY <2>8
    <3>2. QED
      BY <2>1, <2>3, <2>5, <2>7, <3>1, ConcatFacts, ConcatInjective
  <2>10. ToSet(w) \cap ToSet(shown) = {}
    BY <2>2, <2>8, <2>9 DEF Apart
  <2>11. IsInjective(w \o shown) /\ ToSet(w \o shown) = ToSet(w) \cup ToSet(shown)
    BY <2>3, <2>9, <2>10, ConcatFacts, ConcatInjective
  <2>12. Kept \subseteq ToSet(w) \cup ToSet(shown)
    BY <2>2, <2>5, <2>9 DEF Complete, Kept
  <2>13. QED
    BY <2>1, <2>11, <2>12 DEF NothingForgotten
<1>2. QED
  BY <1>1, Invariance, PTL

\* What process_inbox held back is shown behind at most one later event of its
\* conversation.
THEOREM OneOvertakes == Spec => []OvertakenByOne
<1>1. IInv => OvertakenByOne
  BY DEF IInv
<1>2. QED
  BY <1>1, Invariance, PTL
=============================================================================
