---------------------------- MODULE Receive_proofs ----------------------------
(***************************************************************************)
(* Proofs about Receive, for every value of its constants.                 *)
(*                                                                         *)
(* The functions of Receive are recursive.  What they return is proved by  *)
(* induction, which the library states for an operator; here it is stated  *)
(* for a set, from the fact that `<` is well founded on Nat (Smallest,     *)
(* SetInduction, SizeInduction), and so is the existence of the functions  *)
(* (Recursion).  On that rest the facts about the codec: unTransMean undoes *)
(* the escapes, the checksums agree, a message is understood as it was     *)
(* sent.  IInv says that the stream is the rest of the frames sent, that   *)
(* what was handled came from frames read to their end, in order, and that *)
(* flag, serial number and answers are those the handled messages call for.*)
(***************************************************************************)
EXTENDS Receive, SequenceTheorems, WellFoundedInduction, TLAPS

-----------------------------------------------------------------------------
(* Induction and recursion on a size                                       *)

\* A set of naturals that is not empty has a least element: `<` on Nat is
\* well founded (NatLessThanWellFounded and WFMin of the library).
LEMMA Smallest ==
  ASSUME NEW T \in SUBSET Nat, T # {}
  PROVE  \E m \in T : \A n \in T : m <= n
<1> DEFINE R == { p \in Nat \X Nat : p[1] < p[2] }
<1>2. IsWellFoundedOn(R, Nat)
  BY NatLessThanWellFounded, Zenon DEF OpToRel
<1>1. \A p : p \in R <=> p \in Nat \X Nat /\ p[1] < p[2]
  OBVIOUS
<1> HIDE DEF R
<1>3. PICK m \in T : \A n \in T : <<n, m>> \notin R
  BY <1>2, WFMin
<1>4. ASSUME NEW n \in T PROVE m <= n
  <2>1. <<n, m>> \in R <=> n < m
    BY <1>1
  <2> QED
    BY <1>3, <2>1
<1> QED
  BY <1>4

\* Induction on Nat, for membership in a set.
LEMMA SetInduction ==
  ASSUME NEW T, 0 \in T, \A n \in Nat : n \in T => n + 1 \in T
  PROVE  \A n \in Nat : n \in T
<1> SUFFICES ASSUME Nat \ T # {} PROVE FALSE
  OBVIOUS
<1>1. PICK m \in Nat \ T : \A n \in Nat \ T : m <= n
  BY Smallest
<1>2. m # 0 /\ m - 1 \in Nat
  BY <1>1
<1>3. m - 1 \in T
  BY <1>1, <1>2
<1> QED
  BY <1>1, <1>2, <1>3

\* Induction on a size: what follows from the smaller elements holds of all.
LEMMA SizeInduction ==
  ASSUME NEW S, NEW size \in [S -> Nat], NEW P,
         \A s \in S : (\A t \in S : size[t] < size[s] => t \in P) => s \in P
  PROVE  \A s \in S : s \in P
<1> DEFINE T == { n \in Nat : \A s \in S : size[s] < n => s \in P }
<1>1. 0 \in T
  OBVIOUS
<1>2. ASSUME NEW n \in Nat, n \in T PROVE n + 1 \in T
  <2>1. ASSUME NEW s \in S, size[s] < n + 1 PROVE s \in P
    <3>1. \A t \in S : size[t] < size[s] => t \in P
      <4>1. ASSUME NEW t \in S, size[t] < size[s] PROVE size[t] < n
        <5>1. size[t] \in Nat /\ size[s] \in Nat
          OBVIOUS
        <5> QED
          BY <5>1, <4>1, <2>1
      <4> QED
        BY <4>1, <1>2
    <3> QED
      BY <3>1
  <2> QED
    BY <2>1
<1>3. \A n \in Nat : n \in T
  <2> HIDE DEF T
  <2> QED
    BY <1>1, <1>2, SetInduction
<1>4. ASSUME NEW s \in S PROVE s \in P
  <2>1. size[s] + 1 \in T /\ size[s] < size[s] + 1
    <3>1. size[s] \in Nat
      OBVIOUS
    <3> HIDE DEF T
    <3> QED
      BY <3>1, <1>3
  <2> QED
    BY <2>1
<1> QED
  BY <1>4

\* The functions that solve a recursive definition: on R the value is computed
\* from that at pred, elsewhere it is base.
Solutions(S, V, R, pred, base, comb) ==
  { f \in [S -> V] : \A s \in S :
      f[s] = IF s \in R THEN comb[s][f[pred[s]]] ELSE base[s] }

\* The size falls from each element of R to its predecessor.
Falls(R, pred, size) == \A s \in R : size[pred[s]] < size[s]

\* A recursive definition that descends has a solution, so that the CHOOSE
\* behind f[x \in S] == ... picks one.
LEMMA Recursion ==
  ASSUME NEW S, NEW V, NEW R \in SUBSET S, NEW size \in [S -> Nat],
         NEW pred \in [S -> S], Falls(R, pred, size),
         NEW base \in [S -> V], NEW comb \in [S -> [V -> V]]
  PROVE  Solutions(S, V, R, pred, base, comb) # {}
<1>f. \A s \in R : size[pred[s]] < size[s]
  BY DEF Falls
<1> DEFINE Value(f, s) == IF s \in R THEN comb[s][f[pred[s]]] ELSE base[s]
           Good(n) == { f \in [S -> V] :
                         \A s \in S : size[s] < n => f[s] = Value(f, s) }
           Levels == { n \in Nat : Good(n) # {} }
           Agree(n) == \A a, b \in Nat : \A f \in Good(a), g \in Good(b) :
                           \A s \in S : size[s] < n /\ size[s] < a /\ size[s] < b
                                          => f[s] = g[s]
<1>v. \A f \in [S -> V], s \in S : Value(f, s) \in V
  OBVIOUS
<1>1. \A n \in Nat : n \in Levels
  <2>1. 0 \in Levels
    <3>1. base \in Good(0)
      OBVIOUS
    <3> QED
      BY <3>1
  <2>2. ASSUME NEW n \in Nat, n \in Levels PROVE n + 1 \in Levels
    <3>1. PICK f \in [S -> V] : f \in Good(n)
      BY <2>2
    <3> DEFINE g == [s \in S |-> Value(f, s)]
    <3>2. g \in [S -> V]
      BY <1>v
    <3>3. ASSUME NEW s \in S, size[s] < n + 1 PROVE g[s] = Value(g, s)
      <4>1. CASE s \notin R
        BY <4>1
      <4>2. CASE s \in R
        <5>1. pred[s] \in S /\ size[pred[s]] \in Nat /\ size[s] \in Nat
          OBVIOUS
        <5>2. size[pred[s]] < n
          BY <5>1, <4>2, <3>3, <1>f
        <5>3. f[pred[s]] = Value(f, pred[s])
          BY <3>1, <5>1, <5>2
        <5>4. g[pred[s]] = f[pred[s]]
          BY <5>1, <5>3
        <5> QED
          BY <5>4, <4>2
      <4> QED
        BY <4>1, <4>2
    <3>4. g \in Good(n + 1)
      <4> HIDE DEF g
      <4> QED
        BY <3>2, <3>3
    <3> HIDE DEF g, Good
    <3> QED
      BY <3>4
  <2> HIDE DEF Levels
  <2> QED
    BY <2>1, <2>2, SetInduction
<1>2. \A n \in Nat : Agree(n)
  <2> DEFINE Same == { n \in Nat : Agree(n) }
  <2>1. Agree(0)
    <3>1. \A s \in S : ~(size[s] < 0)
      OBVIOUS
    <3> HIDE DEF Good
    <3> QED
      BY <3>1
  <2>2. ASSUME NEW n \in Nat, Agree(n) PROVE Agree(n + 1)
    <3> SUFFICES ASSUME NEW a \in Nat, NEW b \in Nat,
                        NEW f \in Good(a), NEW g \in Good(b),
                        NEW s \in S, size[s] < n + 1, size[s] < a, size[s] < b
                 PROVE  f[s] = g[s]
      <4> HIDE DEF Good
      <4> QED
        OBVIOUS
    <3>1. f[s] = Value(f, s) /\ g[s] = Value(g, s)
      BY Zenon
    <3>2. CASE s \notin R
      BY <3>1, <3>2
    <3>3. CASE s \in R
      <4>1. pred[s] \in S /\ size[pred[s]] \in Nat /\ size[s] \in Nat
        OBVIOUS
      <4>2. size[pred[s]] < n /\ size[pred[s]] < a /\ size[pred[s]] < b
        BY <4>1, <3>3, <1>f
      <4>3. f[pred[s]] = g[pred[s]]
        <5> HIDE DEF Good
        <5> QED
          BY <2>2, <4>1, <4>2
      <4> QED
        BY <4>3, <3>1, <3>3
    <3> QED
      BY <3>2, <3>3
  <2> HIDE DEF Agree
  <2>3. 0 \in Same
    BY <2>1
  <2>4. \A n \in Nat : n \in Same => n + 1 \in Same
    BY <2>2
  <2>5. \A n \in Nat : n \in Same
    <3> HIDE DEF Same
    <3> QED
      BY <2>3, <2>4, SetInduction
  <2> QED
    BY <2>5
<1> DEFINE part == [n \in Nat |-> CHOOSE f \in Good(n) : TRUE]
           fun == [s \in S |-> part[size[s] + 1][s]]
<1>3. \A n \in Nat : part[n] \in Good(n)
  <2> SUFFICES ASSUME NEW n \in Nat PROVE part[n] \in Good(n)
    OBVIOUS
  <2>1. Good(n) # {}
    BY <1>1
  <2> HIDE DEF Good
  <2> QED
    BY <2>1
<1> HIDE DEF part
<1>4. fun \in [S -> V]
  <2> SUFFICES ASSUME NEW s \in S PROVE part[size[s] + 1][s] \in V
    OBVIOUS
  <2>1. part[size[s] + 1] \in [S -> V]
    BY <1>3
  <2> QED
    BY <2>1
<1>5. ASSUME NEW s \in S PROVE fun[s] = Value(fun, s)
  <2>1. size[s] \in Nat /\ size[s] + 1 \in Nat /\ size[s] < size[s] + 1
    OBVIOUS
  <2>2. part[size[s] + 1] \in [S -> V] /\ part[size[s] + 1] \in Good(size[s] + 1)
    BY <1>3, <2>1
  <2>3. part[size[s] + 1][s] = Value(part[size[s] + 1], s)
    BY <2>1, <2>2
  <2>4. fun[s] = Value(part[size[s] + 1], s)
    BY <2>3
  <2>5. CASE s \notin R
    BY <2>4, <2>5
  <2>6. CASE s \in R
    <3>1. pred[s] \in S /\ size[pred[s]] \in Nat /\ size[pred[s]] + 1 \in Nat
      OBVIOUS
    <3>2. size[pred[s]] < size[s] + 1 /\ size[pred[s]] < size[pred[s]] + 1
      BY <2>1, <3>1, <2>6, <1>f
    <3>3. part[size[pred[s]] + 1] \in [S -> V]
          /\ part[size[pred[s]] + 1] \in Good(size[pred[s]] + 1)
      BY <1>3, <3>1
    <3>4. Agree(size[pred[s]] + 1)
      BY <1>2, <3>1
    <3>5. part[size[pred[s]] + 1][pred[s]] = part[size[s] + 1][pred[s]]
      <4> DEFINE k == size[pred[s]] + 1
                 l == size[s] + 1
                 F == part[k]
                 G == part[l]
      <4>1. F \in [S -> V] /\ G \in [S -> V] /\ F \in Good(k) /\ G \in Good(l)
            /\ k \in Nat /\ l \in Nat /\ size[pred[s]] < k /\ size[pred[s]] < l
        BY <3>3, <2>2, <3>2, <3>1, <2>1
      <4> HIDE DEF F, G, l, Good
      <4>2. F[pred[s]] = G[pred[s]]
        BY <4>1, <3>4, <3>1, Zenon
      <4> QED
        BY <4>2 DEF F, G, l
    <3>6. fun[pred[s]] = part[size[s] + 1][pred[s]]
      BY <3>5, <3>1
    <3> QED
      BY <3>6, <2>4, <2>6
  <2> QED
    BY <2>5, <2>6
<1> HIDE DEF fun
<1> QED
  BY <1>4, <1>5 DEF Solutions

-----------------------------------------------------------------------------
(* The exclusive or                                                        *)

\* Xor is the function its definition asks for.
LEMMA XorDef ==
  /\ Xor \in [Nat \X Nat -> Nat]
  /\ \A a, b \in Nat :
       Xor[<<a, b>>] = IF a + b = 0 THEN 0
                       ELSE 2 * Xor[<<a \div 2, b \div 2>>] + ((a + b) % 2)
<1> DEFINE S == Nat \X Nat
           R == { p \in S : p[1] + p[2] # 0 }
           size == [p \in S |-> p[1] + p[2]]
           pred == [p \in S |-> <<p[1] \div 2, p[2] \div 2>>]
           base == [p \in S |-> 0]
           comb == [p \in S |-> [x \in Nat |-> 2 * x + ((p[1] + p[2]) % 2)]]
           Eq(f) == f = [p \in S |-> IF p[1] + p[2] = 0 THEN 0
                           ELSE 2 * f[<<p[1] \div 2, p[2] \div 2>>]
                                  + ((p[1] + p[2]) % 2)]
<1>1. ASSUME NEW p \in S
      PROVE  /\ p[1] \in Nat /\ p[2] \in Nat
             /\ p[1] \div 2 \in Nat /\ p[2] \div 2 \in Nat
             /\ p[1] + p[2] # 0 => (p[1] \div 2) + (p[2] \div 2) < p[1] + p[2]
             /\ (p[1] + p[2]) % 2 \in Nat
  OBVIOUS
<1>2. R \in SUBSET S /\ size \in [S -> Nat] /\ pred \in [S -> S]
      /\ base \in [S -> Nat] /\ comb \in [S -> [Nat -> Nat]]
  BY <1>1
<1>3. Falls(R, pred, size)
  BY <1>1 DEF Falls
<1>4. Solutions(S, Nat, R, pred, base, comb) # {}
  <2> HIDE DEF S, R, size, pred, base, comb
  <2> QED
    BY <1>2, <1>3, Recursion
<1>5. PICK f \in [S -> Nat] : Eq(f)
  <2>1. PICK f \in [S -> Nat] : \A p \in S :
        f[p] = IF p \in R THEN comb[p][f[pred[p]]] ELSE base[p]
    BY <1>4 DEF Solutions
  <2>2. ASSUME NEW p \in S
        PROVE  f[p] = IF p[1] + p[2] = 0 THEN 0
                           ELSE 2 * f[<<p[1] \div 2, p[2] \div 2>>]
                                  + ((p[1] + p[2]) % 2)
    BY <1>1, <2>1
  <2> QED
    BY <2>2
<1>6. Xor = CHOOSE g : Eq(g)
  BY DEF Xor
<1>7. Eq(Xor)
  <2> HIDE DEF Eq
  <2> QED
    BY <1>5, <1>6
<1> DEFINE P == { p \in S : Xor[p] \in Nat }
<1>8. \A p \in S : p \in P
  <2>1. ASSUME NEW p \in S,
               \A q \in S : size[q] < size[p] => q \in P
        PROVE  p \in P
    <3>1. CASE p[1] + p[2] = 0
      BY <1>7, <3>1
    <3>2. CASE p[1] + p[2] # 0
      <4>1. pred[p] \in S /\ size[pred[p]] < size[p]
        BY <1>1, <3>2
      <4>2. Xor[pred[p]] \in Nat
        BY <4>1, <2>1
      <4> QED
        BY <4>2, <1>7, <3>2, <1>1
    <3> QED
      BY <3>1, <3>2
  <2> HIDE DEF S, size, P
  <2> QED
    BY <2>1, <1>2, SizeInduction
<1> QED
  BY <1>7, <1>8

\* The exclusive or of naturals is a natural.
LEMMA XorTyped == \A a, b \in Nat : Xor[<<a, b>>] \in Nat
<1> SUFFICES ASSUME NEW a \in Nat, NEW b \in Nat PROVE Xor[<<a, b>>] \in Nat
  OBVIOUS
<1>1. <<a, b>> \in Nat \X Nat
  OBVIOUS
<1> QED
  BY <1>1, XorDef, Zenon

-----------------------------------------------------------------------------
(* Parts of sequences                                                      *)

\* What SubSeq returns: type, length and elements.
LEMMA Part ==
  ASSUME NEW A, NEW s \in Seq(A), NEW m \in 1..(Len(s) + 1), NEW n \in (m - 1)..Len(s)
  PROVE  /\ SubSeq(s, m, n) \in Seq(A)
         /\ Len(SubSeq(s, m, n)) = n - m + 1
         /\ \A i \in 1..(n - m + 1) : SubSeq(s, m, n)[i] = s[m + i - 1]
<1>1. Len(s) \in Nat /\ \A i \in 1..Len(s) : s[i] \in A
  BY LenProperties, ElementOfSeq
<1>2. m \in Int /\ n \in Int
  BY <1>1
<1>3. \A i \in m..n : s[i] \in A
  BY <1>1
<1>4. /\ SubSeq(s, m, n) \in Seq(A)
      /\ Len(SubSeq(s, m, n)) = IF m <= n THEN n - m + 1 ELSE 0
      /\ \A i \in 1..(n - m + 1) : SubSeq(s, m, n)[i] = s[m + i - 1]
  BY <1>2, <1>3, SubSeqProperties
<1>5. ~(m <= n) => n - m + 1 = 0
  BY <1>1, <1>2
<1> QED
  BY <1>4, <1>5

\* A sequence that is not empty is its first element and the rest, and its
\* front and the last element.
LEMMA Pieces ==
  ASSUME NEW A, NEW s \in Seq(A), s # <<>>
  PROVE  /\ Head(s) \in A /\ Tail(s) \in Seq(A) /\ Len(Tail(s)) = Len(s) - 1
         /\ Front(s) \in Seq(A) /\ Last(s) \in A /\ Len(Front(s)) = Len(s) - 1
         /\ Len(s) \in Nat \ {0}
         /\ s = <<Head(s)>> \o Tail(s) /\ s = Front(s) \o <<Last(s)>>
         /\ s = Append(Front(s), Last(s))
<1>1. Len(s) \in Nat \ {0} /\ \A i \in 1..Len(s) : s[i] \in A
  BY EmptySeq, ElementOfSeq
<1>2. Head(s) \in A /\ Tail(s) \in Seq(A) /\ Len(Tail(s)) = Len(s) - 1
      /\ \A i \in 1..Len(Tail(s)) : Tail(s)[i] = s[i + 1]
  BY HeadTailProperties
<1>3. Front(s) \in Seq(A) /\ Last(s) \in A /\ Len(Front(s)) = Len(s) - 1
      /\ \A i \in 1..(Len(s) - 1) : Front(s)[i] = s[i]
  <2>1. \A i \in 1..(Len(s) - 1) : s[i] \in A
    BY <1>1
  <2> QED
    <3>1. /\ SubSeq(s, 1, Len(s) - 1) \in Seq(A)
          /\ Len(SubSeq(s, 1, Len(s) - 1)) = Len(s) - 1
          /\ \A i \in 1..(Len(s) - 1) : SubSeq(s, 1, Len(s) - 1)[i] = s[i]
      <4> DEFINE n == Len(s) - 1
      <4>1. n \in Nat /\ n \in (1 - 1)..Len(s) /\ 1 \in 1..(Len(s) + 1)
        <5>1. Len(s) \in Nat /\ Len(s) # 0
          BY <1>1
        <5> QED
          BY <5>1
      <4> HIDE DEF n
      <4>2. SubSeq(s, 1, n) \in Seq(A) /\ Len(SubSeq(s, 1, n)) = n - 1 + 1
            /\ \A i \in 1..(n - 1 + 1) : SubSeq(s, 1, n)[i] = s[1 + i - 1]
        BY <4>1, Part
      <4>3. SubSeq(s, 1, n) \in Seq(A) /\ Len(SubSeq(s, 1, n)) = n
            /\ \A i \in 1..n : SubSeq(s, 1, n)[i] = s[i]
        BY <4>1, <4>2
      <4> QED
        BY <4>3 DEF n
    <3>2. s[Len(s)] \in A
      BY <1>1
    <3> QED
      BY <3>1, <3>2 DEF Front, Last
<1>h. Head(s) = s[1] /\ Last(s) = s[Len(s)]
  BY DEF Last
<1>4. s = <<Head(s)>> \o Tail(s)
  <2>1. <<Head(s)>> \in Seq(A) /\ Len(<<Head(s)>>) = 1 /\ <<Head(s)>>[1] = s[1]
    BY <1>2, <1>h
  <2>2. <<Head(s)>> \o Tail(s) \in Seq(A) /\ Len(<<Head(s)>> \o Tail(s)) = Len(s)
        /\ \A i \in 1..Len(s) : (<<Head(s)>> \o Tail(s))[i] =
              IF i <= 1 THEN <<Head(s)>>[i] ELSE Tail(s)[i - 1]
    BY <2>1, <1>1, <1>2, ConcatProperties
  <2>3. \A i \in 1..Len(s) : s[i] = (<<Head(s)>> \o Tail(s))[i]
    BY <2>1, <2>2, <1>2, <1>1
  <2> QED
    BY <2>2, <2>3, SeqEqual
<1>5. s = Front(s) \o <<Last(s)>>
  <2>1. <<Last(s)>> \in Seq(A) /\ Len(<<Last(s)>>) = 1 /\ <<Last(s)>>[1] = s[Len(s)]
    BY <1>3, <1>h
  <2>2. Front(s) \o <<Last(s)>> \in Seq(A) /\ Len(Front(s) \o <<Last(s)>>) = Len(s)
        /\ \A i \in 1..Len(s) : (Front(s) \o <<Last(s)>>)[i] =
              IF i <= Len(s) - 1 THEN Front(s)[i] ELSE <<Last(s)>>[i - (Len(s) - 1)]
    BY <2>1, <1>1, <1>3, ConcatProperties
  <2>3. \A i \in 1..Len(s) : s[i] = (Front(s) \o <<Last(s)>>)[i]
    BY <2>1, <2>2, <1>3, <1>1
  <2> QED
    BY <2>2, <2>3, SeqEqual
<1>6. s = Append(Front(s), Last(s))
  BY <1>3, <1>5, AppendIsConcat
<1> QED
  BY <1>1, <1>2, <1>3, <1>4, <1>5, <1>6

-----------------------------------------------------------------------------
(* The recursive functions of Receive are what their definitions say       *)

\* The code of a byte as Escapes writes it.
Code(b) == CASE b = Flag -> <<Esc, 2>>
             [] b = Esc -> <<Esc, 1>>
             [] OTHER -> <<b>>

\* TransMean and the standard escape a byte alike.
LEMMA EscapedTyped == \A b \in Byte : Escaped(b) \in Seq(Byte) /\ Escaped(b) = Code(b)
<1> SUFFICES ASSUME NEW b \in Byte PROVE Escaped(b) \in Seq(Byte) /\ Escaped(b) = Code(b)
  OBVIOUS
<1>0. 126 \in Byte /\ 125 \in Byte /\ 1 \in Byte /\ 2 \in Byte /\ 126 - 124 = 2 /\ 125 - 124 = 1
  BY DEF Byte
<1>3. \A x, y \in Byte : <<x, y>> \in Seq(Byte) /\ <<x>> \in Seq(Byte)
  OBVIOUS
<1>1. CASE b = 126
  <2>1. Escaped(b) = <<125, 2>> /\ Code(b) = <<125, 2>>
    BY <1>0, <1>1 DEF Escaped, Code, Flag, Esc
  <2> QED
    BY <2>1, <1>0, <1>3
<1>2. CASE b = 125
  <2>1. Escaped(b) = <<125, 1>> /\ Code(b) = <<125, 1>>
    BY <1>0, <1>2 DEF Escaped, Code, Flag, Esc
  <2> QED
    BY <2>1, <1>0, <1>3
<1>4. CASE b # 125 /\ b # 126
  <2>1. Escaped(b) = <<b>> /\ Code(b) = <<b>>
    BY <1>4 DEF Escaped, Code, Flag, Esc
  <2> QED
    BY <2>1, <1>3
<1> QED
  BY <1>1, <1>2, <1>4

\* The code of a byte is a sequence of bytes.
LEMMA CodeTyped == \A b \in Byte : Code(b) \in Seq(Byte)
  BY EscapedTyped

\* XorVerify is the function its definition asks for.
LEMMA XorVerifyDef ==
  /\ XorVerify \in [Seq(Byte) -> Nat]
  /\ \A s \in Seq(Byte) : XorVerify[s] = IF s = <<>> THEN 0 ELSE Xor[<<XorVerify[Front(s)], Last(s)>>]
<1> DEFINE S == Seq(Byte)
           V == Nat
           R == { s \in S : s # <<>> }
           size == [s \in S |-> Len(s)]
           pred == [s \in S |-> IF s # <<>> THEN Front(s) ELSE s]
           base == [s \in S |-> 0]
           comb == [s \in S |-> [x \in V |-> IF s # <<>> THEN Xor[<<x, Last(s)>>] ELSE x]]
           Eq(f) == f = [s \in S |-> IF s = <<>> THEN 0 ELSE Xor[<<f[Front(s)], Last(s)>>]]
           P == { s \in S : XorVerify[s] \in V }
<1>1. ASSUME NEW s \in S
      PROVE  /\ Len(s) \in Nat /\ 0 \in V
             /\ s # <<>> => /\ Front(s) \in S /\ Len(Front(s)) < Len(s)
                          /\ \A x \in V : Xor[<<x, Last(s)>>] \in V
  <2>1. Len(s) \in Nat
    OBVIOUS
  <2>2. CASE s # <<>>
    <3>1. Head(s) \in Byte /\ Last(s) \in Byte /\ Tail(s) \in Seq(Byte)
          /\ Front(s) \in Seq(Byte) /\ Len(Tail(s)) = Len(s) - 1
          /\ Len(Front(s)) = Len(s) - 1
      BY <2>2, Pieces
    <3>2. \A x \in Nat, b \in Byte : Xor[<<x, b>>] \in Nat /\ Xor[<<b, x>>] \in Nat
      <4>1. \A b \in Byte : b \in Nat
        BY DEF Byte
      <4> QED
        BY <4>1, XorTyped, Zenon
    <3>3. 0 \in Nat /\ Len(s) - 1 < Len(s)
      BY <2>1
    <3> QED
      BY <2>1, <2>2, <3>1, <3>2, <3>3, Zenon
  <2>3. 0 \in Nat
    OBVIOUS
  <2> QED
    BY <2>1, <2>2, <2>3, Zenon

<1>2. R \in SUBSET S /\ size \in [S -> Nat] /\ pred \in [S -> S]
      /\ base \in [S -> V] /\ comb \in [S -> [V -> V]]
  <2> HIDE DEF S, V
  <2> QED
    BY <1>1
<1>3. Falls(R, pred, size)
  <2> HIDE DEF S
  <2> QED
    BY <1>1 DEF Falls
<1>4. Solutions(S, V, R, pred, base, comb) # {}
  <2> HIDE DEF S, V, R, size, pred, base, comb
  <2> QED
    BY <1>2, <1>3, Recursion
<1>5. PICK f \in [S -> V] : Eq(f)
  <2>1. PICK f \in [S -> V] : \A s \in S :
        f[s] = IF s \in R THEN comb[s][f[pred[s]]] ELSE base[s]
    <3> HIDE DEF S, V, R, pred, base, comb
    <3> QED
      BY <1>4 DEF Solutions
  <2>2. ASSUME NEW s \in S PROVE f[s] = IF s = <<>> THEN 0 ELSE Xor[<<f[Front(s)], Last(s)>>]
    <3>1. CASE ~(s # <<>>)
      <4> HIDE DEF S, V
      <4> QED
        BY <1>1, <2>1, <3>1
    <3>2. CASE s # <<>>
      <4> HIDE DEF S, V
      <4>1. pred[s] = Front(s) /\ Front(s) \in S
        BY <3>2, <1>1
      <4>2. f[Front(s)] \in V
        BY <4>1
      <4>3. f[s] = comb[s][f[Front(s)]]
        BY <4>1, <3>2, <2>1
      <4>4. f[s] = Xor[<<f[Front(s)], Last(s)>>]
        BY <4>2, <4>3, <3>2
      <4> QED
        BY <4>4, <3>2
    <3> QED
      BY <3>1, <3>2
  <2> HIDE DEF S, V
  <2> QED
    BY <2>2
<1>6. XorVerify = CHOOSE g : Eq(g)
  BY DEF XorVerify
<1>7. Eq(XorVerify)
  <2> HIDE DEF Eq
  <2> QED
    BY <1>5, <1>6
<1>8. ASSUME NEW s \in S PROVE XorVerify[s] = IF s = <<>> THEN 0 ELSE Xor[<<XorVerify[Front(s)], Last(s)>>]
  <2> HIDE DEF S
  <2> QED
    BY <1>7
<1>9. \A s \in S : s \in P
  <2>1. ASSUME NEW s \in S, \A t \in S : size[t] < size[s] => t \in P
        PROVE  s \in P
    <3> HIDE DEF S, V
    <3>1. CASE ~(s # <<>>)
      BY <1>1, <1>8, <3>1
    <3>2. CASE s # <<>>
      <4>1. Front(s) \in S /\ Len(Front(s)) < Len(s)
        BY <1>1, <3>2
      <4>2. XorVerify[Front(s)] \in V
        BY <4>1, <2>1
      <4>3. Xor[<<XorVerify[Front(s)], Last(s)>>] \in V
        BY <4>2, <1>1, <3>2
      <4> QED
        BY <4>3, <1>8, <3>2
    <3> QED
      BY <3>1, <3>2
  <2> HIDE DEF S, size, P
  <2>s. size \in [S -> Nat]
    BY <1>2
  <2> QED
    BY <2>1, <2>s, SizeInduction, ZenonT(40)
<1>10. XorVerify \in [S -> V]
  <2> HIDE DEF S, V
  <2> QED
    BY <1>9, <1>7
<1> QED
  BY <1>8, <1>10

\* Checksum is the function its definition asks for.
LEMMA ChecksumDef ==
  /\ Checksum \in [Seq(Byte) -> Nat]
  /\ \A s \in Seq(Byte) : Checksum[s] = IF s = <<>> THEN 0 ELSE Xor[<<Head(s), Checksum[Tail(s)]>>]
<1> DEFINE S == Seq(Byte)
           V == Nat
           R == { s \in S : s # <<>> }
           size == [s \in S |-> Len(s)]
           pred == [s \in S |-> IF s # <<>> THEN Tail(s) ELSE s]
           base == [s \in S |-> 0]
           comb == [s \in S |-> [x \in V |-> IF s # <<>> THEN Xor[<<Head(s), x>>] ELSE x]]
           Eq(f) == f = [s \in S |-> IF s = <<>> THEN 0 ELSE Xor[<<Head(s), f[Tail(s)]>>]]
           P == { s \in S : Checksum[s] \in V }
<1>1. ASSUME NEW s \in S
      PROVE  /\ Len(s) \in Nat /\ 0 \in V
             /\ s # <<>> => /\ Tail(s) \in S /\ Len(Tail(s)) < Len(s)
                          /\ \A x \in V : Xor[<<Head(s), x>>] \in V
  <2>1. Len(s) \in Nat
    OBVIOUS
  <2>2. CASE s # <<>>
    <3>1. Head(s) \in Byte /\ Last(s) \in Byte /\ Tail(s) \in Seq(Byte)
          /\ Front(s) \in Seq(Byte) /\ Len(Tail(s)) = Len(s) - 1
          /\ Len(Front(s)) = Len(s) - 1
      BY <2>2, Pieces
    <3>2. \A x \in Nat, b \in Byte : Xor[<<x, b>>] \in Nat /\ Xor[<<b, x>>] \in Nat
      <4>1. \A b \in Byte : b \in Nat
        BY DEF Byte
      <4> QED
        BY <4>1, XorTyped, Zenon
    <3>3. 0 \in Nat /\ Len(s) - 1 < Len(s)
      BY <2>1
    <3> QED
      BY <2>1, <2>2, <3>1, <3>2, <3>3, Zenon
  <2>3. 0 \in Nat
    OBVIOUS
  <2> QED
    BY <2>1, <2>2, <2>3, Zenon

<1>2. R \in SUBSET S /\ size \in [S -> Nat] /\ pred \in [S -> S]
      /\ base \in [S -> V] /\ comb \in [S -> [V -> V]]
  <2> HIDE DEF S, V
  <2> QED
    BY <1>1
<1>3. Falls(R, pred, size)
  <2> HIDE DEF S
  <2> QED
    BY <1>1 DEF Falls
<1>4. Solutions(S, V, R, pred, base, comb) # {}
  <2> HIDE DEF S, V, R, size, pred, base, comb
  <2> QED
    BY <1>2, <1>3, Recursion
<1>5. PICK f \in [S -> V] : Eq(f)
  <2>1. PICK f \in [S -> V] : \A s \in S :
        f[s] = IF s \in R THEN comb[s][f[pred[s]]] ELSE base[s]
    <3> HIDE DEF S, V, R, pred, base, comb
    <3> QED
      BY <1>4 DEF Solutions
  <2>2. ASSUME NEW s \in S PROVE f[s] = IF s = <<>> THEN 0 ELSE Xor[<<Head(s), f[Tail(s)]>>]
    <3>1. CASE ~(s # <<>>)
      <4> HIDE DEF S, V
      <4> QED
        BY <1>1, <2>1, <3>1
    <3>2. CASE s # <<>>
      <4> HIDE DEF S, V
      <4>1. pred[s] = Tail(s) /\ Tail(s) \in S
        BY <3>2, <1>1
      <4>2. f[Tail(s)] \in V
        BY <4>1
      <4>3. f[s] = comb[s][f[Tail(s)]]
        BY <4>1, <3>2, <2>1
      <4>4. f[s] = Xor[<<Head(s), f[Tail(s)]>>]
        BY <4>2, <4>3, <3>2
      <4> QED
        BY <4>4, <3>2
    <3> QED
      BY <3>1, <3>2
  <2> HIDE DEF S, V
  <2> QED
    BY <2>2
<1>6. Checksum = CHOOSE g : Eq(g)
  BY DEF Checksum
<1>7. Eq(Checksum)
  <2> HIDE DEF Eq
  <2> QED
    BY <1>5, <1>6
<1>8. ASSUME NEW s \in S PROVE Checksum[s] = IF s = <<>> THEN 0 ELSE Xor[<<Head(s), Checksum[Tail(s)]>>]
  <2> HIDE DEF S
  <2> QED
    BY <1>7
<1>9. \A s \in S : s \in P
  <2>1. ASSUME NEW s \in S, \A t \in S : size[t] < size[s] => t \in P
        PROVE  s \in P
    <3> HIDE DEF S, V
    <3>1. CASE ~(s # <<>>)
      BY <1>1, <1>8, <3>1
    <3>2. CASE s # <<>>
      <4>1. Tail(s) \in S /\ Len(Tail(s)) < Len(s)
        BY <1>1, <3>2
      <4>2. Checksum[Tail(s)] \in V
        BY <4>1, <2>1
      <4>3. Xor[<<Head(s), Checksum[Tail(s)]>>] \in V
        BY <4>2, <1>1, <3>2
      <4> QED
        BY <4>3, <1>8, <3>2
    <3> QED
      BY <3>1, <3>2
  <2> HIDE DEF S, size, P
  <2>s. size \in [S -> Nat]
    BY <1>2
  <2> QED
    BY <2>1, <2>s, SizeInduction, ZenonT(40)
<1>10. Checksum \in [S -> V]
  <2> HIDE DEF S, V
  <2> QED
    BY <1>9, <1>7
<1> QED
  BY <1>8, <1>10

\* TransMean is the function its definition asks for.
LEMMA TransMeanDef ==
  /\ TransMean \in [Seq(Byte) -> Seq(Byte)]
  /\ \A s \in Seq(Byte) : TransMean[s] = IF s = <<>> THEN <<>> ELSE Escaped(Head(s)) \o TransMean[Tail(s)]
<1> DEFINE S == Seq(Byte)
           V == Seq(Byte)
           R == { s \in S : s # <<>> }
           size == [s \in S |-> Len(s)]
           pred == [s \in S |-> IF s # <<>> THEN Tail(s) ELSE s]
           base == [s \in S |-> <<>>]
           comb == [s \in S |-> [x \in V |-> IF s # <<>> THEN (Escaped(Head(s)) \o x) ELSE x]]
           Eq(f) == f = [s \in S |-> IF s = <<>> THEN <<>> ELSE Escaped(Head(s)) \o f[Tail(s)]]
           P == { s \in S : TransMean[s] \in V }
<1>1. ASSUME NEW s \in S
      PROVE  /\ Len(s) \in Nat /\ <<>> \in V
             /\ s # <<>> => /\ Tail(s) \in S /\ Len(Tail(s)) < Len(s)
                          /\ \A x \in V : (Escaped(Head(s)) \o x) \in V
  <2>1. Len(s) \in Nat /\ <<>> \in Seq(Byte)
    OBVIOUS
  <2>2. CASE s # <<>>
    <3>1. Head(s) \in Byte /\ Tail(s) \in Seq(Byte) /\ Len(Tail(s)) = Len(s) - 1
      BY <2>2, Pieces
    <3>2. Escaped(Head(s)) \in Seq(Byte)
      BY <3>1, EscapedTyped
    <3> HIDE DEF S, V
    <3>3. \A x \in Seq(Byte) : Escaped(Head(s)) \o x \in Seq(Byte)
      BY <3>2, ConcatProperties
    <3> QED
      BY <2>1, <3>1, <3>3 DEF S, V
  <2> QED
    BY <2>1, <2>2

<1>2. R \in SUBSET S /\ size \in [S -> Nat] /\ pred \in [S -> S]
      /\ base \in [S -> V] /\ comb \in [S -> [V -> V]]
  <2> HIDE DEF S, V
  <2> QED
    BY <1>1
<1>3. Falls(R, pred, size)
  <2> HIDE DEF S
  <2> QED
    BY <1>1 DEF Falls
<1>4. Solutions(S, V, R, pred, base, comb) # {}
  <2> HIDE DEF S, V, R, size, pred, base, comb
  <2> QED
    BY <1>2, <1>3, Recursion
<1>5. PICK f \in [S -> V] : Eq(f)
  <2>1. PICK f \in [S -> V] : \A s \in S :
        f[s] = IF s \in R THEN comb[s][f[pred[s]]] ELSE base[s]
    <3> HIDE DEF S, V, R, pred, base, comb
    <3> QED
      BY <1>4 DEF Solutions
  <2>2. ASSUME NEW s \in S PROVE f[s] = IF s = <<>> THEN <<>> ELSE Escaped(Head(s)) \o f[Tail(s)]
    <3>1. CASE ~(s # <<>>)
      <4> HIDE DEF S, V
      <4> QED
        BY <1>1, <2>1, <3>1
    <3>2. CASE s # <<>>
      <4> HIDE DEF S, V
      <4>1. pred[s] = Tail(s) /\ Tail(s) \in S
        BY <3>2, <1>1
      <4>2. f[Tail(s)] \in V
        BY <4>1
      <4>3. f[s] = comb[s][f[Tail(s)]]
        BY <4>1, <3>2, <2>1
      <4>4. f[s] = (Escaped(Head(s)) \o f[Tail(s)])
        BY <4>2, <4>3, <3>2
      <4> QED
        BY <4>4, <3>2
    <3> QED
      BY <3>1, <3>2
  <2> HIDE DEF S, V
  <2> QED
    BY <2>2
<1>6. TransMean = CHOOSE g : Eq(g)
  BY DEF TransMean
<1>7. Eq(TransMean)
  <2> HIDE DEF Eq
  <2> QED
    BY <1>5, <1>6
<1>8. ASSUME NEW s \in S PROVE TransMean[s] = IF s = <<>> THEN <<>> ELSE Escaped(Head(s)) \o TransMean[Tail(s)]
  <2> HIDE DEF S
  <2> QED
    BY <1>7
<1>9. \A s \in S : s \in P
  <2>1. ASSUME NEW s \in S, \A t \in S : size[t] < size[s] => t \in P
        PROVE  s \in P
    <3> HIDE DEF S, V
    <3>1. CASE ~(s # <<>>)
      BY <1>1, <1>8, <3>1
    <3>2. CASE s # <<>>
      <4>1. Tail(s) \in S /\ Len(Tail(s)) < Len(s)
        BY <1>1, <3>2
      <4>2. TransMean[Tail(s)] \in V
        BY <4>1, <2>1
      <4>3. (Escaped(Head(s)) \o TransMean[Tail(s)]) \in V
        BY <4>2, <1>1, <3>2
      <4> QED
        BY <4>3, <1>8, <3>2
    <3> QED
      BY <3>1, <3>2
  <2> HIDE DEF S, size, P
  <2>s. size \in [S -> Nat]
    BY <1>2
  <2> QED
    BY <2>1, <2>s, SizeInduction, ZenonT(40)
<1>10. TransMean \in [S -> V]
  <2> HIDE DEF S, V
  <2> QED
    BY <1>9, <1>7
<1> QED
  BY <1>8, <1>10

\* Escapes is the function its definition asks for.
LEMMA EscapesDef ==
  /\ Escapes \in [Seq(Byte) -> Seq(Byte)]
  /\ \A s \in Seq(Byte) : Escapes[s] = IF s = <<>> THEN <<>> ELSE Code(Head(s)) \o Escapes[Tail(s)]
<1> DEFINE S == Seq(Byte)
           V == Seq(Byte)
           R == { s \in S : s # <<>> }
           size == [s \in S |-> Len(s)]
           pred == [s \in S |-> IF s # <<>> THEN Tail(s) ELSE s]
           base == [s \in S |-> <<>>]
           comb == [s \in S |-> [x \in V |-> IF s # <<>> THEN (Code(Head(s)) \o x) ELSE x]]
           Eq(f) == f = [s \in S |-> IF s = <<>> THEN <<>> ELSE Code(Head(s)) \o f[Tail(s)]]
           P == { s \in S : Escapes[s] \in V }
<1>1. ASSUME NEW s \in S
      PROVE  /\ Len(s) \in Nat /\ <<>> \in V
             /\ s # <<>> => /\ Tail(s) \in S /\ Len(Tail(s)) < Len(s)
                          /\ \A x \in V : (Code(Head(s)) \o x) \in V
  <2>1. Len(s) \in Nat /\ <<>> \in Seq(Byte)
    OBVIOUS
  <2>2. CASE s # <<>>
    <3>1. Head(s) \in Byte /\ Tail(s) \in Seq(Byte) /\ Len(Tail(s)) = Len(s) - 1
      BY <2>2, Pieces
    <3>2. Code(Head(s)) \in Seq(Byte)
      BY <3>1, CodeTyped
    <3> HIDE DEF S, V
    <3>3. \A x \in Seq(Byte) : Code(Head(s)) \o x \in Seq(Byte)
      BY <3>2, ConcatProperties
    <3> QED
      BY <2>1, <3>1, <3>3 DEF S, V
  <2> QED
    BY <2>1, <2>2

<1>2. R \in SUBSET S /\ size \in [S -> Nat] /\ pred \in [S -> S]
      /\ base \in [S -> V] /\ comb \in [S -> [V -> V]]
  <2> HIDE DEF S, V
  <2> QED
    BY <1>1
<1>3. Falls(R, pred, size)
  <2> HIDE DEF S
  <2> QED
    BY <1>1 DEF Falls
<1>4. Solutions(S, V, R, pred, base, comb) # {}
  <2> HIDE DEF S, V, R, size, pred, base, comb
  <2> QED
    BY <1>2, <1>3, Recursion
<1>5. PICK f \in [S -> V] : Eq(f)
  <2>1. PICK f \in [S -> V] : \A s \in S :
        f[s] = IF s \in R THEN comb[s][f[pred[s]]] ELSE base[s]
    <3> HIDE DEF S, V, R, pred, base, comb
    <3> QED
      BY <1>4 DEF Solutions
  <2>2. ASSUME NEW s \in S PROVE f[s] = IF s = <<>> THEN <<>> ELSE Code(Head(s)) \o f[Tail(s)]
    <3>1. CASE ~(s # <<>>)
      <4> HIDE DEF S, V
      <4> QED
        BY <1>1, <2>1, <3>1
    <3>2. CASE s # <<>>
      <4> HIDE DEF S, V
      <4>1. pred[s] = Tail(s) /\ Tail(s) \in S
        BY <3>2, <1>1
      <4>2. f[Tail(s)] \in V
        BY <4>1
      <4>3. f[s] = comb[s][f[Tail(s)]]
        BY <4>1, <3>2, <2>1
      <4>4. f[s] = (Code(Head(s)) \o f[Tail(s)])
        BY <4>2, <4>3, <3>2
      <4> QED
        BY <4>4, <3>2
    <3> QED
      BY <3>1, <3>2
  <2> HIDE DEF S, V
  <2> QED
    BY <2>2
<1>6. Escapes = CHOOSE g : Eq(g)
  BY Zenon DEF Escapes, Code
<1>7. Eq(Escapes)
  <2> HIDE DEF Eq
  <2> QED
    BY <1>5, <1>6
<1>8. ASSUME NEW s \in S PROVE Escapes[s] = IF s = <<>> THEN <<>> ELSE Code(Head(s)) \o Escapes[Tail(s)]
  <2> HIDE DEF S
  <2> QED
    BY <1>7
<1>9. \A s \in S : s \in P
  <2>1. ASSUME NEW s \in S, \A t \in S : size[t] < size[s] => t \in P
        PROVE  s \in P
    <3> HIDE DEF S, V
    <3>1. CASE ~(s # <<>>)
      BY <1>1, <1>8, <3>1
    <3>2. CASE s # <<>>
      <4>1. Tail(s) \in S /\ Len(Tail(s)) < Len(s)
        BY <1>1, <3>2
      <4>2. Escapes[Tail(s)] \in V
        BY <4>1, <2>1
      <4>3. (Code(Head(s)) \o Escapes[Tail(s)]) \in V
        BY <4>2, <1>1, <3>2
      <4> QED
        BY <4>3, <1>8, <3>2
    <3> QED
      BY <3>1, <3>2
  <2> HIDE DEF S, size, P
  <2>s. size \in [S -> Nat]
    BY <1>2
  <2> QED
    BY <2>1, <2>s, SizeInduction, ZenonT(40)
<1>10. Escapes \in [S -> V]
  <2> HIDE DEF S, V
  <2> QED
    BY <1>9, <1>7
<1> QED
  BY <1>8, <1>10

\* Joined is the function its definition asks for.
LEMMA JoinedDef ==
  /\ Joined \in [Seq(Seq(Byte)) -> Seq(Byte)]
  /\ \A s \in Seq(Seq(Byte)) : Joined[s] = IF s = <<>> THEN <<>> ELSE Joined[Front(s)] \o Last(s)
<1> DEFINE S == Seq(Seq(Byte))
           V == Seq(Byte)
           R == { s \in S : s # <<>> }
           size == [s \in S |-> Len(s)]
           pred == [s \in S |-> IF s # <<>> THEN Front(s) ELSE s]
           base == [s \in S |-> <<>>]
           comb == [s \in S |-> [x \in V |-> IF s # <<>> THEN (x \o Last(s)) ELSE x]]
           Eq(f) == f = [s \in S |-> IF s = <<>> THEN <<>> ELSE f[Front(s)] \o Last(s)]
           P == { s \in S : Joined[s] \in V }
<1>1. ASSUME NEW s \in S
      PROVE  /\ Len(s) \in Nat /\ <<>> \in V
             /\ s # <<>> => /\ Front(s) \in S /\ Len(Front(s)) < Len(s)
                          /\ \A x \in V : (x \o Last(s)) \in V
  <2>1. Len(s) \in Nat /\ <<>> \in Seq(Byte)
    OBVIOUS
  <2>2. CASE s # <<>>
    <3>1. Last(s) \in Seq(Byte) /\ Front(s) \in Seq(Seq(Byte)) /\ Len(Front(s)) = Len(s) - 1
      BY <2>2, Pieces
    <3>3. \A x \in Seq(Byte) : x \o Last(s) \in Seq(Byte)
      BY <3>1, ConcatProperties
    <3> QED
      BY <2>1, <3>1, <3>3
  <2> QED
    BY <2>1, <2>2

<1>2. R \in SUBSET S /\ size \in [S -> Nat] /\ pred \in [S -> S]
      /\ base \in [S -> V] /\ comb \in [S -> [V -> V]]
  <2> HIDE DEF S, V
  <2> QED
    BY <1>1
<1>3. Falls(R, pred, size)
  <2> HIDE DEF S
  <2> QED
    BY <1>1 DEF Falls
<1>4. Solutions(S, V, R, pred, base, comb) # {}
  <2> HIDE DEF S, V, R, size, pred, base, comb
  <2> QED
    BY <1>2, <1>3, Recursion
<1>5. PICK f \in [S -> V] : Eq(f)
  <2>1. PICK f \in [S -> V] : \A s \in S :
        f[s] = IF s \in R THEN comb[s][f[pred[s]]] ELSE base[s]
    <3> HIDE DEF S, V, R, pred, base, comb
    <3> QED
      BY <1>4 DEF Solutions
  <2>2. ASSUME NEW s \in S PROVE f[s] = IF s = <<>> THEN <<>> ELSE f[Front(s)] \o Last(s)
    <3>1. CASE ~(s # <<>>)
      <4> HIDE DEF S, V
      <4> QED
        BY <1>1, <2>1, <3>1
    <3>2. CASE s # <<>>
      <4> HIDE DEF S, V
      <4>1. pred[s] = Front(s) /\ Front(s) \in S
        BY <3>2, <1>1
      <4>2. f[Front(s)] \in V
        BY <4>1
      <4>3. f[s] = comb[s][f[Front(s)]]
        BY <4>1, <3>2, <2>1
      <4>4. f[s] = (f[Front(s)] \o Last(s))
        BY <4>2, <4>3, <3>2
      <4> QED
        BY <4>4, <3>2
    <3> QED
      BY <3>1, <3>2
  <2> HIDE DEF S, V
  <2> QED
    BY <2>2
<1>6. Joined = CHOOSE g : Eq(g)
  BY DEF Joined
<1>7. Eq(Joined)
  <2> HIDE DEF Eq
  <2> QED
    BY <1>5, <1>6
<1>8. ASSUME NEW s \in S PROVE Joined[s] = IF s = <<>> THEN <<>> ELSE Joined[Front(s)] \o Last(s)
  <2> HIDE DEF S
  <2> QED
    BY <1>7
<1>9. \A s \in S : s \in P
  <2>1. ASSUME NEW s \in S, \A t \in S : size[t] < size[s] => t \in P
        PROVE  s \in P
    <3> HIDE DEF S, V
    <3>1. CASE ~(s # <<>>)
      BY <1>1, <1>8, <3>1
    <3>2. CASE s # <<>>
      <4>1. Front(s) \in S /\ Len(Front(s)) < Len(s)
        BY <1>1, <3>2
      <4>2. Joined[Front(s)] \in V
        BY <4>1, <2>1
      <4>3. (Joined[Front(s)] \o Last(s)) \in V
        BY <4>2, <1>1, <3>2
      <4> QED
        BY <4>3, <1>8, <3>2
    <3> QED
      BY <3>1, <3>2
  <2> HIDE DEF S, size, P
  <2>s. size \in [S -> Nat]
    BY <1>2
  <2> QED
    BY <2>1, <2>s, SizeInduction, ZenonT(40)
<1>10. Joined \in [S -> V]
  <2> HIDE DEF S, V
  <2> QED
    BY <1>9, <1>7
<1> QED
  BY <1>8, <1>10

\* What unTransMean still has to look at after its next step.
Rest(s) == IF s[1] = Esc /\ s[2] \in {1, 2} THEN SubSeq(s, 3, Len(s)) ELSE Tail(s)

\* What unTransMean puts out in its next step.
First(s) == IF s[1] = Esc /\ s[2] \in {1, 2} THEN <<Unescaped(s[2])>> ELSE <<s[1]>>

\* One step of unTransMean takes one or two bytes and gives one.
LEMMA RestTyped ==
  ASSUME NEW s \in Seq(Byte), ~(Len(s) < 2)
  PROVE  /\ Rest(s) \in Seq(Byte) /\ Len(Rest(s)) < Len(s)
         /\ First(s) \in Seq(Byte)
<1>1. Len(s) \in Nat /\ s[1] \in Byte /\ s[2] \in Byte /\ s # <<>>
  <2>1. Len(s) \in Nat /\ 1 \in 1..Len(s) /\ 2 \in 1..Len(s)
    BY LenProperties
  <2> QED
    BY <2>1, ElementOfSeq, EmptySeq
<1>2. Tail(s) \in Seq(Byte) /\ Len(Tail(s)) < Len(s)
  BY <1>1, Pieces
<1>3. SubSeq(s, 3, Len(s)) \in Seq(Byte) /\ Len(SubSeq(s, 3, Len(s))) = Len(s) - 3 + 1
  <2>1. 3 \in 1..(Len(s) + 1) /\ Len(s) \in (3 - 1)..Len(s)
    BY <1>1
  <2> QED
    BY <2>1, Part
<1>4. Rest(s) \in Seq(Byte) /\ Len(Rest(s)) < Len(s)
  BY <1>1, <1>2, <1>3 DEF Rest
<1>5. s[2] \in {1, 2} => Unescaped(s[2]) \in Byte
  <2>1. 1 + 124 \in Byte /\ 2 + 124 \in Byte
    BY DEF Byte
  <2> QED
    BY <2>1 DEF Unescaped
<1> QED
  BY <1>1, <1>4, <1>5 DEF First

\* unTransMean is the function its definition asks for.
LEMMA unTransMeanDef ==
  /\ unTransMean \in [Seq(Byte) -> Seq(Byte)]
  /\ \A s \in Seq(Byte) : unTransMean[s] = IF Len(s) < 2 THEN s
       ELSE IF s[1] = Esc /\ s[2] \in {1, 2}
            THEN <<Unescaped(s[2])>> \o unTransMean[SubSeq(s, 3, Len(s))]
            ELSE <<s[1]>> \o unTransMean[Tail(s)]
<1> DEFINE S == Seq(Byte)
           V == Seq(Byte)
           R == { s \in S : ~(Len(s) < 2) }
           size == [s \in S |-> Len(s)]
           pred == [s \in S |-> IF ~(Len(s) < 2) THEN Rest(s) ELSE s]
           base == [s \in S |-> s]
           comb == [s \in S |-> [x \in V |-> IF ~(Len(s) < 2) THEN (First(s) \o x) ELSE x]]
           Eq(f) == f = [s \in S |-> IF Len(s) < 2 THEN s
       ELSE IF s[1] = Esc /\ s[2] \in {1, 2}
            THEN <<Unescaped(s[2])>> \o f[SubSeq(s, 3, Len(s))]
            ELSE <<s[1]>> \o f[Tail(s)]]
           P == { s \in S : unTransMean[s] \in V }
<1>1. ASSUME NEW s \in S
      PROVE  /\ Len(s) \in Nat /\ s \in V
             /\ ~(Len(s) < 2) => /\ Rest(s) \in S /\ Len(Rest(s)) < Len(s)
                          /\ \A x \in V : (First(s) \o x) \in V
  <2>1. CASE ~(Len(s) < 2)
    <3>1. Rest(s) \in S /\ Len(Rest(s)) < Len(s) /\ First(s) \in Seq(Byte)
      BY <2>1, RestTyped
    <3>2. \A x \in Seq(Byte) : First(s) \o x \in Seq(Byte)
      BY <3>1, ConcatProperties
    <3> QED
      BY <3>1, <3>2
  <2> QED
    BY <2>1
<1>2. R \in SUBSET S /\ size \in [S -> Nat] /\ pred \in [S -> S]
      /\ base \in [S -> V] /\ comb \in [S -> [V -> V]]
  <2> HIDE DEF S, V
  <2> QED
    BY <1>1
<1>3. Falls(R, pred, size)
  <2> HIDE DEF S
  <2> QED
    BY <1>1 DEF Falls
<1>4. Solutions(S, V, R, pred, base, comb) # {}
  <2> HIDE DEF S, V, R, size, pred, base, comb
  <2> QED
    BY <1>2, <1>3, Recursion
<1>5. PICK f \in [S -> V] : Eq(f)
  <2>1. PICK f \in [S -> V] : \A s \in S :
        f[s] = IF s \in R THEN comb[s][f[pred[s]]] ELSE base[s]
    <3> HIDE DEF S, V, R, pred, base, comb
    <3> QED
      BY <1>4 DEF Solutions
  <2>2. ASSUME NEW s \in S PROVE f[s] = IF Len(s) < 2 THEN s
       ELSE IF s[1] = Esc /\ s[2] \in {1, 2}
            THEN <<Unescaped(s[2])>> \o f[SubSeq(s, 3, Len(s))]
            ELSE <<s[1]>> \o f[Tail(s)]
    <3>1. CASE Len(s) < 2
      <4> HIDE DEF S, V
      <4> QED
        BY <1>1, <2>1, <3>1
    <3>2. CASE ~(Len(s) < 2)
      <4> HIDE DEF S, V
      <4>1. pred[s] = Rest(s) /\ Rest(s) \in S
        BY <3>2, <1>1
      <4>2. f[Rest(s)] \in V
        BY <4>1
      <4>3. f[s] = comb[s][f[Rest(s)]]
        BY <4>1, <3>2, <2>1
      <4>4. f[s] = (First(s) \o f[Rest(s)])
        BY <4>2, <4>3, <3>2
      <4> QED
        BY <4>4, <3>2 DEF First, Rest
    <3> QED
      BY <3>1, <3>2
  <2> HIDE DEF S, V
  <2> QED
    BY <2>2
<1>6. unTransMean = CHOOSE g : Eq(g)
  BY DEF unTransMean
<1>7. Eq(unTransMean)
  <2> HIDE DEF Eq
  <2> QED
    BY <1>5, <1>6
<1>8. ASSUME NEW s \in S PROVE unTransMean[s] = IF Len(s) < 2 THEN s
       ELSE IF s[1] = Esc /\ s[2] \in {1, 2}
            THEN <<Unescaped(s[2])>> \o unTransMean[SubSeq(s, 3, Len(s))]
            ELSE <<s[1]>> \o unTransMean[Tail(s)]
  <2> HIDE DEF S
  <2> QED
    BY <1>7
<1>9. \A s \in S : s \in P
  <2>1. ASSUME NEW s \in S, \A t \in S : size[t] < size[s] => t \in P
        PROVE  s \in P
    <3> HIDE DEF S, V
    <3>1. CASE Len(s) < 2
      BY <1>1, <1>8, <3>1
    <3>2. CASE ~(Len(s) < 2)
      <4>1. Rest(s) \in S /\ Len(Rest(s)) < Len(s)
        BY <1>1, <3>2
      <4>2. unTransMean[Rest(s)] \in V
        BY <4>1, <2>1
      <4>3. (First(s) \o unTransMean[Rest(s)]) \in V
        BY <4>2, <1>1, <3>2
      <4> QED
        BY <4>3, <1>8, <3>2 DEF First, Rest
    <3> QED
      BY <3>1, <3>2
  <2> HIDE DEF S, size, P
  <2> QED
    BY <2>1, <1>2, SizeInduction
<1>10. unTransMean \in [S -> V]
  <2> HIDE DEF S, V
  <2> QED
    BY <1>9, <1>7
<1> QED
  BY <1>8, <1>10

\* unTransMean, in terms of First and Rest.
LEMMA UnescapeStep ==
  ASSUME NEW s \in Seq(Byte)
  PROVE  /\ Len(s) < 2 => unTransMean[s] = s
         /\ ~(Len(s) < 2) => unTransMean[s] = First(s) \o unTransMean[Rest(s)]
BY unTransMeanDef DEF First, Rest

-----------------------------------------------------------------------------
(* Escapes and checksum, of the device and of the standard                 *)

\* The length of a sequence is a natural.
LEMMA LenIsNat == ASSUME NEW A, NEW s \in Seq(A) PROVE Len(s) \in Nat
BY LenProperties

\* The escapes of the device are those of the standard.
LEMMA TransMeanEscapes == \A s \in Seq(Byte) : TransMean[s] = Escapes[s]
<1> DEFINE S == Seq(Byte)
           size == [s \in S |-> Len(s)]
           P == { s \in S : TransMean[s] = Escapes[s] }
<1>1. size \in [S -> Nat]
  BY LenIsNat
<1>2. ASSUME NEW s \in S, \A t \in S : size[t] < size[s] => t \in P
      PROVE  s \in P
  <2>1. CASE s = <<>>
    BY <2>1, TransMeanDef, EscapesDef
  <2>2. CASE s # <<>>
    <3>1. Head(s) \in Byte /\ Tail(s) \in S /\ Len(Tail(s)) < Len(s)
      <4>1. Head(s) \in Byte /\ Tail(s) \in S /\ Len(Tail(s)) = Len(s) - 1
        BY <2>2, Pieces
      <4> QED
        BY <4>1, LenIsNat
    <3>2. TransMean[Tail(s)] = Escapes[Tail(s)]
      BY <1>2, <3>1
    <3>3. Escaped(Head(s)) = Code(Head(s))
      BY <3>1, EscapedTyped
    <3> QED
      BY <2>2, <3>2, <3>3, TransMeanDef, EscapesDef
  <2> QED
    BY <2>1, <2>2
<1>3. \A s \in S : s \in P
  <2> HIDE DEF S, size, P
  <2> QED
    BY <1>1, <1>2, SizeInduction
<1> QED
  BY <1>3

\* What \o returns: type, length and elements.
LEMMA Joint ==
  ASSUME NEW A, NEW s \in Seq(A), NEW t \in Seq(A)
  PROVE  /\ s \o t \in Seq(A) /\ Len(s \o t) = Len(s) + Len(t)
         /\ Len(s) \in Nat /\ Len(t) \in Nat
         /\ \A i \in 1..Len(s) : (s \o t)[i] = s[i]
         /\ \A i \in 1..Len(t) : (s \o t)[Len(s) + i] = t[i]
         /\ SubSeq(s \o t, Len(s) + 1, Len(s) + Len(t)) = t
<1>1. Len(s) \in Nat /\ Len(t) \in Nat
  BY LenIsNat
<1>2. s \o t \in Seq(A) /\ Len(s \o t) = Len(s) + Len(t)
      /\ \A i \in 1..(Len(s) + Len(t)) : (s \o t)[i] =
            IF i <= Len(s) THEN s[i] ELSE t[i - Len(s)]
  BY ConcatProperties
<1>3. \A i \in 1..Len(s) : (s \o t)[i] = s[i]
  BY <1>1, <1>2
<1>4. ASSUME NEW i \in 1..Len(t) PROVE (s \o t)[Len(s) + i] = t[i]
  <2>1. PICK j \in Nat : j = Len(s) + i
    BY <1>1
  <2>2. j \in 1..(Len(s) + Len(t)) /\ ~(j <= Len(s)) /\ j - Len(s) = i
    BY <1>1, <2>1
  <2> QED
    BY <1>2, <2>2, <2>1
<1>5. SubSeq(s \o t, Len(s) + 1, Len(s) + Len(t)) = t
  <2> DEFINE w == s \o t
             m == Len(s) + 1
             n == Len(s) + Len(t)
             u == SubSeq(w, m, n)
  <2>1. w \in Seq(A) /\ Len(w) = n /\ m \in 1..(Len(w) + 1) /\ n \in (m - 1)..Len(w)
    BY <1>1, <1>2
  <2>2. u \in Seq(A) /\ Len(u) = n - m + 1 /\ \A i \in 1..(n - m + 1) : u[i] = w[m + i - 1]
    <3> HIDE DEF w, m, n
    <3> QED
      BY <2>1, Part
  <2>3. n - m + 1 = Len(t)
    BY <1>1
  <2>4. ASSUME NEW i \in 1..Len(t) PROVE u[i] = t[i]
    <3>1. u[i] = w[m + i - 1]
      <4> HIDE DEF w, m, n, u
      <4> QED
        BY <2>2, <2>3
    <3>2. m + i - 1 = Len(s) + i
      BY <1>1
    <3> HIDE DEF m, u
    <3> QED
      BY <3>1, <3>2, <1>4
  <2> HIDE DEF u, m, n, w
  <2>5. u = t
    BY <2>2, <2>3, <2>4, SeqEqual
  <2> QED
    BY <2>5 DEF u, m, n, w
<1> QED
  BY <1>1, <1>2, <1>3, <1>4, <1>5

\* An element put in front of a sequence or behind it.
LEMMA FrontJoint ==
  ASSUME NEW A, NEW s \in Seq(A), NEW a \in A
  PROVE  /\ <<a>> \in Seq(A) /\ Len(<<a>>) = 1 /\ <<a>>[1] = a
         /\ Tail(<<a>> \o s) = s /\ Head(<<a>> \o s) = a /\ <<a>> \o s # <<>>
         /\ s \o <<a>> # <<>> /\ Front(s \o <<a>>) = s /\ Last(s \o <<a>>) = a
         /\ Append(s, a) = s \o <<a>>
<1>1. <<a>> \in Seq(A) /\ Len(<<a>>) = 1 /\ <<a>>[1] = a
  OBVIOUS
<1>2. <<a>> \o s \in Seq(A) /\ Len(<<a>> \o s) = 1 + Len(s) /\ Len(s) \in Nat
      /\ (<<a>> \o s)[1] = a /\ SubSeq(<<a>> \o s, 1 + 1, 1 + Len(s)) = s
  <2>1. 1 \in 1..Len(<<a>>)
    BY <1>1
  <2> QED
    BY <1>1, <2>1, Joint
<1>3. <<a>> \o s # <<>> /\ Head(<<a>> \o s) = a
  BY <1>2, EmptySeq
<1>4. Tail(<<a>> \o s) = s
  <2>1. Tail(<<a>> \o s) = SubSeq(<<a>> \o s, 2, Len(<<a>> \o s))
    BY <1>2, <1>3, TailIsSubSeq
  <2> QED
    BY <2>1, <1>2
<1>5. s \o <<a>> \in Seq(A) /\ Len(s \o <<a>>) = Len(s) + 1
      /\ (s \o <<a>>)[Len(s) + 1] = a /\ \A i \in 1..Len(s) : (s \o <<a>>)[i] = s[i]
  <2>1. 1 \in 1..Len(<<a>>)
    BY <1>1
  <2> QED
    BY <1>1, <2>1, Joint
<1>6. s \o <<a>> # <<>> /\ Last(s \o <<a>>) = a
  BY <1>2, <1>5, EmptySeq DEF Last
<1>7. Front(s \o <<a>>) = s
  <2>1. Front(s \o <<a>>) = SubSeq(s \o <<a>>, 1, Len(s))
    BY <1>2, <1>5 DEF Front
  <2>2. 1 \in 1..(Len(s \o <<a>>) + 1) /\ Len(s) \in (1 - 1)..Len(s \o <<a>>)
    BY <1>2, <1>5
  <2>3. PICK u : u = SubSeq(s \o <<a>>, 1, Len(s))
    OBVIOUS
  <2>4. u \in Seq(A) /\ Len(u) = Len(s) - 1 + 1
        /\ \A i \in 1..(Len(s) - 1 + 1) : u[i] = (s \o <<a>>)[1 + i - 1]
    BY <2>2, <2>3, <1>5, Part
  <2>5. Len(u) = Len(s) /\ \A i \in 1..Len(u) : u[i] = s[i]
    <3>1. Len(s) - 1 + 1 = Len(s)
      BY <1>2
    <3>2. \A i \in 1..Len(s) : 1 + i - 1 = i
      OBVIOUS
    <3> QED
      BY <2>4, <3>1, <3>2, <1>5
  <2>6. u = s
    BY <2>4, <2>5, SeqEqual
  <2> QED
    BY <2>6, <2>3, <2>1
<1>8. Append(s, a) = s \o <<a>>
  BY AppendIsConcat
<1> QED
  BY <1>1, <1>3, <1>4, <1>6, <1>7, <1>8

\* A natural is twice its half and its lowest bit.
LEMMA Halves ==
  ASSUME NEW a \in Nat
  PROVE  /\ a \div 2 \in Nat /\ a % 2 \in {0, 1} /\ a = 2 * (a \div 2) + (a % 2)
         /\ a # 0 => (a \div 2) < a
OBVIOUS

\* Xor bit by bit: the lowest bit and the rest.
LEMMA XorStep ==
  ASSUME NEW a \in Nat, NEW b \in Nat
  PROVE  /\ Xor[<<a, b>>] \in Nat
         /\ Xor[<<a, b>>] = 2 * Xor[<<a \div 2, b \div 2>>] + ((a + b) % 2)
         /\ Xor[<<a, b>>] \div 2 = Xor[<<a \div 2, b \div 2>>]
         /\ Xor[<<a, b>>] % 2 = (a + b) % 2
<1> DEFINE x == Xor[<<a, b>>]
           y == Xor[<<a \div 2, b \div 2>>]
           r == (a + b) % 2
<1>1. a \div 2 \in Nat /\ b \div 2 \in Nat /\ r \in {0, 1}
  OBVIOUS
<1>2. x \in Nat /\ y \in Nat
  BY <1>1, XorTyped
<1>3. x = 2 * y + r
  <2>1. CASE a + b = 0
    <3>1. a = 0 /\ b = 0 /\ 0 \div 2 = 0 /\ 0 % 2 = 0 /\ 0 + 0 = 0
      BY <2>1
    <3>2. Xor[<<0, 0>>] = 0
      BY <3>1, XorDef
    <3> QED
      BY <3>1, <3>2
  <2>2. CASE a + b # 0
    BY <2>2, XorDef
  <2> QED
    BY <2>1, <2>2
<1> HIDE DEF x, y, r
<1>4. x \div 2 = y /\ x % 2 = r
  BY <1>1, <1>2, <1>3
<1> QED
  BY <1>2, <1>3, <1>4 DEF x, y, r

\* Induction from all smaller naturals, for membership in a set.
LEMMA StrongInduction ==
  ASSUME NEW P, \A a \in Nat : (\A b \in Nat : b < a => b \in P) => a \in P
  PROVE  \A a \in Nat : a \in P
<1> DEFINE size == [a \in Nat |-> a]
<1>1. size \in [Nat -> Nat]
  OBVIOUS
<1>2. \A a \in Nat : (\A b \in Nat : size[b] < size[a] => b \in P) => a \in P
  OBVIOUS
<1> HIDE DEF size
<1> QED
  BY <1>1, <1>2, SizeInduction

\* Zero is neutral.
LEMMA XorZero == \A a \in Nat : Xor[<<0, a>>] = a /\ Xor[<<a, 0>>] = a
<1> DEFINE P == { a \in Nat : Xor[<<0, a>>] = a /\ Xor[<<a, 0>>] = a }
<1>1. ASSUME NEW a \in Nat, \A b \in Nat : b < a => b \in P PROVE a \in P
  <2>1. CASE a = 0
    <3>1. Xor[<<0, 0>>] = 0
      BY XorDef
    <3> QED
      BY <2>1, <3>1
  <2>2. CASE a # 0
    <3>1. a \div 2 \in Nat /\ a \div 2 < a /\ a = 2 * (a \div 2) + (a % 2) /\ 0 \div 2 = 0
          /\ 0 + a = a /\ a + 0 = a
      BY <2>2, Halves
    <3>2. Xor[<<0, a \div 2>>] = a \div 2 /\ Xor[<<a \div 2, 0>>] = a \div 2
      BY <3>1, <1>1
    <3>3. Xor[<<0, a>>] = 2 * Xor[<<0 \div 2, a \div 2>>] + ((0 + a) % 2)
      BY XorStep
    <3>4. Xor[<<a, 0>>] = 2 * Xor[<<a \div 2, 0 \div 2>>] + ((a + 0) % 2)
      BY XorStep
    <3> QED
      BY <3>1, <3>2, <3>3, <3>4
  <2> QED
    BY <2>1, <2>2
<1>2. \A a \in Nat : a \in P
  <2> HIDE DEF P
  <2> QED
    BY <1>1, StrongInduction
<1> QED
  BY <1>2

\* Xor is associative: the one property the checksum from the back and the
\* checksum from the front agree by.
LEMMA XorAssociative ==
  \A a, b, c \in Nat : Xor[<<Xor[<<a, b>>], c>>] = Xor[<<a, Xor[<<b, c>>]>>]
<1> DEFINE P == { n \in Nat : \A a, b, c \in Nat : a + b + c = n =>
                    Xor[<<Xor[<<a, b>>], c>>] = Xor[<<a, Xor[<<b, c>>]>>] }
<1>1. ASSUME NEW n \in Nat, \A m \in Nat : m < n => m \in P PROVE n \in P
  <2> SUFFICES ASSUME NEW a \in Nat, NEW b \in Nat, NEW c \in Nat, a + b + c = n
               PROVE  Xor[<<Xor[<<a, b>>], c>>] = Xor[<<a, Xor[<<b, c>>]>>]
    OBVIOUS
  <2>1. CASE n = 0
    <3>1. a = 0 /\ b = 0 /\ c = 0
      BY <2>1
    <3> QED
      BY <3>1, XorZero
  <2>2. CASE n # 0
    <3> DEFINE ah == a \div 2
               bh == b \div 2
               ch == c \div 2
    <3>1. ah \in Nat /\ bh \in Nat /\ ch \in Nat /\ ah + bh + ch \in Nat /\ ah + bh + ch < n
      BY <2>2
    <3> HIDE DEF ah, bh, ch
    <3>2. Xor[<<Xor[<<ah, bh>>], ch>>] = Xor[<<ah, Xor[<<bh, ch>>]>>]
      BY <3>1, <1>1, SMTT(40)
    <3>3. PICK x \in Nat : x = Xor[<<a, b>>]
      BY XorTyped
    <3>4. PICK y \in Nat : y = Xor[<<b, c>>]
      BY XorTyped
    <3>5. x \div 2 = Xor[<<ah, bh>>] /\ x % 2 = (a + b) % 2
      BY <3>3, XorStep DEF ah, bh
    <3>6. y \div 2 = Xor[<<bh, ch>>] /\ y % 2 = (b + c) % 2
      BY <3>4, XorStep DEF bh, ch
    <3>7. Xor[<<x, c>>] = 2 * Xor[<<Xor[<<ah, bh>>], ch>>] + ((x + c) % 2)
      <4>1. Xor[<<x, c>>] = 2 * Xor[<<x \div 2, ch>>] + ((x + c) % 2)
        BY <3>3, XorStep DEF ch
      <4> QED
        BY <4>1, <3>5
    <3>8. Xor[<<a, y>>] = 2 * Xor[<<ah, Xor[<<bh, ch>>]>>] + ((a + y) % 2)
      <4>1. Xor[<<a, y>>] = 2 * Xor[<<ah, y \div 2>>] + ((a + y) % 2)
        BY <3>4, XorStep DEF ah
      <4> QED
        BY <4>1, <3>6
    <3>9. (x + c) % 2 = (a + y) % 2
      BY <3>5, <3>6
    <3> QED
      BY <3>2, <3>3, <3>4, <3>7, <3>8, <3>9
  <2> QED
    BY <2>1, <2>2
<1>2. \A n \in Nat : n \in P
  <2> HIDE DEF P
  <2> QED
    BY <1>1, StrongInduction
<1> QED
  <2> SUFFICES ASSUME NEW a \in Nat, NEW b \in Nat, NEW c \in Nat
               PROVE  Xor[<<Xor[<<a, b>>], c>>] = Xor[<<a, Xor[<<b, c>>]>>]
    OBVIOUS
  <2>1. a + b + c \in Nat
    OBVIOUS
  <2> QED
    BY <2>1, <1>2

\* If Xor stays below m it stays below 2 * m, on numbers below.
LEMMA XorDoubles ==
  ASSUME NEW m \in Nat, \A a, b \in 0..(m - 1) : Xor[<<a, b>>] < m
  PROVE  \A a, b \in 0..(2 * m - 1) : Xor[<<a, b>>] < 2 * m
<1> SUFFICES ASSUME NEW a \in 0..(2 * m - 1), NEW b \in 0..(2 * m - 1)
             PROVE  Xor[<<a, b>>] < 2 * m
  OBVIOUS
<1>1. a \div 2 \in 0..(m - 1) /\ b \div 2 \in 0..(m - 1) /\ (a + b) % 2 \in {0, 1}
      /\ a \in Nat /\ b \in Nat /\ a \div 2 \in Nat /\ b \div 2 \in Nat
  OBVIOUS
<1>2. PICK y \in Nat : y = Xor[<<a \div 2, b \div 2>>]
  BY <1>1, XorTyped
<1>3. y < m
  BY <1>1, <1>2
<1>4. Xor[<<a, b>>] = 2 * y + ((a + b) % 2)
  BY <1>1, <1>2, XorStep
<1> QED
  BY <1>1, <1>3, <1>4

\* The exclusive or of bytes is a byte.
LEMMA XorOfBytes == \A a, b \in Byte : Xor[<<a, b>>] \in Byte
<1> DEFINE Below(m) == \A a, b \in 0..(m - 1) : Xor[<<a, b>>] < m
<1>1. Below(1)
  <2>1. \A a \in 0..(1 - 1) : a = 0
    OBVIOUS
  <2>2. Xor[<<0, 0>>] = 0
    BY XorDef
  <2> QED
    BY <2>1, <2>2
<1>2. \A m \in Nat : Below(m) => Below(2 * m)
  <2> SUFFICES ASSUME NEW m \in Nat, Below(m) PROVE Below(2 * m)
    OBVIOUS
  <2> QED
    BY XorDoubles
<1> HIDE DEF Below
<1>3. Below(2)
  BY <1>1, <1>2
<1>4. Below(4)
  BY <1>3, <1>2
<1>5. Below(8)
  BY <1>4, <1>2
<1>6. Below(16)
  BY <1>5, <1>2
<1>7. Below(32)
  BY <1>6, <1>2
<1>8. Below(64)
  BY <1>7, <1>2
<1>9. Below(128)
  BY <1>8, <1>2
<1>10. Below(256)
  BY <1>9, <1>2
<1>11. \A a \in Byte : a \in 0..(256 - 1)
  BY DEF Byte
<1>12. \A a, b \in Byte : Xor[<<a, b>>] < 256
  <2>1. \A a, b \in 0..(256 - 1) : Xor[<<a, b>>] < 256
    BY <1>10, Zenon DEF Below
  <2> QED
    BY <2>1, <1>11, Zenon
<1> SUFFICES ASSUME NEW a \in Byte, NEW b \in Byte PROVE Xor[<<a, b>>] \in Byte
  OBVIOUS
<1>13. PICK x \in Nat : x = Xor[<<a, b>>]
  BY XorTyped DEF Byte
<1>14. x < 256
  BY <1>12, <1>13, Zenon
<1> QED
  BY <1>14, <1>13 DEF Byte

\* A checksum is a byte.
LEMMA XorOfSeq ==
  \A s \in Seq(Byte) : Checksum[s] \in Byte
<1> DEFINE S == Seq(Byte)
           size == [s \in S |-> Len(s)]
           P == { s \in S : Checksum[s] \in Byte }
<1>1. size \in [S -> Nat]
  BY LenIsNat
<1>2. ASSUME NEW s \in S, \A t \in S : size[t] < size[s] => t \in P
      PROVE  s \in P
  <2>1. CASE s = <<>>
    <3>1. Checksum[s] = 0
      BY <2>1, ChecksumDef
    <3> QED
      BY <3>1 DEF Byte
  <2>2. CASE s # <<>>
    <3>1. Head(s) \in Byte /\ Tail(s) \in S /\ Len(Tail(s)) < Len(s)
      <4>1. Head(s) \in Byte /\ Tail(s) \in S /\ Len(Tail(s)) = Len(s) - 1
        BY <2>2, Pieces
      <4> QED
        BY <4>1, LenIsNat
    <3>2. Checksum[Tail(s)] \in Byte
      BY <1>2, <3>1
    <3>3. Xor[<<Head(s), Checksum[Tail(s)]>>] \in Byte
      BY <3>1, <3>2, XorOfBytes
    <3> QED
      BY <2>2, <3>3, ChecksumDef
  <2> QED
    BY <2>1, <2>2
<1>3. \A s \in S : s \in P
  <2> HIDE DEF S, size, P
  <2> QED
    BY <1>1, <1>2, SizeInduction
<1> QED
  BY <1>3

\* Public_GetXorVerify, which adds at the back, can as well add at the front.
LEMMA XorVerifyFromFront ==
  \A t \in Seq(Byte), b \in Byte :
    XorVerify[<<b>> \o t] = Xor[<<b, XorVerify[t]>>]
<1> DEFINE S == Seq(Byte)
           size == [s \in S |-> Len(s)]
           P == { s \in S : \A b \in Byte :
                    XorVerify[<<b>> \o s] = Xor[<<b, XorVerify[s]>>] }
<1>1. size \in [S -> Nat]
  BY LenIsNat
<1>0. \A b \in Byte : b \in Nat
  BY DEF Byte
<1>2. ASSUME NEW s \in S, \A t \in S : size[t] < size[s] => t \in P
      PROVE  s \in P
  <2> SUFFICES ASSUME NEW b \in Byte
               PROVE  XorVerify[<<b>> \o s] = Xor[<<b, XorVerify[s]>>]
    OBVIOUS
  <2>0. b \in Nat /\ <<>> \in S
    BY <1>0
  <2>1. CASE s = <<>>
    <3>1. <<b>> \o s = <<>> \o <<b>> /\ <<b>> \o s \in S
      <4>1. <<b>> \in S
        OBVIOUS
      <4> QED
        BY <2>1, <4>1, ConcatEmptySeq
    <3>2. <<b>> \o s # <<>> /\ Front(<<b>> \o s) = <<>> /\ Last(<<b>> \o s) = b
      <4>1. PICK z \in S : z = <<>>
        BY <2>0
      <4>2. z \o <<b>> # <<>> /\ Front(z \o <<b>>) = z /\ Last(z \o <<b>>) = b
        BY FrontJoint
      <4> QED
        BY <4>1, <4>2, <3>1
    <3>3. XorVerify[<<b>> \o s] = Xor[<<XorVerify[<<>>], b>>]
      BY <3>1, <3>2, XorVerifyDef
    <3>4. XorVerify[<<>>] = 0
      BY <2>0, XorVerifyDef
    <3> QED
      BY <3>3, <3>4, <2>1, <2>0, XorZero
  <2>2. CASE s # <<>>
    <3>1. Last(s) \in Byte /\ Front(s) \in S /\ Len(Front(s)) < Len(s)
          /\ s = Front(s) \o <<Last(s)>>
      <4>1. Last(s) \in Byte /\ Front(s) \in S /\ Len(Front(s)) = Len(s) - 1
            /\ s = Front(s) \o <<Last(s)>>
        BY <2>2, Pieces
      <4> QED
        BY <4>1, LenIsNat
    <3>2. PICK l \in Byte : l = Last(s)
      BY <3>1
    <3>3. PICK f \in S : f = Front(s)
      BY <3>1
    <3>4. XorVerify[<<b>> \o f] = Xor[<<b, XorVerify[f]>>]
      BY <3>1, <3>3, <1>2
    <3>5. <<b>> \o s = (<<b>> \o f) \o <<l>> /\ <<b>> \o f \in S /\ <<b>> \o s \in S
      <4>1. <<b>> \in S /\ <<l>> \in S
        OBVIOUS
      <4>2. (<<b>> \o f) \o <<l>> = <<b>> \o (f \o <<l>>)
        BY <4>1, ConcatAssociative
      <4>3. <<b>> \o f \in S /\ <<b>> \o s \in S
        BY <4>1, ConcatProperties
      <4> QED
        BY <4>2, <4>3, <3>1, <3>2, <3>3
    <3>6. <<b>> \o s # <<>> /\ Front(<<b>> \o s) = <<b>> \o f /\ Last(<<b>> \o s) = l
      <4>1. PICK u \in S : u = <<b>> \o f
        BY <3>5
      <4>2. u \o <<l>> # <<>> /\ Front(u \o <<l>>) = u /\ Last(u \o <<l>>) = l
        BY FrontJoint
      <4> QED
        BY <4>1, <4>2, <3>5
    <3>7. XorVerify[<<b>> \o s] = Xor[<<XorVerify[<<b>> \o f], l>>]
      BY <3>5, <3>6, XorVerifyDef
    <3>8. XorVerify[s] = Xor[<<XorVerify[f], l>>]
      BY <2>2, <3>2, <3>3, XorVerifyDef
    <3>9. XorVerify[f] \in Nat /\ l \in Nat
      BY <1>0, XorVerifyDef
    <3>10. PICK x \in Nat : x = XorVerify[f]
      BY <3>9
    <3>11. Xor[<<Xor[<<b, x>>], l>>] = Xor[<<b, Xor[<<x, l>>]>>]
      BY <3>9, <2>0, XorAssociative
    <3> QED
      BY <3>4, <3>7, <3>8, <3>10, <3>11
  <2> QED
    BY <2>1, <2>2
<1>3. \A s \in S : s \in P
  <2> HIDE DEF S, size, P
  <2> QED
    BY <1>1, <1>2, SizeInduction
<1> QED
  BY <1>3

\* The checksum of the device is that of the standard.
LEMMA XorVerifyChecksum == \A s \in Seq(Byte) : XorVerify[s] = Checksum[s]
<1> DEFINE S == Seq(Byte)
           size == [s \in S |-> Len(s)]
           P == { s \in S : XorVerify[s] = Checksum[s] }
<1>1. size \in [S -> Nat]
  BY LenIsNat
<1>2. ASSUME NEW s \in S, \A t \in S : size[t] < size[s] => t \in P
      PROVE  s \in P
  <2>1. CASE s = <<>>
    BY <2>1, ChecksumDef, XorVerifyDef
  <2>2. CASE s # <<>>
    <3>1. Head(s) \in Byte /\ Tail(s) \in S /\ Len(Tail(s)) < Len(s)
          /\ s = <<Head(s)>> \o Tail(s)
      <4>1. Head(s) \in Byte /\ Tail(s) \in S /\ Len(Tail(s)) = Len(s) - 1
            /\ s = <<Head(s)>> \o Tail(s)
        BY <2>2, Pieces
      <4> QED
        BY <4>1, LenIsNat
    <3>2. XorVerify[Tail(s)] = Checksum[Tail(s)]
      BY <1>2, <3>1
    <3>3. XorVerify[s] = Xor[<<Head(s), XorVerify[Tail(s)]>>]
      BY <3>1, XorVerifyFromFront
    <3> QED
      BY <2>2, <3>2, <3>3, ChecksumDef
  <2> QED
    BY <2>1, <2>2
<1>3. \A s \in S : s \in P
  <2> HIDE DEF S, size, P
  <2> QED
    BY <1>1, <1>2, SizeInduction
<1> QED
  BY <1>3

\* Escaped bytes hold no flag, and are no fewer than the bytes.
LEMMA NoFlagInside ==
  \A s \in Seq(Byte) : /\ \A i \in 1..Len(Escapes[s]) : Escapes[s][i] # Flag
                       /\ Len(s) <= Len(Escapes[s])
<1> DEFINE S == Seq(Byte)
           size == [s \in S |-> Len(s)]
           P == { s \in S : /\ \A i \in 1..Len(Escapes[s]) : Escapes[s][i] # Flag
                            /\ Len(s) <= Len(Escapes[s]) }
<1>1. size \in [S -> Nat]
  BY LenIsNat
<1>2. ASSUME NEW s \in S, \A t \in S : size[t] < size[s] => t \in P
      PROVE  s \in P
  <2>1. CASE s = <<>>
    <3>1. Escapes[s] = <<>>
      BY <2>1, EscapesDef
    <3> QED
      BY <3>1, <2>1
  <2>2. CASE s # <<>>
    <3>1. Head(s) \in Byte /\ Tail(s) \in S /\ Len(Tail(s)) = Len(s) - 1 /\ Len(s) \in Nat
      BY <2>2, Pieces, LenIsNat
    <3>2. PICK e \in S : e = Escapes[Tail(s)]
      BY <3>1, EscapesDef
    <3>3. (\A i \in 1..Len(e) : e[i] # Flag) /\ Len(s) - 1 <= Len(e)
      <4>1. Len(Tail(s)) < Len(s)
        BY <3>1
      <4> QED
        BY <4>1, <3>1, <3>2, <1>2
    <3>4. PICK c \in S : c = Code(Head(s))
      BY <3>1, CodeTyped
    <3>5. Len(c) \in {1, 2} /\ \A i \in 1..Len(c) : c[i] # Flag
      BY <3>1, <3>4 DEF Code, Flag, Esc, Byte
    <3>6. Escapes[s] = c \o e
      BY <2>2, <3>2, <3>4, EscapesDef
    <3>7. c \o e \in S /\ Len(c \o e) = Len(c) + Len(e) /\ Len(c) \in Nat /\ Len(e) \in Nat
          /\ \A i \in 1..(Len(c) + Len(e)) :
               (c \o e)[i] = IF i <= Len(c) THEN c[i] ELSE e[i - Len(c)]
      BY ConcatProperties, LenIsNat
    <3>8. ASSUME NEW i \in 1..Len(c \o e) PROVE (c \o e)[i] # Flag
      <4>1. CASE i <= Len(c)
        BY <4>1, <3>7, <3>5
      <4>2. CASE ~(i <= Len(c))
        <5>1. PICK j \in 1..Len(e) : j = i - Len(c)
          BY <4>2, <3>7
        <5> QED
          BY <5>1, <4>2, <3>7, <3>3
      <4> QED
        BY <4>1, <4>2
    <3> QED
      <4>1. Len(s) <= Len(c \o e)
        <5>0. Len(c) = 1 \/ Len(c) = 2
          BY <3>5
        <5>1. Len(s) \in Nat /\ Len(s) - 1 <= Len(e)
          BY <3>1, <3>3
        <5>2. Len(c \o e) = Len(c) + Len(e) /\ Len(c) \in Nat /\ Len(e) \in Nat
          BY <3>7
        <5>3. PICK ls \in Nat, lc \in Nat, le \in Nat :
                ls = Len(s) /\ lc = Len(c) /\ le = Len(e)
          BY <5>1, <5>2, Zenon
        <5>4. lc >= 1 /\ ls - 1 <= le
          BY <5>0, <5>1, <5>3
        <5>5. ls <= lc + le
          BY <5>4
        <5> QED
          BY <5>2, <5>3, <5>5
      <4> QED
        BY <4>1, <3>6, <3>8
  <2> QED
    BY <2>1, <2>2
<1>3. \A s \in S : s \in P
  <2> HIDE DEF S, size, P
  <2> QED
    BY <1>1, <1>2, SizeInduction
<1> QED
  BY <1>3

\* unTransMean undoes the escapes of JT/T 808, which are those of TransMean
\* (TransMeanEscapes), on every sequence of bytes.
THEOREM UnescapeEscapes == \A s \in Seq(Byte) : unTransMean[Escapes[s]] = s
<1> DEFINE S == Seq(Byte)
           size == [s \in S |-> Len(s)]
           P == { s \in S : unTransMean[Escapes[s]] = s }
<1>1. size \in [S -> Nat]
  BY LenIsNat
<1>2. ASSUME NEW s \in S, \A t \in S : size[t] < size[s] => t \in P
      PROVE  s \in P
  <2>1. CASE s = <<>>
    <3>1. Escapes[s] = <<>> /\ <<>> \in Seq(Byte)
      BY <2>1, EscapesDef
    <3>2. Len(<<>>) < 2
      OBVIOUS
    <3> QED
      BY <3>1, <3>2, <2>1, UnescapeStep
  <2>2. CASE s # <<>>
    <3>1. Head(s) \in Byte /\ Tail(s) \in S /\ Len(Tail(s)) < Len(s)
          /\ s = <<Head(s)>> \o Tail(s)
      <4>1. Head(s) \in Byte /\ Tail(s) \in S /\ Len(Tail(s)) = Len(s) - 1
            /\ s = <<Head(s)>> \o Tail(s)
        BY <2>2, Pieces
      <4> QED
        BY <4>1, LenIsNat
    <3>2. PICK h \in Byte : h = Head(s)
      BY <3>1
    <3>3. PICK t \in S : t = Tail(s)
      BY <3>1
    <3>4. PICK e \in S : e = Escapes[t]
      BY EscapesDef
    <3>5. unTransMean[e] = t
      BY <3>1, <3>3, <3>4, <1>2
    <3>6. Escapes[s] = Code(h) \o e /\ Code(h) \in S
      BY <2>2, <3>2, <3>3, <3>4, EscapesDef, CodeTyped
    <3>7. PICK w \in S : w = Code(h) \o e
      BY <3>6, ConcatProperties
    <3>8. Len(e) \in Nat /\ Len(w) \in Nat
      BY LenIsNat
    <3>9. CASE h \in {Flag, Esc}
      <4>1. PICK k \in {1, 2} : Code(h) = <<Esc, k>> /\ Unescaped(k) = h
        BY <3>9 DEF Code, Flag, Esc, Unescaped
      <4>2. <<Esc, k>> \in S /\ Len(<<Esc, k>>) = 2 /\ <<Esc, k>>[1] = Esc /\ <<Esc, k>>[2] = k
        BY <3>6, <4>1
      <4>3. Len(w) = 2 + Len(e) /\ w[1] = Esc /\ w[2] = k
            /\ SubSeq(w, 2 + 1, 2 + Len(e)) = e
        <5>1. 1 \in 1..Len(<<Esc, k>>) /\ 2 \in 1..Len(<<Esc, k>>)
          BY <4>2
        <5>2. Len(w) = Len(<<Esc, k>>) + Len(e)
              /\ (\A i \in 1..Len(<<Esc, k>>) : w[i] = <<Esc, k>>[i])
              /\ SubSeq(w, Len(<<Esc, k>>) + 1, Len(<<Esc, k>>) + Len(e)) = e
          BY <4>1, <4>2, <3>7, Joint
        <5> QED
          BY <5>1, <5>2, <4>2
      <4>4. ~(Len(w) < 2) /\ SubSeq(w, 3, Len(w)) = e
        BY <4>3, <3>8
      <4>5. First(w) = <<h>> /\ Rest(w) = e
        BY <4>1, <4>3, <4>4 DEF First, Rest
      <4>6. unTransMean[w] = <<h>> \o t
        BY <4>4, <4>5, <3>5, UnescapeStep
      <4> QED
        BY <4>6, <3>1, <3>2, <3>3, <3>6, <3>7
    <3>10. CASE h \notin {Flag, Esc}
      <4>1. Code(h) = <<h>>
        BY <3>10 DEF Code
      <4>2. w = <<h>> \o e /\ Tail(w) = e /\ Head(w) = h /\ w # <<>>
        BY <4>1, <3>7, FrontJoint
      <4>3. w[1] # Esc /\ First(w) = <<h>> /\ Rest(w) = e
        <5>1. w[1] = h /\ h # Esc
          BY <4>2, <3>10
        <5> QED
          BY <5>1, <4>2 DEF First, Rest
      <4>4. CASE Len(w) < 2
        <5>1. Len(e) = 0
          <6>1. Len(Tail(w)) = Len(w) - 1
            BY <4>2, Pieces
          <6> QED
            BY <6>1, <4>2, <4>4, <3>8
        <5>2. e = <<>>
          BY <5>1, EmptySeq
        <5>3. t = e
          <6>1. Len(e) < 2
            BY <5>1
          <6> QED
            BY <6>1, <3>5, UnescapeStep
        <5>4. unTransMean[w] = w
          BY <4>4, UnescapeStep
        <5> QED
          BY <5>3, <5>4, <4>2, <3>1, <3>2, <3>3, <3>6, <3>7
      <4>5. CASE ~(Len(w) < 2)
        <5>1. unTransMean[w] = <<h>> \o t
          BY <4>3, <4>5, <3>5, UnescapeStep
        <5> QED
          BY <5>1, <3>1, <3>2, <3>3, <3>6, <3>7
      <4> QED
        BY <4>4, <4>5
    <3> QED
      BY <3>9, <3>10
  <2> QED
    BY <2>1, <2>2
<1>3. \A s \in S : s \in P
  <2> HIDE DEF S, size, P
  <2> QED
    BY <1>1, <1>2, SizeInduction
<1> QED
  BY <1>3

-----------------------------------------------------------------------------
(* Frames and messages                                                     *)

\* What is between the flags of a frame.
Inside(w) == SubSeq(w, 2, Len(w) - 1)

\* Flags at both ends, none between them, and two bytes or more inside.
IsFrame(w) == /\ w \in Seq(Byte) /\ Len(w) >= 4
              /\ w[1] = Flag /\ w[Len(w)] = Flag
              /\ \A i \in 2..(Len(w) - 1) : w[i] # Flag

\* What goes on the wire is a frame, and inside it is the escaped message.
LEMMA OnWireIsFrame ==
  ASSUME NEW raw \in Seq(Byte), Len(raw) >= 2
  PROVE  /\ IsFrame(OnWire(raw)) /\ Inside(OnWire(raw)) = Escapes[raw]
         /\ OnWire(raw) = <<Flag>> \o TransMean[raw] \o <<Flag>>
<1>1. PICK e \in Seq(Byte) : e = Escapes[raw]
  BY EscapesDef
<1>2. Len(e) \in Nat /\ Len(raw) \in Nat /\ Len(raw) <= Len(e)
      /\ \A i \in 1..Len(e) : e[i] # Flag
  BY <1>1, LenIsNat, NoFlagInside
<1>3. PICK n \in Nat : n = Len(e) /\ n >= 2
  BY <1>2
<1>f. Flag \in Byte
  BY DEF Flag, Byte
<1>4. <<Flag>> \in Seq(Byte) /\ Len(<<Flag>>) = 1 /\ <<Flag>>[1] = Flag
  BY <1>f, FrontJoint
<1>5. PICK u \in Seq(Byte) : u = <<Flag>> \o e
  BY <1>4, ConcatProperties
<1>6. Len(u) = n + 1 /\ u[1] = Flag /\ (\A i \in 1..n : u[1 + i] = e[i])
      /\ SubSeq(u, 1 + 1, 1 + n) = e
  <2>1. 1 \in 1..Len(<<Flag>>)
    BY <1>4
  <2>2. Len(u) = Len(<<Flag>>) + Len(e)
        /\ (\A i \in 1..Len(<<Flag>>) : u[i] = <<Flag>>[i])
        /\ (\A i \in 1..Len(e) : u[Len(<<Flag>>) + i] = e[i])
        /\ SubSeq(u, Len(<<Flag>>) + 1, Len(<<Flag>>) + Len(e)) = e
    BY <1>4, <1>5, Joint
  <2>3. Len(u) = 1 + n /\ u[1] = Flag /\ (\A i \in 1..n : u[1 + i] = e[i])
      /\ SubSeq(u, 1 + 1, 1 + n) = e
    BY <2>1, <2>2, <1>3, <1>4
  <2> QED
    BY <2>3
<1>7. PICK w \in Seq(Byte) : w = u \o <<Flag>>
  BY <1>4, ConcatProperties
<1>8. Len(w) = n + 2 /\ (\A i \in 1..(n + 1) : w[i] = u[i]) /\ w[n + 2] = Flag
  <2>1. 1 \in 1..Len(<<Flag>>)
    BY <1>4
  <2>2. Len(w) = Len(u) + Len(<<Flag>>)
        /\ (\A i \in 1..Len(u) : w[i] = u[i])
        /\ w[Len(u) + 1] = <<Flag>>[1]
    BY <2>1, <1>4, <1>7, Joint
  <2>3. n + 1 + 1 = n + 2
    OBVIOUS
  <2> QED
    BY <2>2, <2>3, <1>6, <1>4
<1>9. w = OnWire(raw)
  BY <1>1, <1>5, <1>7 DEF OnWire
<1>10. \A i \in 2..(Len(w) - 1) : w[i] # Flag
  <2> SUFFICES ASSUME NEW i \in 2..(Len(w) - 1) PROVE w[i] # Flag
    OBVIOUS
  <2>1. PICK j \in 1..n : j = i - 1 /\ 1 + j = i /\ i \in 1..(n + 1)
    BY <1>8
  <2>2. w[i] = e[j]
    BY <2>1, <1>8, <1>6
  <2> QED
    BY <2>2, <1>2, <1>3
<1>11. IsFrame(w)
  <2>1. Len(w) >= 4 /\ w[1] = Flag /\ w[Len(w)] = Flag
    <3>1. 1 \in 1..(n + 1)
      OBVIOUS
    <3>2. w[1] = u[1]
      BY <3>1, <1>8
    <3> QED
      BY <3>2, <1>3, <1>6, <1>8
  <2> QED
    BY <2>1, <1>10 DEF IsFrame
<1>12. Inside(w) = e
  <2>1. Inside(w) = SubSeq(w, 2, n + 1)
    <3>1. Len(w) - 1 = n + 1
      BY <1>8
    <3> QED
      BY <3>1 DEF Inside
  <2>2. SubSeq(w, 2, n + 1) = SubSeq(u, 2, n + 1)
    <3>1. 2 \in 1..Len(u) /\ n + 1 \in 1..Len(u)
      BY <1>3, <1>6
    <3> QED
      BY <3>1, <1>4, <1>7, SubSeqOfConcat1
  <2>3. SubSeq(u, 2, n + 1) = e
    BY <1>6
  <2> QED
    BY <2>1, <2>2, <2>3
<1>13. OnWire(raw) = <<Flag>> \o TransMean[raw] \o <<Flag>>
  BY TransMeanEscapes DEF OnWire
<1> QED
  BY <1>1, <1>9, <1>11, <1>12, <1>13

\* Fields of a message, a sequence of at most 63 bytes for its body.
LEMMA MessageTyped ==
  ASSUME NEW msg \in Message
  PROVE  /\ msg.id \in {AuthOk, Command, Unknown} /\ msg.id \in Byte
         /\ msg.serial \in Byte /\ msg.packed \in BOOLEAN
         /\ msg.body \in Seq(Byte) /\ Len(msg.body) \in 0..63
         /\ Content(msg) \in [id : Byte, serial : Byte, body : Seq(Byte)]
<1>1. msg.id \in {AuthOk, Command, Unknown} /\ msg.id \in Byte
      /\ msg.serial \in Byte /\ msg.packed \in BOOLEAN
      /\ msg.body \in BoundedSeq(Payload, MaxBody)
  BY DEF Message, AuthOk, Command, Unknown, Byte
<1>2. PICK n \in 0..MaxBody : msg.body \in [1..n -> Payload]
  BY <1>1 DEF BoundedSeq, SeqOf
<1>3. n \in Nat /\ n \in 0..63 /\ Payload \subseteq Byte
  BY <1>2, PayloadAssumption
<1>4. msg.body \in [1..n -> Byte]
  BY <1>2, <1>3
<1>5. msg.body \in Seq(Byte)
  BY <1>3, <1>4, SeqDef
<1>6. Len(msg.body) = n
  <2>1. DOMAIN msg.body = 1..Len(msg.body) /\ Len(msg.body) \in Nat
    BY <1>5, LenProperties
  <2>2. DOMAIN msg.body = 1..n
    BY <1>4
  <2>3. PICK l \in Nat : l = Len(msg.body)
    BY <2>1
  <2>4. 1..l = 1..n
    BY <2>1, <2>2, <2>3
  <2>5. l = n
    <3>1. CASE l < n
      <4>1. l + 1 \in 1..n /\ l + 1 \notin 1..l
        BY <3>1, <1>3
      <4> QED
        BY <4>1, <2>4
    <3>2. CASE n < l
      <4>1. n + 1 \in 1..l /\ n + 1 \notin 1..n
        BY <3>2, <1>3
      <4> QED
        BY <4>1, <2>4
    <3> QED
      BY <3>1, <3>2, <1>3
  <2> QED
    BY <2>5, <2>3
<1> QED
  BY <1>1, <1>3, <1>5, <1>6 DEF Content

\* A checksum put behind the bytes passes the test of _ProtocolParse.
LEMMA Checked ==
  ASSUME NEW raw \in Seq(Byte)
  PROVE  /\ WithChecksum(raw) \in Seq(Byte) /\ Len(WithChecksum(raw)) = Len(raw) + 1
         /\ \A i \in 1..Len(raw) : WithChecksum(raw)[i] = raw[i]
         /\ Front(WithChecksum(raw)) = raw /\ Last(WithChecksum(raw)) = Checksum[raw]
         /\ WithChecksum(raw) = Append(raw, XorVerify[raw])
         /\ XorVerify[Front(WithChecksum(raw))] = Last(WithChecksum(raw))
<1>1. PICK c \in Byte : c = Checksum[raw]
  BY XorOfSeq
<1>2. WithChecksum(raw) = Append(raw, c)
  BY <1>1 DEF WithChecksum
<1>3. /\ Append(raw, c) \in Seq(Byte) /\ Len(Append(raw, c)) = Len(raw) + 1
      /\ \A i \in 1..Len(raw) : Append(raw, c)[i] = raw[i]
  BY AppendProperties
<1>4. Front(Append(raw, c)) = raw /\ Last(Append(raw, c)) = c
  <2>1. Append(raw, c) = raw \o <<c>>
    BY FrontJoint
  <2>2. Front(raw \o <<c>>) = raw /\ Last(raw \o <<c>>) = c
    BY FrontJoint
  <2> QED
    BY <2>1, <2>2
<1>5. XorVerify[raw] = c
  BY <1>1, XorVerifyChecksum
<1> QED
  BY <1>1, <1>2, <1>3, <1>4, <1>5

\* The bytes of a message: where header, item, body and checksum are.
LEMMA RawShape ==
  ASSUME NEW msg \in Message
  PROVE  /\ Raw(msg) \in Seq(Byte) /\ Len(Raw(msg)) >= 4
         /\ Raw(msg)[1] = msg.id /\ Raw(msg)[3] = msg.serial
         /\ Offset(Raw(msg)) = IF msg.packed THEN 4 ELSE 3
         /\ Len(Raw(msg)) = Offset(Raw(msg)) + Len(msg.body) + 1
         /\ Raw(msg)[2] % Packed = Len(msg.body)
         /\ SubSeq(Raw(msg), Offset(Raw(msg)) + 1, Len(Raw(msg)) - 1) = msg.body
         /\ XorVerify[Front(Raw(msg))] = Last(Raw(msg))
<1>1. PICK id \in Byte, sn \in Byte, body \in Seq(Byte) :
        id = msg.id /\ sn = msg.serial /\ body = msg.body
  BY MessageTyped
<1>2. PICK n \in 0..63 : n = Len(body)
  BY <1>1, MessageTyped
<1>3. PICK attr \in Byte :
        /\ attr = Len(msg.body) + (IF msg.packed THEN Packed ELSE 0)
        /\ attr % Packed = n /\ (attr >= Packed <=> msg.packed)
  <2>1. CASE msg.packed
    <3>1. PICK a \in 64..127 : a = n + 64
      OBVIOUS
    <3>2. a % 64 = n /\ a >= 64
      BY <3>1
    <3>3. a \in Byte
      BY DEF Byte
    <3>4. a = Len(msg.body) + (IF msg.packed THEN Packed ELSE 0)
      BY <2>1, <1>1, <1>2, <3>1 DEF Packed
    <3> QED
      BY <3>2, <3>3, <3>4, <2>1 DEF Packed
  <2>2. CASE ~msg.packed
    <3>1. n % 64 = n /\ ~(n >= 64) /\ n + 0 = n
      OBVIOUS
    <3>2. n \in Byte
      BY DEF Byte
    <3>3. n = Len(msg.body) + (IF msg.packed THEN Packed ELSE 0)
      BY <2>2, <1>1, <1>2, <3>1
    <3> QED
      BY <3>1, <3>2, <3>3, <2>2 DEF Packed
  <2> QED
    BY <2>1, <2>2
<1>4. PICK h \in Seq(Byte) : h = <<id, attr, sn>>
  <2>1. <<id, attr, sn>> \in Seq(Byte)
    OBVIOUS
  <2> QED
    BY <2>1
<1>5. Len(h) = 3 /\ h[1] = id /\ h[2] = attr /\ h[3] = sn
  BY <1>4
<1>6. PICK item \in Seq(Byte) : item = (IF msg.packed THEN PacketItem ELSE <<>>)
                 /\ Len(item) = IF msg.packed THEN 1 ELSE 0
  <2>1. PICK z \in Seq(Byte) : z = <<0>> /\ Len(z) = 1
    <3>1. 0 \in Byte
      BY DEF Byte
    <3> QED
      BY <3>1, FrontJoint
  <2>2. PICK e \in Seq(Byte) : e = <<>> /\ Len(e) = 0
    BY EmptySeq
  <2>3. (IF msg.packed THEN PacketItem ELSE <<>>) = (IF msg.packed THEN z ELSE e)
    BY <2>1, <2>2 DEF PacketItem
  <2>4. PICK item \in Seq(Byte) : item = IF msg.packed THEN z ELSE e
    OBVIOUS
  <2>5. Len(item) = IF msg.packed THEN 1 ELSE 0
    BY <2>1, <2>2, <2>4
  <2> QED
    BY <2>3, <2>4, <2>5
<1>7. PICK front \in Seq(Byte) : front = h \o item
  BY ConcatProperties
<1>8. PICK o \in {3, 4} : o = Len(front) /\ o = IF msg.packed THEN 4 ELSE 3
  <2>1. Len(front) = Len(h) + Len(item)
    BY <1>7, Joint
  <2> QED
    BY <2>1, <1>5, <1>6
<1>9. front[1] = id /\ front[2] = attr /\ front[3] = sn
  <2>1. \A i \in 1..Len(h) : front[i] = h[i]
    BY <1>7, Joint
  <2> QED
    BY <2>1, <1>5
<1>10. PICK raw \in Seq(Byte) : raw = front \o body
  BY ConcatProperties
<1>11. Len(raw) = o + n /\ (\A i \in 1..o : raw[i] = front[i])
       /\ SubSeq(raw, o + 1, o + n) = body
  <2>1. Len(raw) = Len(front) + Len(body) /\ (\A i \in 1..Len(front) : raw[i] = front[i])
        /\ SubSeq(raw, Len(front) + 1, Len(front) + Len(body)) = body
    BY <1>10, Joint
  <2> QED
    BY <2>1, <1>2, <1>8
<1>12. Raw(msg) = WithChecksum(raw)
  <2>1. Raw(msg) = WithChecksum(h \o item \o body)
    BY <1>1, <1>3, <1>4, <1>6, Zenon DEF Raw
  <2> QED
    BY <2>1, <1>7, <1>10
<1>13. PICK w \in Seq(Byte) : w = WithChecksum(raw)
  BY Checked
<1>14. /\ Len(w) = o + n + 1 /\ \A i \in 1..(o + n) : w[i] = raw[i]
       /\ Front(w) = raw /\ XorVerify[Front(w)] = Last(w)
  BY <1>11, <1>13, Checked
<1>15. w[1] = id /\ w[2] = attr /\ w[3] = sn
  <2>1. 1 \in 1..o /\ 2 \in 1..o /\ 3 \in 1..o /\ 1 \in 1..(o + n) /\ 2 \in 1..(o + n) /\ 3 \in 1..(o + n)
    BY <1>8, <1>2
  <2> QED
    BY <2>1, <1>14, <1>11, <1>9, SMTT(40)
<1>16. Offset(w) = o
  BY <1>15, <1>3, <1>8 DEF Offset, HeaderLength, PacketItem
<1>17. SubSeq(w, o + 1, o + n) = body
  <2>1. SubSeq(Front(w), o + 1, o + n) = SubSeq(w, o + 1, o + n)
    <3>1. PICK c \in Byte : w = Append(raw, c)
      BY <1>13, XorOfSeq DEF WithChecksum
    <3>2. w = raw \o <<c>> /\ <<c>> \in Seq(Byte)
      BY <3>1, FrontJoint
    <3>3. CASE n = 0
      <4>1. o + n < o + 1
        BY <3>3, <1>8
      <4> QED
        BY <4>1, <1>8, <1>2, SubSeqEmpty
    <3>4. CASE n # 0
      <4>1. o + 1 \in 1..Len(raw) /\ o + n \in 1..Len(raw)
        BY <3>4, <1>11, <1>8, <1>2
      <4> QED
        BY <4>1, <3>2, <1>14, SubSeqOfConcat1, SMTT(40)
    <3> QED
      BY <3>3, <3>4
  <2> QED
    BY <2>1, <1>14, <1>11
<1>18. o + n + 1 - 1 = o + n /\ o + n + 1 >= 4
  BY <1>2, <1>8
<1>19. /\ Raw(msg) = w /\ Len(w) >= 4
       /\ w[1] = msg.id /\ w[3] = msg.serial
       /\ Offset(w) = IF msg.packed THEN 4 ELSE 3
  BY <1>1, <1>8, <1>12, <1>13, <1>14, <1>15, <1>16, <1>18
<1>20. /\ Len(w) = Offset(w) + Len(msg.body) + 1
       /\ w[2] % Packed = Len(msg.body)
  BY <1>1, <1>2, <1>3, <1>14, <1>15, <1>16
<1>21. SubSeq(w, Offset(w) + 1, Len(w) - 1) = msg.body
  BY <1>1, <1>14, <1>16, <1>17, <1>18
<1> QED
  BY <1>14, <1>19, <1>20, <1>21

\* The device takes the bytes of a message for well formed, and reads in them
\* what was sent (Length, WellFormed and Parsed undo Raw).
THEOREM Understood ==
  ASSUME NEW msg \in Message
  PROVE  WellFormed(Raw(msg)) /\ Parsed(Raw(msg)) = Content(msg)
<1>1. PICK raw \in Seq(Byte) : raw = Raw(msg)
  BY RawShape
<1>2. PICK o \in {3, 4} : o = Offset(raw)
  BY <1>1, RawShape
<1>3. PICK n \in 0..63 : n = Len(msg.body)
  BY MessageTyped
<1>4. Len(raw) = o + n + 1 /\ raw[2] % Packed = n
  BY <1>1, <1>2, <1>3, RawShape
<1>5. Length(raw) = n
  <2>1. Len(raw) - o - 1 = n
    BY <1>2, <1>3, <1>4
  <2>2. n % 65536 = n
    OBVIOUS
  <2> QED
    BY <2>1, <2>2, <1>2 DEF Length
<1>6. WellFormed(raw)
  <2>1. Len(raw) > 0 /\ Len(raw) >= 3
    BY <1>2, <1>3, <1>4
  <2> QED
    BY <2>1, <1>1, <1>4, <1>5, RawShape DEF WellFormed, HeaderLength
<1>7. Parsed(raw) = Content(msg)
  BY <1>1, RawShape DEF Parsed, Content
<1> QED
  BY <1>1, <1>6, <1>7

-----------------------------------------------------------------------------
(* What a read finds in its buffer                                         *)

\* Min of a set of naturals is its least element.
LEMMA MinOfNats ==
  ASSUME NEW T \in SUBSET Nat, T # {}
  PROVE  Min(T) \in T /\ \A n \in T : Min(T) <= n
BY Smallest DEF Min

\* p and q are neighbouring flags of the buffer.
Between(buf, p, q) ==
  /\ p < q /\ buf[p] = Flag /\ buf[q] = Flag
  /\ \A i \in 1..Len(buf) : p < i /\ i < q => buf[i] # Flag

\* Neighbouring flags of the buffer, if not too close, hold a member of F.
Holds(buf, F) ==
  \A p, q \in 1..Len(buf) :
    Between(buf, p, q) /\ q - p - 1 >= 2 => SubSeq(buf, p + 1, q - 1) \in F

\* RadioProtocol_CheckRecvData finds nothing or a member of F.
LEMMA FoundFrame ==
  ASSUME NEW buf \in Seq(Byte), NEW F, Holds(buf, F)
  PROVE  CheckRecvData(buf) \in F \cup {<<>>}
<1> DEFINE flags == { i \in DOMAIN buf : buf[i] = Flag }
           first == Min(flags)
           second == Min(flags \ {first})
<1>1. DOMAIN buf = 1..Len(buf) /\ Len(buf) \in Nat
  BY LenProperties
<1>2. CheckRecvData(buf) =
        IF \/ flags = {} \/ flags = {first}
           \/ second - first - 1 \notin 2 .. ProtocolBufferSize
        THEN <<>>
        ELSE SubSeq(buf, first + 1, second - 1)
  BY DEF CheckRecvData, MinFrame
<1>3. flags \in SUBSET Nat
  BY <1>1
<1>4. ASSUME flags # {}, flags # {first},
             second - first - 1 \in 2 .. ProtocolBufferSize
      PROVE  SubSeq(buf, first + 1, second - 1) \in F
  <2> HIDE DEF first, second
  <2>1. first \in flags /\ \A n \in flags : first <= n
    <3> HIDE DEF flags
    <3> QED
      BY <1>3, <1>4, MinOfNats DEF first
  <2>2. flags \ {first} # {} /\ flags \ {first} \in SUBSET Nat
    BY <1>3, <1>4, <2>1
  <2>3. second \in flags \ {first} /\ \A n \in flags \ {first} : second <= n
    <3> HIDE DEF flags
    <3> QED
      BY <2>2, MinOfNats DEF second
  <2>4. first \in 1..Len(buf) /\ second \in 1..Len(buf) /\ first < second
        /\ buf[first] = Flag /\ buf[second] = Flag
    BY <1>1, <2>1, <2>3
  <2>5. ASSUME NEW i \in 1..Len(buf), first < i, i < second PROVE buf[i] # Flag
    <3>1. i # first /\ ~(second <= i)
      BY <1>1, <2>4, <2>5
    <3> QED
      BY <1>1, <2>3, <3>1
  <2>6. Between(buf, first, second)
    BY <2>4, <2>5 DEF Between
  <2>7. second - first - 1 >= 2
    BY <1>1, <1>4, <2>4
  <2> HIDE DEF flags
  <2> QED
    BY <2>4, <2>6, <2>7 DEF Holds
<1> HIDE DEF flags, first, second
<1> QED
  BY <1>2, <1>4

\* What holds of the flags of a buffer holds of those of a part.
LEMMA PieceHolds ==
  ASSUME NEW buf \in Seq(Byte), NEW F, Holds(buf, F),
         NEW m \in 1..(Len(buf) + 1), NEW n \in (m - 1)..Len(buf)
  PROVE  Holds(SubSeq(buf, m, n), F)
<1>1. PICK u \in Seq(Byte) : u = SubSeq(buf, m, n) /\ Len(u) = n - m + 1
        /\ \A i \in 1..(n - m + 1) : u[i] = buf[m + i - 1]
  <2>1. /\ SubSeq(buf, m, n) \in Seq(Byte) /\ Len(SubSeq(buf, m, n)) = n - m + 1
        /\ \A i \in 1..(n - m + 1) : SubSeq(buf, m, n)[i] = buf[m + i - 1]
    BY Part
  <2> QED
    BY <2>1
<1>2. PICK l \in Nat : l = Len(buf)
  BY LenIsNat
<1>3. m \in 1..(l + 1) /\ n \in (m - 1)..l
  BY <1>2
<1>4. ASSUME NEW p \in 1..Len(u), NEW q \in 1..Len(u), Between(u, p, q), q - p - 1 >= 2
      PROVE  SubSeq(u, p + 1, q - 1) \in F
  <2>1. p \in 1..(n - m + 1) /\ q \in 1..(n - m + 1)
    BY <1>1
  <2>2. PICK a \in 1..l, b \in 1..l : a = m + p - 1 /\ b = m + q - 1
    BY <1>3, <2>1
  <2>3. p < q /\ u[p] = Flag /\ u[q] = Flag
        /\ \A i \in 1..(n - m + 1) : p < i /\ i < q => u[i] # Flag
    BY <1>1, <1>4 DEF Between
  <2>4. a < b /\ buf[a] = Flag /\ buf[b] = Flag
    BY <1>1, <1>3, <2>1, <2>2, <2>3
  <2>5. ASSUME NEW i \in 1..Len(buf), a < i, i < b PROVE buf[i] # Flag
    <3>1. PICK j \in 1..(n - m + 1) : j = i - m + 1 /\ p < j /\ j < q /\ m + j - 1 = i
      BY <1>2, <1>3, <2>1, <2>2, <2>5
    <3> QED
      BY <3>1, <2>3, <1>1
  <2>6. Between(buf, a, b) /\ b - a - 1 >= 2
    BY <2>1, <2>2, <1>3, <2>4, <2>5, <1>4 DEF Between
  <2>7. SubSeq(buf, a + 1, b - 1) \in F
    BY <2>6, <1>2 DEF Holds
  <2>8. SubSeq(u, p + 1, q - 1) = SubSeq(buf, a + 1, b - 1)
    <3>1. m \in 1..Len(buf) /\ n \in 1..Len(buf) /\ p + 1 \in 1..(n - m + 1)
          /\ q - 1 \in 1..(n - m + 1)
      BY <1>2, <1>3, <2>1, <1>4
    <3>2. m + (p + 1) - 1 = a + 1 /\ m + (q - 1) - 1 = b - 1
      BY <1>3, <2>1, <2>2
    <3>3. SubSeq(SubSeq(buf, m, n), p + 1, q - 1) = SubSeq(buf, m + (p + 1) - 1, m + (q - 1) - 1)
      BY <3>1, SubSeqOfSubSeq
    <3> QED
      BY <3>2, <3>3, <1>1
  <2> QED
    BY <2>7, <2>8
<1> QED
  BY <1>1, <1>4 DEF Holds

\* A frame, or a piece of one, read after bytes that end with a flag adds at
\* most its own content.  The two flags where frames meet are too close.
LEMMA JointHolds ==
  ASSUME NEW buf \in Seq(Byte), NEW F, Holds(buf, F),
         buf = <<>> \/ buf[Len(buf)] = Flag,
         NEW w, IsFrame(w), NEW a \in 1..Len(w), NEW c \in a..Len(w),
         buf = <<>> \/ a = 1,
         a = 1 /\ c = Len(w) => Inside(w) \in F
  PROVE  Holds(buf \o SubSeq(w, a, c), F)
<1>1. w \in Seq(Byte) /\ w[1] = Flag /\ w[Len(w)] = Flag
      /\ \A i \in 2..(Len(w) - 1) : w[i] # Flag
  BY DEF IsFrame
<1>2. PICK lw \in Nat : lw = Len(w)
  BY <1>1, LenIsNat
<1>3. PICK lb \in Nat : lb = Len(buf)
  BY LenIsNat
<1>4. a \in 1..lw /\ c \in a..lw
  BY <1>2
<1>5. PICK v \in Seq(Byte) : v = SubSeq(w, a, c) /\ Len(v) = c - a + 1
        /\ \A i \in 1..(c - a + 1) : v[i] = w[a + i - 1]
  <2>1. a \in 1..(Len(w) + 1) /\ c \in (a - 1)..Len(w)
    BY <1>2, <1>4
  <2>2. /\ SubSeq(w, a, c) \in Seq(Byte) /\ Len(SubSeq(w, a, c)) = c - a + 1
        /\ \A i \in 1..(c - a + 1) : SubSeq(w, a, c)[i] = w[a + i - 1]
    BY <1>1, <2>1, Part
  <2> QED
    BY <2>2
<1>6. PICK lv \in Nat : lv = Len(v) /\ lv = c - a + 1
  BY <1>4, <1>5
<1>7. PICK x \in Seq(Byte) : x = buf \o v
  BY ConcatProperties
<1>8. Len(x) = lb + lv /\ (\A i \in 1..lb : x[i] = buf[i])
      /\ (\A i \in 1..lv : x[lb + i] = v[i])
  <2>1. Len(x) = Len(buf) + Len(v) /\ (\A i \in 1..Len(buf) : x[i] = buf[i])
        /\ (\A i \in 1..Len(v) : x[Len(buf) + i] = v[i])
    BY <1>7, Joint
  <2> QED
    BY <2>1, <1>3, <1>6
<1>9. ASSUME NEW p \in 1..Len(x), NEW q \in 1..Len(x), Between(x, p, q), q - p - 1 >= 2
      PROVE  SubSeq(x, p + 1, q - 1) \in F
  <2>1. p \in 1..(lb + lv) /\ q \in 1..(lb + lv)
    BY <1>8
  <2>2. p < q /\ x[p] = Flag /\ x[q] = Flag
        /\ \A i \in 1..(lb + lv) : p < i /\ i < q => x[i] # Flag
    BY <1>8, <1>9 DEF Between
  <2>3. CASE q <= lb
    <3>1. p \in 1..lb /\ q \in 1..lb
      BY <2>1, <2>2, <2>3
    <3>2. buf[p] = Flag /\ buf[q] = Flag
      BY <3>1, <1>8, <2>2
    <3>3. \A i \in 1..Len(buf) : p < i /\ i < q => buf[i] # Flag
      <4>1. \A i \in 1..lb : i \in 1..(lb + lv)
        OBVIOUS
      <4> QED
        BY <4>1, <1>3, <1>8, <2>2
    <3>4. Between(buf, p, q)
      BY <3>2, <3>3, <2>2 DEF Between
    <3>5. SubSeq(buf, p + 1, q - 1) \in F
      BY <3>1, <3>4, <1>3, <1>9 DEF Holds
    <3>6. SubSeq(x, p + 1, q - 1) = SubSeq(buf, p + 1, q - 1)
      <4>1. p + 1 \in 1..Len(buf) /\ q - 1 \in 1..Len(buf)
        BY <3>1, <1>3, <1>9
      <4> QED
        BY <4>1, <1>7, SubSeqOfConcat1
    <3> QED
      BY <3>5, <3>6
  <2>4. CASE p <= lb /\ lb < q
    <3>1. p \in 1..lb /\ lb \in 1..lb /\ lb \in 1..(lb + lv)
      BY <2>1, <2>4
    <3>2. buf # <<>>
      <4>1. Len(buf) # 0
        BY <3>1, <1>3
      <4> QED
        BY <4>1, EmptySeq
    <3>3. x[lb] = Flag
      BY <3>1, <3>2, <1>3, <1>8
    <3>4. p = lb
      BY <3>1, <3>3, <2>2, <2>4
    <3>5. 1 \in 1..lv /\ lb + 1 \in 1..(lb + lv) /\ lb + 1 < q
      BY <2>1, <2>4, <3>4, <1>9, <1>4, <1>6
    <3>6. x[lb + 1] = v[1]
      BY <3>5, <1>8
    <3>7. v[1] = Flag
      <4>1. a = 1 /\ 1 \in 1..(c - a + 1)
        BY <3>2, <3>5, <1>6
      <4>2. v[1] = w[a + 1 - 1]
        BY <4>1, <1>5
      <4>3. a + 1 - 1 = 1
        BY <4>1
      <4> QED
        BY <4>2, <4>3, <1>1
    <3> QED
      BY <3>4, <3>5, <3>6, <3>7, <2>2, <2>4
  <2>5. CASE lb < p
    <3>1. PICK i \in 1..lv, j \in 1..lv : p = lb + i /\ q = lb + j
      BY <2>1, <2>2, <2>5
    <3>2. i < j /\ j - i - 1 >= 2
      BY <3>1, <2>2, <1>9
    <3>3. PICK s \in 1..lw, t \in 1..lw : s = a + i - 1 /\ t = a + j - 1 /\ s < t
      BY <3>1, <3>2, <1>4, <1>6
    <3>4. w[s] = Flag /\ w[t] = Flag
      BY <3>1, <3>3, <1>5, <1>6, <1>8, <2>2
    <3>5. s = 1
      BY <3>3, <3>4, <1>1, <1>2
    <3>6. t = lw
      BY <3>3, <3>4, <1>1, <1>2
    <3>7. a = 1 /\ i = 1 /\ c = lw /\ j = lw
      BY <3>3, <3>5, <3>6, <1>4, <1>6, <3>1
    <3>8. Inside(w) \in F
      BY <3>7, <1>2
    <3>9. v = w
      <4>1. SubSeq(w, 1, Len(w)) = w
        BY <1>1, SubSeqFull
      <4> QED
        BY <4>1, <1>5, <3>7, <1>2
    <3>10. SubSeq(x, p + 1, q - 1) = SubSeq(v, 2, lw - 1)
      <4>1. p + 1 \in (lb + 1)..(lb + lv) /\ q - 1 \in (lb + 1)..(lb + lv)
            /\ p + 1 - lb = 2 /\ q - 1 - lb = lw - 1
        BY <2>1, <3>1, <3>2, <3>7
      <4>2. PICK y \in (lb + 1)..(lb + lv), z \in (lb + 1)..(lb + lv) :
              y = p + 1 /\ z = q - 1 /\ y - lb = 2 /\ z - lb = lw - 1
        BY <4>1
      <4>3. y \in (Len(buf) + 1)..(Len(buf) + Len(v))
            /\ z \in (Len(buf) + 1)..(Len(buf) + Len(v))
        BY <1>3, <1>6
      <4>4. SubSeq(buf \o v, y, z) = SubSeq(v, y - Len(buf), z - Len(buf))
        BY <4>3, SubSeqOfConcat2
      <4>5. SubSeq(x, y, z) = SubSeq(v, 2, lw - 1)
        BY <4>2, <4>4, <1>3, <1>7
      <4> QED
        BY <4>2, <4>5
    <3> QED
      BY <3>8, <3>9, <3>10, <1>2 DEF Inside
  <2> QED
    BY <2>1, <2>3, <2>4, <2>5
<1> QED
  BY <1>5, <1>7, <1>9 DEF Holds

-----------------------------------------------------------------------------
(* The stream holds the last frames of the platform, the first of them perhaps cut *)

\* The j-th frame of the platform.
Frame(j) == OnWire(Raw(sent[j]))

\* The contents of the frames from the lo-th to the hi-th.
FramesOf(lo, hi) == { Inside(Frame(j)) : j \in lo..hi }

\* How many frames have been read to their end.
Read0 == Len(sent) - Len(stream)

\* The stream is what is left to read of the frames of the platform: whole
\* frames, the first of which may have lost its beginning.
StreamInv ==
  /\ Len(stream) <= Len(sent)
  /\ \A i \in 1..Len(stream) :
       \E a \in 1..Len(Frame(Read0 + i)) :
         /\ i > 1 => a = 1
         /\ stream[i] = SubSeq(Frame(Read0 + i), a, Len(Frame(Read0 + i)))

\* The frame of a message that was sent, and what the device makes of it.
LEMMA FrameOfSent ==
  ASSUME sent \in Seq(Message), NEW j \in 1..Len(sent)
  PROVE  /\ IsFrame(Frame(j)) /\ Inside(Frame(j)) \in Seq(Byte)
         /\ unTransMean[Inside(Frame(j))] = Raw(sent[j])
         /\ WellFormed(Raw(sent[j])) /\ Parsed(Raw(sent[j])) = Content(sent[j])
         /\ Content(sent[j]) \in [id : Byte, serial : Byte, body : Seq(Byte)]
<1>1. PICK msg \in Message : msg = sent[j]
  BY ElementOfSeq
<1>2. PICK raw \in Seq(Byte) : raw = Raw(msg) /\ Len(raw) >= 2
  <2>1. Raw(msg) \in Seq(Byte) /\ Len(Raw(msg)) >= 4
    BY RawShape
  <2>2. Len(Raw(msg)) >= 2
    BY <2>1, LenIsNat
  <2> QED
    BY <2>1, <2>2
<1>3. IsFrame(OnWire(raw)) /\ Inside(OnWire(raw)) = Escapes[raw]
  BY <1>2, OnWireIsFrame
<1>4. unTransMean[Escapes[raw]] = raw /\ Escapes[raw] \in Seq(Byte)
  BY UnescapeEscapes, EscapesDef
<1>5. WellFormed(raw) /\ Parsed(raw) = Content(msg)
  BY <1>2, Understood
<1>6. Content(msg) \in [id : Byte, serial : Byte, body : Seq(Byte)]
  BY MessageTyped
<1> QED
  BY <1>1, <1>2, <1>3, <1>4, <1>5, <1>6 DEF Frame

\* A larger set holds what a smaller one does.
LEMMA HoldsMore ==
  ASSUME NEW buf, NEW F, NEW G, F \subseteq G, Holds(buf, F) PROVE Holds(buf, G)
BY DEF Holds

\* Entries of the stream read to their end hold only their frames' contents,
\* and end with a flag.
LEMMA WholeEntriesHold ==
  ASSUME sent \in Seq(Message), stream \in Seq(Seq(Byte)), StreamInv
  PROVE  \A n \in Nat : n <= Len(stream) =>
           LET b == Joined[SubSeq(stream, 1, n)]
           IN /\ b \in Seq(Byte) /\ Holds(b, FramesOf(Read0 + 1, Read0 + n))
              /\ IF n = 0 THEN b = <<>> ELSE b[Len(b)] = Flag
<1> DEFINE B(n) == Joined[SubSeq(stream, 1, n)]
           Ok(n) == /\ B(n) \in Seq(Byte) /\ Holds(B(n), FramesOf(Read0 + 1, Read0 + n))
                    /\ IF n = 0 THEN B(n) = <<>> ELSE B(n)[Len(B(n))] = Flag
           T == { n \in Nat : n <= Len(stream) => Ok(n) }
<1>1. Len(stream) \in Nat /\ Len(sent) \in Nat
  BY LenIsNat
<1>2. PICK k \in Nat : k = Read0
  BY <1>1 DEF StreamInv, Read0
<1>3. Ok(0)
  <2>1. SubSeq(stream, 1, 0) = <<>>
    BY SubSeqEmpty
  <2>2. <<>> \in Seq(Seq(Byte)) /\ <<>> \in Seq(Byte)
    BY EmptySeq
  <2>3. B(0) = <<>>
    BY <2>1, <2>2, JoinedDef
  <2>4. \A F : Holds(<<>>, F)
    <3>1. \A p \in 1..Len(<<>>) : FALSE
      OBVIOUS
    <3> QED
      BY <3>1 DEF Holds
  <2> HIDE DEF B
  <2> QED
    BY <2>2, <2>3, <2>4
<1>4. ASSUME NEW n \in Nat, n + 1 <= Len(stream), Ok(n) PROVE Ok(n + 1)
  <2>1. n \in 0..Len(stream) /\ n + 1 \in 1..Len(stream)
    BY <1>1, <1>4
  <2>2. B(n + 1) = B(n) \o stream[n + 1]
    <3>1. PICK u \in Seq(Seq(Byte)) : u = SubSeq(stream, 1, n)
      <4>1. 1 \in 1..(Len(stream) + 1) /\ n \in (1 - 1)..Len(stream)
        BY <1>1, <2>1
      <4> QED
        BY <4>1, Part
    <3>2. PICK e \in Seq(Byte) : e = stream[n + 1]
      BY <2>1, ElementOfSeq
    <3>3. PICK x \in Seq(Seq(Byte)) : x = SubSeq(stream, 1, n + 1)
      <4>1. 1 \in 1..(Len(stream) + 1) /\ n + 1 \in (1 - 1)..Len(stream)
        BY <1>1, <2>1
      <4> QED
        BY <4>1, Part
    <3>4. x = u \o <<e>>
      <4>1. 1 \in 1..Len(stream) /\ n + 1 \in 1..Len(stream) /\ n + 1 - 1 = n
        BY <1>1, <2>1
      <4>2. SubSeq(stream, 1, n + 1) = SubSeq(stream, 1, n + 1 - 1) \o << stream[n + 1] >>
        BY <4>1, SubSeqRecursiveSecond, SMTT(40)
      <4> QED
        BY <4>1, <4>2, <3>1, <3>2, <3>3
    <3>5. x # <<>> /\ Front(x) = u /\ Last(x) = e
      BY <3>4, FrontJoint
    <3>6. Joined[x] = Joined[u] \o e
      BY <3>5, JoinedDef
    <3> QED
      BY <3>1, <3>2, <3>3, <3>6
  <2>3. PICK b \in Seq(Byte) : b = B(n)
    BY <1>4
  <2>4. Holds(b, FramesOf(k + 1, k + n)) /\ (IF n = 0 THEN b = <<>> ELSE b[Len(b)] = Flag)
    BY <1>2, <1>4, <2>3
  <2>5. PICK j \in 1..Len(sent) : j = k + (n + 1)
    <3>1. PICK ls \in Nat, lt \in Nat : ls = Len(sent) /\ lt = Len(stream)
      BY <1>1
    <3>2. k = ls - lt /\ n + 1 <= lt
      BY <1>2, <1>4, <3>1 DEF Read0
    <3>3. k + (n + 1) \in 1..ls
      BY <3>2
    <3> QED
      BY <3>1, <3>3
  <2>6. PICK w \in Seq(Byte) : w = Frame(j) /\ IsFrame(w)
    BY FrameOfSent DEF IsFrame
  <2>7. PICK a \in 1..Len(w) : (n + 1 > 1 => a = 1) /\ stream[n + 1] = SubSeq(w, a, Len(w))
    BY <1>2, <2>1, <2>5, <2>6 DEF StreamInv
  <2>8. PICK F : F = FramesOf(k + 1, k + (n + 1))
    OBVIOUS
  <2>9. Holds(b, F)
    <3>1. FramesOf(k + 1, k + n) \subseteq F
      BY <2>8 DEF FramesOf
    <3> QED
      BY <3>1, <2>4, HoldsMore
  <2>10. Inside(w) \in F
    <3>1. j \in (k + 1)..(k + (n + 1))
      BY <2>5
    <3> QED
      BY <3>1, <2>6, <2>8 DEF FramesOf
  <2>11. PICK l \in Nat : l = Len(w) /\ l >= 4 /\ w[l] = Flag
    BY <2>6, LenIsNat DEF IsFrame
  <2>12. n = 0 \/ a = 1
    BY <2>7
  <2>13. Holds(b \o SubSeq(w, a, Len(w)), F)
    <3>1. Len(w) \in a..Len(w)
      BY <2>11
    <3> QED
      BY <3>1, <2>4, <2>6, <2>9, <2>10, <2>12, JointHolds
  <2>14. PICK v \in Seq(Byte) : v = SubSeq(w, a, Len(w)) /\ Len(v) = l - a + 1
            /\ \A i \in 1..(l - a + 1) : v[i] = w[a + i - 1]
    <3>1. a \in 1..(Len(w) + 1) /\ Len(w) \in (a - 1)..Len(w)
      BY <2>11
    <3>2. /\ SubSeq(w, a, Len(w)) \in Seq(Byte) /\ Len(SubSeq(w, a, Len(w))) = Len(w) - a + 1
          /\ \A i \in 1..(Len(w) - a + 1) : SubSeq(w, a, Len(w))[i] = w[a + i - 1]
      BY <3>1, Part
    <3> QED
      BY <3>2, <2>11
  <2>15. PICK lv \in Nat : lv = Len(v) /\ lv >= 1 /\ v[lv] = Flag
    <3>0. a \in 1..l
      BY <2>11
    <3>1. PICK i \in 1..(l - a + 1) : i = l - a + 1 /\ a + i - 1 = l
      BY <3>0
    <3>2. v[i] = w[a + i - 1]
      BY <2>14
    <3>3. Len(v) = i /\ i \in Nat /\ i >= 1
      BY <2>14, <3>1, <3>0
    <3> QED
      BY <3>1, <3>2, <3>3, <2>11
  <2>16. PICK x \in Seq(Byte) : x = b \o v
    BY ConcatProperties
  <2>17. x[Len(x)] = Flag
    <3>1. Len(x) = Len(b) + Len(v) /\ (\A i \in 1..Len(v) : x[Len(b) + i] = v[i])
      BY <2>16, Joint
    <3>2. lv \in 1..Len(v)
      BY <2>15
    <3> QED
      BY <3>1, <3>2, <2>15
  <2>18. B(n + 1) = x
    BY <2>2, <2>3, <2>7, <2>14, <2>16
  <2>19. n + 1 # 0
    OBVIOUS
  <2> HIDE DEF B
  <2> QED
    BY <2>13, <2>14, <2>16, <2>17, <2>18, <2>19, <2>8, <1>2
<1>5. 0 \in T
  BY <1>3
<1>6. ASSUME NEW n \in Nat, n \in T PROVE n + 1 \in T
  <2> HIDE DEF Ok
  <2>1. n + 1 <= Len(stream) => n <= Len(stream)
    BY <1>1
  <2> QED
    BY <1>4, <1>6, <2>1
<1>7. \A n \in Nat : n \in T
  <2> HIDE DEF T
  <2> QED
    BY <1>5, <1>6, SetInduction
<1>8. \A n \in Nat : n <= Len(stream) => Ok(n)
  <2> HIDE DEF Ok
  <2> QED
    BY <1>7
<1> QED
  BY <1>8, Zenon

-----------------------------------------------------------------------------
(* A read hands over at most one message, one of those it reads to the end *)

\* What ProtocolParse does with a well formed message.
Dispatch(msg) ==
  /\ handled' = Append(handled, msg)
  /\ IF msg.id = AuthOk THEN auth' = TRUE /\ UNCHANGED <<serial, answers>>
     ELSE Answer(msg) /\ UNCHANGED auth

\* The last frame a read gets to the end.
LastWhole(count, cut) ==
  IF cut = Len(stream[count]) THEN Read0 + count ELSE Read0 + count - 1

\* The bytes of a read.
BytesOf(count, cut) ==
  Joined[SubSeq(stream, 1, count - 1)] \o SubSeq(stream[count], 1, cut)

\* A read holds only contents of frames it gets to the end.
LEMMA BytesHold ==
  ASSUME sent \in Seq(Message), stream \in Seq(Seq(Byte)), StreamInv,
         NEW count \in 1..Len(stream), NEW cut \in 1..Len(stream[count])
  PROVE  /\ BytesOf(count, cut) \in Seq(Byte)
         /\ Holds(BytesOf(count, cut), FramesOf(Read0 + 1, LastWhole(count, cut)))
<1>1. Len(stream) \in Nat /\ Len(sent) \in Nat
  BY LenIsNat
<1>2. PICK k \in Nat : k = Read0
  <2>1. PICK ls \in Nat, lt \in Nat : ls = Len(sent) /\ lt = Len(stream)
    BY <1>1
  <2>2. lt <= ls
    BY <2>1 DEF StreamInv
  <2>3. ls - lt \in Nat
    BY <2>2
  <2> QED
    BY <2>1, <2>3 DEF Read0
<1>3. PICK n \in Nat : n = count - 1 /\ n <= Len(stream) /\ n + 1 = count /\ n + 1 <= Len(stream)
  BY <1>1
<1>4. PICK b \in Seq(Byte) : b = Joined[SubSeq(stream, 1, n)]
        /\ Holds(b, FramesOf(k + 1, k + n)) /\ IF n = 0 THEN b = <<>> ELSE b[Len(b)] = Flag
  BY <1>2, <1>3, WholeEntriesHold
<1>5. PICK j \in 1..Len(sent) : j = k + count
  <2>1. PICK ls \in Nat, lt \in Nat : ls = Len(sent) /\ lt = Len(stream)
    BY <1>1
  <2>2. k = ls - lt /\ count \in 1..lt
    BY <1>2, <2>1 DEF Read0
  <2>3. k + count \in 1..ls
    BY <2>2
  <2> QED
    BY <2>1, <2>3
<1>6. PICK w \in Seq(Byte) : w = Frame(j) /\ IsFrame(w)
  BY FrameOfSent DEF IsFrame
<1>7. PICK a \in 1..Len(w) : (count > 1 => a = 1) /\ stream[count] = SubSeq(w, a, Len(w))
  BY <1>2, <1>5, <1>6 DEF StreamInv
<1>8. PICK l \in Nat : l = Len(w)
  BY <1>6, LenIsNat
<1>9. a \in 1..l
  BY <1>8
<1>10. Len(stream[count]) = l - a + 1
  <2>1. a \in 1..(Len(w) + 1) /\ Len(w) \in (a - 1)..Len(w)
    BY <1>8, <1>9
  <2>2. Len(SubSeq(w, a, Len(w))) = Len(w) - a + 1
    BY <2>1, Part
  <2> QED
    BY <2>2, <1>7, <1>8
<1>11. cut \in 1..(l - a + 1)
  BY <1>10
<1>12. PICK c \in a..l : c = a + cut - 1 /\ c \in a..Len(w)
  BY <1>8, <1>9, <1>11
<1>13. SubSeq(stream[count], 1, cut) = SubSeq(w, a, c)
  <2>1. a \in 1..Len(w) /\ Len(w) \in 1..Len(w) /\ 1 \in 1..(Len(w) - a + 1)
        /\ cut \in 1..(Len(w) - a + 1)
    BY <1>8, <1>9, <1>11
  <2>2. SubSeq(SubSeq(w, a, Len(w)), 1, cut) = SubSeq(w, a + 1 - 1, a + cut - 1)
    BY <2>1, SubSeqOfSubSeq
  <2>3. a + 1 - 1 = a
    BY <1>9
  <2> QED
    BY <2>2, <2>3, <1>7, <1>12
<1>14. PICK hi \in Int : hi = LastWhole(count, cut)
         /\ hi = IF cut = l - a + 1 THEN k + count ELSE k + count - 1
  BY <1>1, <1>2, <1>10 DEF LastWhole
<1>15. PICK F : F = FramesOf(k + 1, hi)
  OBVIOUS
<1>16. Holds(b, F)
  <2>1. k + n <= hi
    BY <1>3, <1>14
  <2>2. FramesOf(k + 1, k + n) \subseteq F
    BY <2>1, <1>15 DEF FramesOf
  <2> QED
    BY <2>2, <1>4, HoldsMore
<1>17. a = 1 /\ c = Len(w) => Inside(w) \in F
  <2> SUFFICES ASSUME a = 1, c = Len(w) PROVE Inside(w) \in F
    OBVIOUS
  <2>1. cut = l - a + 1
    BY <1>8, <1>12, <1>11
  <2>2. j \in (k + 1)..hi
    BY <2>1, <1>5, <1>14, <1>1
  <2> QED
    BY <2>2, <1>6, <1>15 DEF FramesOf
<1>18. (b = <<>> \/ b[Len(b)] = Flag) /\ (b = <<>> \/ a = 1)
  BY <1>3, <1>4, <1>7, SMTT(40)
<1>19. Holds(b \o SubSeq(w, a, c), F)
  <2>1. IsFrame(w) /\ c \in a..Len(w)
    BY <1>6, <1>12
  <2> QED
    BY <2>1, <1>16, <1>17, <1>18, JointHolds, ZenonT(30)
<1>20. SubSeq(w, a, c) \in Seq(Byte)
  <2>1. a \in 1..(Len(w) + 1) /\ c \in (a - 1)..Len(w)
    BY <1>8, <1>9, <1>12
  <2> QED
    BY <2>1, Part
<1>21. b \o SubSeq(w, a, c) \in Seq(Byte)
  BY <1>20, ConcatProperties
<1>22. BytesOf(count, cut) = b \o SubSeq(w, a, c)
  BY <1>3, <1>4, <1>13 DEF BytesOf
<1> QED
  BY <1>2, <1>14, <1>15, <1>19, <1>21, <1>22

\* What is left in the buffer is the end of the bytes that were read.
LEMMA InBufferPart ==
  ASSUME NEW bytes \in Seq(Byte)
  PROVE  \E m \in 1..(Len(bytes) + 1) : InBuffer(bytes) = SubSeq(bytes, m, Len(bytes))
<1>1. PICK l \in Nat : l = Len(bytes)
  BY LenIsNat
<1>2. PICK r \in Nat : r = RecvBufferLen /\ r # 0
  BY PayloadAssumption
<1>3. PICK x \in 0..l : x = l % r
  <2>1. l % r \in Nat /\ l % r <= l
    BY <1>2
  <2> QED
    BY <2>1, SMTT(40)
<1>4. InBuffer(bytes) = SubSeq(bytes, l - x + 1, l)
  BY <1>1, <1>2, <1>3 DEF InBuffer
<1>5. PICK m \in 1..(l + 1) : m = l - x + 1
  OBVIOUS
<1> QED
  BY <1>1, <1>4, <1>5

\* A read changes nothing else, or gives one message, of a frame that was not
\* read before, to its handler.
LEMMA ReadOne ==
  ASSUME sent \in Seq(Message), stream \in Seq(Seq(Byte)), StreamInv,
         NEW count \in 1..Len(stream), NEW cut \in 1..Len(stream[count]),
         Read(count, cut)
  PROVE  \/ UNCHANGED <<handled, auth, serial, answers>>
         \/ \E j \in (Read0 + 1)..LastWhole(count, cut) :
              j \in 1..Len(sent) /\ Dispatch(Content(sent[j]))
<1>1. PICK bytes \in Seq(Byte) : bytes = BytesOf(count, cut)
        /\ Holds(bytes, FramesOf(Read0 + 1, LastWhole(count, cut)))
  BY BytesHold
<1>2. PICK F : F = FramesOf(Read0 + 1, LastWhole(count, cut))
  OBVIOUS
<1>3. PICK m \in 1..(Len(bytes) + 1) : InBuffer(bytes) = SubSeq(bytes, m, Len(bytes))
  BY InBufferPart
<1>4. PICK buf \in Seq(Byte) : buf = InBuffer(bytes) /\ Holds(buf, F)
  <2>1. PICK l \in Nat : l = Len(bytes)
    BY LenIsNat
  <2>2. m \in 1..(Len(bytes) + 1) /\ Len(bytes) \in (m - 1)..Len(bytes)
    BY <2>1
  <2>3. SubSeq(bytes, m, Len(bytes)) \in Seq(Byte)
    BY <2>2, Part
  <2>4. Holds(SubSeq(bytes, m, Len(bytes)), F)
    BY <2>2, <1>1, <1>2, PieceHolds
  <2> QED
    BY <2>3, <2>4, <1>3
<1>5. PICK frame : frame = CheckRecvData(buf)
  OBVIOUS
<1>6. ProtocolParse(frame)
  BY <1>1, <1>4, <1>5 DEF Read, BytesOf
<1>7. frame \in F \cup {<<>>}
  BY <1>4, <1>5, FoundFrame
<1>8. CASE frame = <<>>
  <2>1. unTransMean[<<>>] = <<>>
    <3>1. <<>> \in Seq(Byte) /\ Len(<<>>) = 0
      BY EmptySeq
    <3>2. Len(<<>>) < 2
      BY <3>1
    <3> QED
      BY <3>1, <3>2, UnescapeStep
  <2>2. ~WellFormed(<<>>)
    <3>1. ~(Len(<<>>) > 0)
      OBVIOUS
    <3> QED
      BY <3>1 DEF WellFormed
  <2> QED
    BY <2>1, <2>2, <1>6, <1>8 DEF ProtocolParse
<1>9. CASE frame \in F
  <2>1. PICK j \in (Read0 + 1)..LastWhole(count, cut) : frame = Inside(Frame(j))
    BY <1>9, <1>2 DEF FramesOf
  <2>2. j \in 1..Len(sent)
    <3>1. PICK ls \in Nat, lt \in Nat : ls = Len(sent) /\ lt = Len(stream)
      BY LenIsNat
    <3>2. lt <= ls /\ count \in 1..lt
      BY <3>1 DEF StreamInv
    <3>3. Read0 = ls - lt /\ Read0 \in Nat
      BY <3>1, <3>2 DEF Read0
    <3>4. PICK hi \in Int : hi = LastWhole(count, cut) /\ hi <= Read0 + count
      <4>1. PICK k \in Nat : k = Read0
        BY <3>3
      <4>2. k + count \in Int /\ k + count - 1 \in Int /\ k + count - 1 <= k + count
        BY <3>2
      <4> QED
        BY <4>1, <4>2 DEF LastWhole
    <3>5. j \in (Read0 + 1)..hi
      BY <3>4
    <3> QED
      BY <3>1, <3>2, <3>3, <3>4, <3>5
  <2>3. unTransMean[frame] = Raw(sent[j]) /\ WellFormed(Raw(sent[j]))
        /\ Parsed(Raw(sent[j])) = Content(sent[j])
    BY <2>1, <2>2, FrameOfSent
  <2>4. PICK msg : msg = Content(sent[j])
    OBVIOUS
  <2>5. Dispatch(msg)
    BY <1>6, <2>3, <2>4 DEF ProtocolParse, Dispatch
  <2> QED
    BY <2>1, <2>2, <2>4, <2>5
<1> QED
  BY <1>7, <1>8, <1>9

-----------------------------------------------------------------------------
(* The stream after a step                                                 *)

\* Frame and StreamInv for a stream and messages that are given.
FrameAt(s, j) == OnWire(Raw(s[j]))

\* The stream t is what is left of the frames of s.
Fits(s, t) ==
  /\ Len(t) <= Len(s)
  /\ \A i \in 1..Len(t) :
       \E a \in 1..Len(FrameAt(s, Len(s) - Len(t) + i)) :
         /\ i > 1 => a = 1
         /\ t[i] = SubSeq(FrameAt(s, Len(s) - Len(t) + i), a,
                          Len(FrameAt(s, Len(s) - Len(t) + i)))

\* Fits says of the state what StreamInv says.
LEMMA StreamFits == StreamInv <=> Fits(sent, stream)
BY DEF StreamInv, Fits, Frame, FrameAt, Read0

\* The frame of a message, and what the device finds in it.
LEMMA MessageFrame ==
  ASSUME NEW msg \in Message
  PROVE  IsFrame(OnWire(Raw(msg))) /\ unTransMean[Inside(OnWire(Raw(msg)))] = Raw(msg)
<1>1. PICK raw \in Seq(Byte) : raw = Raw(msg) /\ Len(raw) >= 2
  <2>1. Raw(msg) \in Seq(Byte) /\ Len(Raw(msg)) >= 4
    BY RawShape
  <2>2. Len(Raw(msg)) >= 2
    BY <2>1, LenIsNat
  <2> QED
    BY <2>1, <2>2
<1>2. IsFrame(OnWire(raw)) /\ Inside(OnWire(raw)) = Escapes[raw]
  BY <1>1, OnWireIsFrame
<1> QED
  BY <1>1, <1>2, UnescapeEscapes

\* Sending keeps Fits.
LEMMA FitsAppend ==
  ASSUME NEW s \in Seq(Message), NEW t \in Seq(Seq(Byte)), Fits(s, t), NEW msg \in Message
  PROVE  Fits(Append(s, msg), Append(t, OnWire(Raw(msg))))
<1>1. PICK w \in Seq(Byte) : w = OnWire(Raw(msg)) /\ Len(w) >= 4
  BY MessageFrame DEF IsFrame
<1>2. PICK s2 \in Seq(Message), t2 \in Seq(Seq(Byte)) :
        s2 = Append(s, msg) /\ t2 = Append(t, w)
  BY AppendProperties
<1>3. PICK ls \in Nat, lt \in Nat : ls = Len(s) /\ lt = Len(t)
  BY LenIsNat
<1>4. Len(s2) = ls + 1 /\ s2[ls + 1] = msg /\ \A i \in 1..ls : s2[i] = s[i]
  BY <1>2, <1>3, AppendProperties
<1>5. Len(t2) = lt + 1 /\ t2[lt + 1] = w /\ \A i \in 1..lt : t2[i] = t[i]
  BY <1>2, <1>3, AppendProperties
<1>6. lt <= ls
  BY <1>3 DEF Fits
<1>7. PICK k \in Nat : k = ls - lt /\ (ls + 1) - (lt + 1) = k
  BY <1>6
<1>8. ASSUME NEW i \in 1..(lt + 1)
      PROVE  \E a \in 1..Len(FrameAt(s2, k + i)) :
         /\ i > 1 => a = 1
         /\ t2[i] = SubSeq(FrameAt(s2, k + i), a, Len(FrameAt(s2, k + i)))
  <2>1. CASE i <= lt
    <3>1. i \in 1..lt /\ k + i \in 1..ls
      BY <2>1, <1>6, <1>7
    <3>2. FrameAt(s2, k + i) = FrameAt(s, k + i) /\ t2[i] = t[i]
      BY <3>1, <1>4, <1>5 DEF FrameAt
    <3>3. \E a \in 1..Len(FrameAt(s, k + i)) :
           /\ i > 1 => a = 1
           /\ t[i] = SubSeq(FrameAt(s, k + i), a, Len(FrameAt(s, k + i)))
      BY <3>1, <1>3, <1>7 DEF Fits
    <3> QED
      BY <3>2, <3>3
  <2>2. CASE ~(i <= lt)
    <3>1. i = lt + 1 /\ k + i = ls + 1
      BY <2>2, <1>6, <1>7
    <3>2. FrameAt(s2, k + i) = w /\ t2[i] = w
      BY <3>1, <1>1, <1>4, <1>5 DEF FrameAt
    <3>3. SubSeq(w, 1, Len(w)) = w
      BY SubSeqFull
    <3>4. 1 \in 1..Len(w)
      BY <1>1, LenIsNat
    <3> QED
      BY <3>2, <3>3, <3>4
  <2> QED
    BY <2>1, <2>2
<1>9. Len(t2) <= Len(s2)
  BY <1>4, <1>5, <1>6
<1>10. Fits(s2, t2)
  BY <1>4, <1>5, <1>7, <1>8, <1>9 DEF Fits
<1> QED
  BY <1>1, <1>2, <1>10

\* The stream after a read.
Left(t, count, cut) ==
  (IF cut = Len(t[count]) THEN <<>> ELSE <<SubSeq(t[count], cut + 1, Len(t[count]))>>)
  \o SubSeq(t, count + 1, Len(t))

\* The elements of the stream after a read.
LEMMA LeftShape ==
  ASSUME NEW t \in Seq(Seq(Byte)), NEW count \in 1..Len(t), NEW cut \in 1..Len(t[count])
  PROVE  /\ Left(t, count, cut) \in Seq(Seq(Byte))
         /\ cut = Len(t[count]) =>
              /\ Len(Left(t, count, cut)) = Len(t) - count
              /\ \A i \in 1..(Len(t) - count) : Left(t, count, cut)[i] = t[count + i]
         /\ cut # Len(t[count]) =>
              /\ Len(Left(t, count, cut)) = Len(t) - count + 1
              /\ Left(t, count, cut)[1] = SubSeq(t[count], cut + 1, Len(t[count]))
              /\ \A i \in 2..(Len(t) - count + 1) : Left(t, count, cut)[i] = t[count + i - 1]
<1>1. PICK lt \in Nat : lt = Len(t)
  BY LenIsNat
<1>2. PICK e \in Seq(Byte) : e = t[count]
  BY ElementOfSeq
<1>3. PICK le \in Nat : le = Len(e) /\ cut \in 1..le
  BY <1>2, LenIsNat
<1>4. count \in 1..lt
  BY <1>1
<1>5. PICK v \in Seq(Seq(Byte)) : /\ v = SubSeq(t, count + 1, Len(t))
          /\ Len(v) = lt - count
          /\ \A i \in 1..(lt - count) : v[i] = t[count + i]
  <2>1. PICK m \in 1..(lt + 1) : m = count + 1
    BY <1>4
  <2>2. m \in 1..(Len(t) + 1) /\ Len(t) \in (m - 1)..Len(t)
    BY <1>1, <1>4, <2>1
  <2>3. SubSeq(t, m, Len(t)) \in Seq(Seq(Byte)) /\ Len(SubSeq(t, m, Len(t))) = Len(t) - m + 1
        /\ \A i \in 1..(Len(t) - m + 1) : SubSeq(t, m, Len(t))[i] = t[m + i - 1]
    BY <2>2, Part, SMTT(40)
  <2>4. PICK x \in Seq(Seq(Byte)) : x = SubSeq(t, m, Len(t))
    BY <2>3
  <2>5. Len(x) = lt - count
    <3>1. lt - m + 1 = lt - count
      BY <2>1, <1>4
    <3> QED
      BY <3>1, <2>3, <2>4, <1>1
  <2>6. ASSUME NEW i \in 1..(lt - count) PROVE x[i] = t[count + i]
    <3>1. i \in 1..(lt - m + 1) /\ m + i - 1 = count + i
      BY <2>1, <1>4
    <3> QED
      BY <3>1, <2>3, <2>4, <1>1
  <2> QED
    BY <2>1, <2>4, <2>5, <2>6
<1>6. CASE cut = Len(t[count])
  <2>1. Left(t, count, cut) = <<>> \o v
    BY <1>5, <1>6 DEF Left
  <2>2. Left(t, count, cut) = v
    BY <2>1, ConcatEmptySeq
  <2> QED
    BY <2>2, <1>1, <1>5, <1>6
<1>7. CASE cut # Len(t[count])
  <2>1. PICK r \in Seq(Byte) : r = SubSeq(e, cut + 1, Len(e))
    <3>1. PICK m \in 1..(le + 1) : m = cut + 1
      BY <1>3
    <3>2. m \in 1..(Len(e) + 1) /\ Len(e) \in (m - 1)..Len(e)
      BY <1>3, <3>1
    <3>3. SubSeq(e, m, Len(e)) \in Seq(Byte)
      BY <3>2, Part
    <3> QED
      BY <3>1, <3>3
  <2>2. PICK h \in Seq(Seq(Byte)) : h = <<r>> /\ Len(h) = 1 /\ h[1] = r
    BY FrontJoint
  <2>3. PICK u \in Seq(Seq(Byte)) : u = h \o v
    BY ConcatProperties
  <2>4. Left(t, count, cut) = u
    BY <1>2, <1>5, <1>7, <2>1, <2>2, <2>3 DEF Left
  <2>5. Len(u) = 1 + (lt - count) /\ u[1] = r /\ \A i \in 1..(lt - count) : u[1 + i] = v[i]
    <3>1. Len(u) = Len(h) + Len(v) /\ (\A i \in 1..Len(h) : u[i] = h[i])
          /\ \A i \in 1..Len(v) : u[Len(h) + i] = v[i]
      <4>0. PICK S : S = Seq(Byte)
        OBVIOUS
      <4>1. h \in Seq(S) /\ v \in Seq(S)
        BY <4>0
      <4>2. Len(h \o v) = Len(h) + Len(v) /\ (\A i \in 1..Len(h) : (h \o v)[i] = h[i])
          /\ \A i \in 1..Len(v) : (h \o v)[Len(h) + i] = v[i]
        <5> HIDE <2>2, <2>3
        <5> QED
          BY <4>1, Joint, ZenonT(40)
      <4> QED
        BY <4>2, <2>3
    <3>2. 1 \in 1..Len(h)
      BY <2>2
    <3> QED
      BY <3>1, <3>2, <2>2, <1>5
  <2>6. 1 + (lt - count) = lt - count + 1
    BY <1>4
  <2>7. ASSUME NEW i \in 2..(lt - count + 1) PROVE u[i] = t[count + i - 1]
    <3>1. PICK j \in 1..(lt - count) : j = i - 1 /\ 1 + j = i /\ count + j = count + i - 1
      BY <1>4
    <3> QED
      BY <3>1, <2>5, <1>5
  <2> QED
    BY <2>1, <2>4, <2>5, <2>6, <2>7, <1>1, <1>2, <1>7
<1> QED
  BY <1>6, <1>7

\* No entry is empty.
NoneEmpty(t) == \A i \in 1..Len(t) : t[i] # <<>>

\* NoneEmpty says what TypeOK says.
LEMMA RangeNoneEmpty ==
  ASSUME NEW t \in Seq(Seq(Byte)) PROVE <<>> \notin Range(t) <=> NoneEmpty(t)
<1>1. DOMAIN t = 1..Len(t)
  BY LenProperties
<1> QED
  BY <1>1 DEF Range, NoneEmpty

\* Reading keeps Fits, and counts the frames read to the end.
LEMMA FitsLeft ==
  ASSUME NEW s \in Seq(Message), NEW t \in Seq(Seq(Byte)), Fits(s, t), NoneEmpty(t),
         NEW count \in 1..Len(t), NEW cut \in 1..Len(t[count])
  PROVE  /\ Left(t, count, cut) \in Seq(Seq(Byte))
         /\ NoneEmpty(Left(t, count, cut)) /\ Fits(s, Left(t, count, cut))
         /\ Len(s) - Len(Left(t, count, cut)) =
              Len(s) - Len(t) + (IF cut = Len(t[count]) THEN count ELSE count - 1)
<1>1. PICK ls \in Nat, lt \in Nat : ls = Len(s) /\ lt = Len(t)
  BY LenIsNat
<1>2. lt <= ls /\ count \in 1..lt
  BY <1>1 DEF Fits
<1>3. PICK k \in Nat : k = ls - lt
  BY <1>2
<1>4. PICK u \in Seq(Seq(Byte)) : u = Left(t, count, cut)
  BY LeftShape
<1>5. \A i \in 1..lt : \E a \in 1..Len(FrameAt(s, k + i)) :
        /\ i > 1 => a = 1
        /\ t[i] = SubSeq(FrameAt(s, k + i), a, Len(FrameAt(s, k + i)))
  BY <1>1, <1>3 DEF Fits
<1>6. CASE cut = Len(t[count])
  <2>1. Len(u) = lt - count /\ \A i \in 1..(lt - count) : u[i] = t[count + i]
    BY <1>1, <1>4, <1>6, LeftShape
  <2>2. Len(u) <= ls /\ ls - Len(u) = k + count
    BY <2>1, <1>2, <1>3
  <2>3. ASSUME NEW i \in 1..(lt - count)
        PROVE  u[i] # <<>> /\ \E a \in 1..Len(FrameAt(s, k + count + i)) :
                 /\ i > 1 => a = 1
                 /\ u[i] = SubSeq(FrameAt(s, k + count + i), a, Len(FrameAt(s, k + count + i)))
    <3>1. PICK j \in 1..lt : j = count + i /\ j > 1 /\ k + j = k + count + i
      BY <1>2, <1>3
    <3>2. u[i] = t[j]
      BY <2>1, <3>1
    <3>3. PICK a \in 1..Len(FrameAt(s, k + j)) :
            /\ j > 1 => a = 1
            /\ t[j] = SubSeq(FrameAt(s, k + j), a, Len(FrameAt(s, k + j)))
      BY <1>5
    <3>4. u[i] # <<>>
      BY <3>2, <1>1 DEF NoneEmpty
    <3> QED
      BY <3>1, <3>2, <3>3, <3>4
  <2>4. Fits(s, u) /\ NoneEmpty(u)
    BY <2>1, <2>2, <2>3, <1>1 DEF Fits, NoneEmpty
  <2>5. Len(s) - Len(u) = Len(s) - Len(t) + count
    BY <2>2, <1>1, <1>3
  <2> QED
    BY <2>4, <2>5, <1>4, <1>6
<1>7. CASE cut # Len(t[count])
  <2>1. Len(u) = lt - count + 1 /\ u[1] = SubSeq(t[count], cut + 1, Len(t[count]))
        /\ \A i \in 2..(lt - count + 1) : u[i] = t[count + i - 1]
    BY <1>1, <1>4, <1>7, LeftShape
  <2>2. Len(u) <= ls /\ ls - Len(u) = k + count - 1
    BY <2>1, <1>2, <1>3
  <2>3. PICK w \in Seq(Byte) : w = FrameAt(s, k + count)
    <3>1. k + count \in 1..Len(s)
      BY <1>1, <1>2, <1>3
    <3>2. s[k + count] \in Message
      BY <3>1, ElementOfSeq
    <3> QED
      BY <3>2, MessageFrame DEF FrameAt, IsFrame
  <2>4. PICK a \in 1..Len(w) : t[count] = SubSeq(w, a, Len(w))
    BY <1>2, <1>5, <2>3
  <2>5. PICK l \in Nat : l = Len(w) /\ a \in 1..l
    BY LenIsNat
  <2>6. Len(t[count]) = l - a + 1
    <3>1. a \in 1..(Len(w) + 1) /\ Len(w) \in (a - 1)..Len(w)
      BY <2>5
    <3>2. Len(SubSeq(w, a, Len(w))) = Len(w) - a + 1
      BY <3>1, Part
    <3> QED
      BY <3>2, <2>4, <2>5
  <2>7. cut \in 1..(l - a + 1) /\ cut < l - a + 1
    <3>1. cut \in 1..(l - a + 1) /\ cut # l - a + 1
      BY <2>6, <1>7
    <3>2. PICK n \in Nat : n = l - a + 1
      <4>1. PICK x \in 1..l : x = a
        BY <2>5
      <4>2. l - x + 1 \in Nat
        BY <4>1
      <4> QED
        BY <4>1, <4>2
    <3>3. cut \in 1..n /\ cut # n
      BY <3>1, <3>2
    <3>4. cut < n
      BY <3>3
    <3> QED
      BY <3>1, <3>2, <3>4
  <2>8. PICK b \in 1..l : b = a + cut
    BY <2>5, <2>7
  <2>9. u[1] = SubSeq(w, b, Len(w))
    <3>1. PICK y \in 1..(l - a + 1), z \in 1..(l - a + 1) :
            y = cut + 1 /\ z = l - a + 1 /\ a + y - 1 = b /\ a + z - 1 = l
      <4>1. a \in 1..l /\ cut \in 1..(l - a + 1) /\ cut < l - a + 1 /\ b = a + cut
        BY <2>5, <2>7, <2>8
      <4>2. cut + 1 \in 1..(l - a + 1) /\ l - a + 1 \in 1..(l - a + 1)
        BY <4>1
      <4>3. a + (cut + 1) - 1 = b /\ a + (l - a + 1) - 1 = l
        BY <4>1
      <4> QED
        BY <4>2, <4>3
    <3>2. a \in 1..Len(w) /\ Len(w) \in 1..Len(w) /\ y \in 1..(Len(w) - a + 1)
          /\ z \in 1..(Len(w) - a + 1)
      BY <2>5, <3>1
    <3>3. SubSeq(SubSeq(w, a, Len(w)), y, z) = SubSeq(w, a + y - 1, a + z - 1)
      BY <3>2, SubSeqOfSubSeq
    <3> QED
      BY <3>1, <3>3, <2>1, <2>4, <2>5, <2>6
  <2>10. u[1] # <<>>
    <3>1. b \in 1..(Len(w) + 1) /\ Len(w) \in (b - 1)..Len(w)
      BY <2>5
    <3>2. Len(SubSeq(w, b, Len(w))) = Len(w) - b + 1
      BY <3>1, Part, ZenonT(40)
    <3>3. l - b + 1 # 0
      OBVIOUS
    <3> QED
      BY <3>2, <3>3, <2>5, <2>9, EmptySeq
  <2>11. ASSUME NEW i \in 1..(lt - count + 1)
        PROVE  u[i] # <<>> /\ \E d \in 1..Len(FrameAt(s, k + count - 1 + i)) :
                 /\ i > 1 => d = 1
                 /\ u[i] = SubSeq(FrameAt(s, k + count - 1 + i), d,
                                  Len(FrameAt(s, k + count - 1 + i)))
    <3>1. CASE i = 1
      <4>1. k + count - 1 + i = k + count /\ ~(i > 1)
        BY <3>1, <1>2, <1>3
      <4>2. b \in 1..Len(w)
        BY <2>5
      <4> QED
        BY <4>1, <4>2, <2>3, <2>9, <2>10, <3>1
    <3>2. CASE i # 1
      <4>1. PICK j \in 1..lt : j = count + i - 1 /\ j > 1 /\ k + j = k + count - 1 + i
        BY <1>2, <1>3, <3>2
      <4>2. u[i] = t[j]
        <5>1. i \in 2..(lt - count + 1)
          BY <3>2, <1>2
        <5> QED
          BY <5>1, <2>1, <4>1
      <4>3. PICK d \in 1..Len(FrameAt(s, k + j)) :
              /\ j > 1 => d = 1
              /\ t[j] = SubSeq(FrameAt(s, k + j), d, Len(FrameAt(s, k + j)))
        BY <1>5
      <4>4. u[i] # <<>>
        BY <4>2, <1>1 DEF NoneEmpty
      <4> QED
        BY <4>1, <4>2, <4>3, <4>4
    <3> QED
      BY <3>1, <3>2
  <2>12. Fits(s, u) /\ NoneEmpty(u)
    BY <2>1, <2>2, <2>11, <1>1 DEF Fits, NoneEmpty
  <2>13. Len(s) - Len(u) = Len(s) - Len(t) + (count - 1)
    BY <2>2, <1>1, <1>2, <1>3
  <2> QED
    BY <2>12, <2>13, <1>4, <1>7
<1> QED
  BY <1>6, <1>7

-----------------------------------------------------------------------------
(* Order of the messages and answers that match                            *)

\* What a handler gets.
Handled == [id : Byte, serial : Byte, body : Seq(Byte)]

\* The messages of h are among the first k of s, each at most once, in order.
Ordered(s, h, k) ==
  \E place \in [1..Len(h) -> 1..k] :
    Increasing(place) /\ \A i \in 1..Len(h) : h[i] = Content(s[place[i]])

\* Ordered stays true when more has been sent or read.
LEMMA OrderedMore ==
  ASSUME NEW s, NEW h \in Seq(Handled), NEW k \in Nat, Ordered(s, h, k),
         NEW l \in Nat, k <= l, NEW z, \A i \in 1..k : z[i] = s[i]
  PROVE  Ordered(z, h, l)
<1>1. PICK n \in Nat : n = Len(h)
  BY LenIsNat
<1>2. PICK place \in [1..n -> 1..k] :
        Increasing(place) /\ \A i \in 1..n : h[i] = Content(s[place[i]])
  BY <1>1 DEF Ordered
<1>3. place \in [1..n -> 1..l]
  <2>1. 1..k \subseteq 1..l
    OBVIOUS
  <2> QED
    BY <2>1
<1>4. \A i \in 1..n : h[i] = Content(z[place[i]])
  BY <1>2
<1> QED
  BY <1>1, <1>2, <1>3, <1>4 DEF Ordered

\* Ordered stays true when a later message is handled.
LEMMA OrderedOneMore ==
  ASSUME NEW s, NEW h \in Seq(Handled), NEW k \in Nat, Ordered(s, h, k),
         NEW l \in Nat, NEW j \in (k + 1)..l, NEW msg \in Handled, msg = Content(s[j])
  PROVE  Ordered(s, Append(h, msg), l)
<1>1. PICK n \in Nat : n = Len(h)
  BY LenIsNat
<1>2. PICK place \in [1..n -> 1..k] :
        Increasing(place) /\ \A i \in 1..n : h[i] = Content(s[place[i]])
  BY <1>1 DEF Ordered
<1>3. PICK g \in Seq(Handled) : g = Append(h, msg) /\ Len(g) = n + 1 /\ g[n + 1] = msg
        /\ \A i \in 1..n : g[i] = h[i]
  <2>1. /\ Append(h, msg) \in Seq(Handled) /\ Len(Append(h, msg)) = Len(h) + 1
        /\ Append(h, msg)[Len(h) + 1] = msg
        /\ \A i \in 1..Len(h) : Append(h, msg)[i] = h[i]
    BY AppendProperties
  <2>2. PICK y \in Seq(Handled) : y = Append(h, msg)
    BY <2>1
  <2> QED
    BY <2>1, <2>2, <1>1
<1> DEFINE longer == [i \in 1..(n + 1) |-> IF i <= n THEN place[i] ELSE j]
<1>4. longer \in [1..(n + 1) -> 1..l]
  <2> SUFFICES ASSUME NEW i \in 1..(n + 1)
               PROVE  (IF i <= n THEN place[i] ELSE j) \in 1..l
    OBVIOUS
  <2>1. CASE i <= n
    <3>1. i \in 1..n
      BY <2>1
    <3>2. place[i] \in 1..k
      BY <3>1
    <3> QED
      BY <2>1, <3>2
  <2>2. CASE ~(i <= n)
    BY <2>2
  <2> QED
    BY <2>1, <2>2
<1>5. Increasing(longer)
  <2>1. ASSUME NEW a \in 1..(n + 1), NEW b \in 1..(n + 1), a < b
        PROVE  longer[a] < longer[b]
    <3>1. a \in 1..n /\ a <= n
      BY <2>1
    <3>2. longer[a] = place[a] /\ place[a] \in 1..k
      BY <3>1
    <3>3. CASE b <= n
      <4>1. b \in 1..n
        BY <3>3
      <4>2. longer[b] = place[b] /\ place[a] < place[b]
        BY <4>1, <3>1, <3>3, <2>1, <1>2 DEF Increasing
      <4> QED
        BY <4>2, <3>2
    <3>4. CASE ~(b <= n)
      <4>1. longer[b] = j
        BY <3>4
      <4> QED
        BY <4>1, <3>2
    <3> QED
      BY <3>3, <3>4
  <2>2. DOMAIN longer = 1..(n + 1)
    OBVIOUS
  <2> HIDE DEF longer
  <2> QED
    BY <2>1, <2>2 DEF Increasing
<1>6. ASSUME NEW i \in 1..(n + 1) PROVE g[i] = Content(s[longer[i]])
  <2>1. CASE i <= n
    <3>1. i \in 1..n
      BY <2>1
    <3> QED
      BY <3>1, <2>1, <1>2, <1>3
  <2>2. CASE ~(i <= n)
    <3>1. i = n + 1
      BY <2>2
    <3> QED
      BY <3>1, <2>2, <1>3
  <2> QED
    BY <2>1, <2>2
<1> HIDE DEF longer
<1> QED
  BY <1>3, <1>4, <1>5, <1>6 DEF Ordered

\* Some message of h authorised the device.
Authorised(h) == \E i \in 1..Len(h) : h[i].id = AuthOk

\* Due, of a sequence of handled messages.
DueIn(h) == { i \in 1..Len(h) : /\ h[i].id # AuthOk
                                /\ \E j \in 1..(i - 1) : h[j].id = AuthOk }

\* AnswersMatch, of sequences of messages and answers.
Matched(h, ans) ==
  \E order \in [1..Len(ans) -> DueIn(h)] :
    /\ Increasing(order) /\ Range(order) = DueIn(h)
    /\ \A n \in 1..Len(ans) : ans[n] = Prescribed(n, h[order[n]])

\* A handled message is due an answer if the device was authorised before.
LEMMA DueGrows ==
  ASSUME NEW h \in Seq(Handled), NEW msg \in Handled
  PROVE  /\ Authorised(Append(h, msg)) <=> Authorised(h) \/ msg.id = AuthOk
         /\ DueIn(Append(h, msg)) =
              DueIn(h) \cup (IF msg.id # AuthOk /\ Authorised(h) THEN {Len(h) + 1} ELSE {})
<1>1. PICK n \in Nat : n = Len(h)
  BY LenIsNat
<1>2. PICK g \in Seq(Handled) : g = Append(h, msg) /\ Len(g) = n + 1 /\ g[n + 1] = msg
        /\ \A i \in 1..n : g[i] = h[i]
  <2>1. /\ Append(h, msg) \in Seq(Handled) /\ Len(Append(h, msg)) = Len(h) + 1
        /\ Append(h, msg)[Len(h) + 1] = msg
        /\ \A i \in 1..Len(h) : Append(h, msg)[i] = h[i]
    BY AppendProperties
  <2>2. PICK y \in Seq(Handled) : y = Append(h, msg)
    BY <2>1
  <2> QED
    BY <2>1, <2>2, <1>1
<1>3. \A i \in 1..(n + 1) : i \in 1..n \/ i = n + 1
  OBVIOUS
<1>4. \A i \in 1..n : i \in 1..(n + 1)
  OBVIOUS
<1>5. n + 1 \in 1..(n + 1)
  OBVIOUS
<1>6. Authorised(g) <=> Authorised(h) \/ msg.id = AuthOk
  BY <1>1, <1>2, <1>3, <1>4, <1>5, Zenon DEF Authorised
<1>7. ASSUME NEW i \in 1..n PROVE i \in DueIn(g) <=> i \in DueIn(h)
  <2>1. \A j \in 1..(i - 1) : j \in 1..n
    OBVIOUS
  <2>2. \A j \in 1..(i - 1) : g[j] = h[j]
    BY <2>1, <1>2
  <2>3. g[i] = h[i] /\ i \in 1..(n + 1)
    BY <1>2, <1>4
  <2> QED
    BY <2>2, <2>3, <1>1, <1>2 DEF DueIn
<1>8. n + 1 \in DueIn(g) <=> msg.id # AuthOk /\ Authorised(h)
  <2>1. n + 1 - 1 = n
    OBVIOUS
  <2>2. n + 1 \in DueIn(g) <=> msg.id # AuthOk /\ \E j \in 1..n : g[j].id = AuthOk
    BY <2>1, <1>2, <1>5 DEF DueIn
  <2> QED
    BY <2>2, <1>1, <1>2 DEF Authorised
<1>9. DueIn(g) \subseteq 1..(n + 1) /\ DueIn(h) \subseteq 1..n
  BY <1>1, <1>2 DEF DueIn
<1> QED
  BY <1>1, <1>2, <1>3, <1>6, <1>7, <1>8, <1>9

\* A message that is due no answer changes nothing.
LEMMA MatchedSame ==
  ASSUME NEW h \in Seq(Handled), NEW ans \in Seq(Seq(Byte)), Matched(h, ans),
         NEW msg \in Handled, msg.id = AuthOk \/ ~Authorised(h)
  PROVE  Matched(Append(h, msg), ans)
<1>1. PICK n \in Nat : n = Len(h)
  BY LenIsNat
<1>2. PICK g \in Seq(Handled) : g = Append(h, msg) /\ \A i \in 1..n : g[i] = h[i]
  <2>1. Append(h, msg) \in Seq(Handled) /\ \A i \in 1..Len(h) : Append(h, msg)[i] = h[i]
    BY AppendProperties
  <2> QED
    BY <2>1, <1>1
<1>3. DueIn(g) = DueIn(h) /\ DueIn(h) \subseteq 1..n
  BY <1>1, <1>2, DueGrows DEF DueIn
<1>4. PICK order \in [1..Len(ans) -> DueIn(h)] :
        /\ Increasing(order) /\ Range(order) = DueIn(h)
        /\ \A i \in 1..Len(ans) : ans[i] = Prescribed(i, h[order[i]])
  BY DEF Matched
<1>5. \A i \in 1..Len(ans) : g[order[i]] = h[order[i]]
  BY <1>2, <1>3, <1>4
<1> QED
  <2>1. order \in [1..Len(ans) -> DueIn(g)] /\ Range(order) = DueIn(g)
    BY <1>3, <1>4
  <2>2. \A i \in 1..Len(ans) : ans[i] = Prescribed(i, g[order[i]])
    BY <1>4, <1>5
  <2>3. Matched(g, ans)
    BY <1>4, <2>1, <2>2, Zenon DEF Matched
  <2> QED
    BY <2>3, <1>2

\* A message that is due an answer and gets it.
LEMMA MatchedOneMore ==
  ASSUME NEW h \in Seq(Handled), NEW ans \in Seq(Seq(Byte)), Matched(h, ans),
         NEW msg \in Handled, msg.id # AuthOk, Authorised(h),
         NEW x \in Seq(Byte), x = Prescribed(Len(ans) + 1, msg)
  PROVE  Matched(Append(h, msg), Append(ans, x))
<1>1. PICK n \in Nat, m \in Nat : n = Len(h) /\ m = Len(ans)
  BY LenIsNat
<1>2. PICK g \in Seq(Handled) : g = Append(h, msg) /\ Len(g) = n + 1 /\ g[n + 1] = msg
        /\ \A i \in 1..n : g[i] = h[i]
  <2>1. /\ Append(h, msg) \in Seq(Handled) /\ Len(Append(h, msg)) = Len(h) + 1
        /\ Append(h, msg)[Len(h) + 1] = msg
        /\ \A i \in 1..Len(h) : Append(h, msg)[i] = h[i]
    BY AppendProperties
  <2>2. PICK y \in Seq(Handled) : y = Append(h, msg)
    BY <2>1
  <2> QED
    BY <2>1, <2>2, <1>1
<1>3. PICK b \in Seq(Seq(Byte)) : b = Append(ans, x) /\ Len(b) = m + 1 /\ b[m + 1] = x
        /\ \A i \in 1..m : b[i] = ans[i]
  <2>1. /\ Append(ans, x) \in Seq(Seq(Byte)) /\ Len(Append(ans, x)) = Len(ans) + 1
        /\ Append(ans, x)[Len(ans) + 1] = x
        /\ \A i \in 1..Len(ans) : Append(ans, x)[i] = ans[i]
    BY AppendProperties
  <2>2. PICK y \in Seq(Seq(Byte)) : y = Append(ans, x)
    BY <2>1
  <2> QED
    BY <2>1, <2>2, <1>1
<1>4. DueIn(g) = DueIn(h) \cup {n + 1} /\ DueIn(h) \subseteq 1..n
  <2>1. DueIn(h) \subseteq 1..n
    BY <1>1 DEF DueIn
  <2>2. DueIn(Append(h, msg)) = DueIn(h) \cup {Len(h) + 1}
    BY DueGrows
  <2> QED
    BY <2>1, <2>2, <1>1, <1>2
<1>5. PICK order \in [1..m -> DueIn(h)] :
        /\ Increasing(order) /\ Range(order) = DueIn(h)
        /\ \A i \in 1..m : ans[i] = Prescribed(i, h[order[i]])
  BY <1>1 DEF Matched
<1> DEFINE longer == [i \in 1..(m + 1) |-> IF i <= m THEN order[i] ELSE n + 1]
<1>6. \A i \in 1..m : i \in 1..(m + 1) /\ i <= m /\ longer[i] = order[i]
        /\ order[i] \in DueIn(h) /\ order[i] \in 1..n
  BY <1>4
<1>7. m + 1 \in 1..(m + 1) /\ ~(m + 1 <= m) /\ longer[m + 1] = n + 1
  OBVIOUS
<1>8. \A i \in 1..(m + 1) : i \in 1..m \/ i = m + 1
  OBVIOUS
<1>9. DOMAIN longer = 1..(m + 1) /\ longer = [i \in 1..(m + 1) |-> longer[i]]
  OBVIOUS
<1> HIDE DEF longer
<1>10. longer \in [1..(m + 1) -> DueIn(g)]
  <2>1. \A i \in 1..(m + 1) : longer[i] \in DueIn(g)
    BY <1>4, <1>6, <1>7, <1>8
  <2> QED
    BY <2>1, <1>9
<1>11. Increasing(longer)
  <2>1. ASSUME NEW c \in 1..(m + 1), NEW d \in 1..(m + 1), c < d
        PROVE  longer[c] < longer[d]
    <3>1. c \in 1..m
      BY <2>1
    <3>2. CASE d \in 1..m
      BY <3>1, <3>2, <2>1, <1>5, <1>6 DEF Increasing
    <3>3. CASE d = m + 1
      <4>1. longer[c] \in 1..n /\ longer[d] = n + 1
        BY <3>1, <3>3, <1>6, <1>7
      <4> QED
        BY <4>1
    <3> QED
      BY <3>2, <3>3, <1>8
  <2> QED
    BY <2>1, <1>9 DEF Increasing
<1>12. Range(longer) = DueIn(g)
  <2>1. \A i \in DueIn(h) : \E j \in 1..m : order[j] = i
    BY <1>5 DEF Range
  <2>2. \A i \in DueIn(g) : \E j \in 1..(m + 1) : longer[j] = i
    BY <2>1, <1>4, <1>6, <1>7
  <2> QED
    BY <2>2, <1>9, <1>10 DEF Range
<1>13. ASSUME NEW i \in 1..(m + 1) PROVE b[i] = Prescribed(i, g[longer[i]])
  <2>1. CASE i \in 1..m
    <3>1. b[i] = ans[i] /\ longer[i] = order[i] /\ g[order[i]] = h[order[i]]
      BY <2>1, <1>2, <1>3, <1>6
    <3> QED
      BY <3>1, <2>1, <1>5
  <2>2. CASE i = m + 1
    BY <2>2, <1>1, <1>2, <1>3, <1>7
  <2> QED
    BY <2>1, <2>2, <1>8
<1>14. Matched(g, b)
  <2>1. longer \in [1..Len(b) -> DueIn(g)]
    BY <1>3, <1>10
  <2>2. \A i \in 1..Len(b) : b[i] = Prescribed(i, g[longer[i]])
    BY <1>3, <1>13
  <2> QED
    BY <2>1, <2>2, <1>11, <1>12, Zenon DEF Matched
<1> QED
  BY <1>2, <1>3, <1>14

-----------------------------------------------------------------------------
(* The inductive invariant                                                 *)

\* The flag and the serial number are those the messages and answers so far
\* lead to, and the answers match.
AnswerInv ==
  /\ auth <=> Authorised(handled)
  /\ serial = (DeviceSerial + Len(answers)) % 256
  /\ Matched(handled, answers)

\* Messages were handled only from frames read to the end.
OrderInv == Ordered(sent, handled, Read0)

\* The inductive invariant.
IInv == TypeOK /\ StreamInv /\ OrderInv /\ AnswerInv

\* RadioProtocol_SendData makes of an answer the bytes that JT/T 808 prescribes.
LEMMA AnswerSent ==
  ASSUME TypeOK, serial = (DeviceSerial + Len(answers)) % 256, NEW msg \in Handled
  PROVE  /\ SendData(GeneralAck, <<msg.serial, msg.id, Result(msg.id)>>)
              = Prescribed(Len(answers) + 1, msg)
         /\ Prescribed(Len(answers) + 1, msg) \in Seq(Byte)
         /\ NextSerial = (DeviceSerial + (Len(answers) + 1)) % 256
         /\ NextSerial \in Byte
<1>1. PICK m \in Nat : m = Len(answers)
  BY LenIsNat DEF TypeOK
<1>2. PICK d \in Nat : d = DeviceSerial
  BY SerialAssumption DEF Byte
<1>3. PICK ns \in Byte : ns = NextSerial /\ ns = (d + (m + 1)) % 256
  <2>1. (((d + m) % 256) + 1) % 256 = (d + (m + 1)) % 256
    OBVIOUS
  <2>2. (d + (m + 1)) % 256 \in Byte
    BY DEF Byte
  <2> QED
    BY <2>1, <2>2, <1>1, <1>2 DEF NextSerial
<1>4. PICK a \in Byte, b \in Byte, c \in Byte :
        a = msg.serial /\ b = msg.id /\ c = Result(msg.id) /\ c = IF b = Unknown THEN 3 ELSE 0
  <2>1. msg.serial \in Byte /\ msg.id \in Byte
    BY DEF Handled
  <2>2. Result(msg.id) = IF msg.id = Unknown THEN 3 ELSE 0
    BY DEF Result
  <2>3. 3 \in Byte /\ 0 \in Byte
    BY DEF Byte
  <2>4. Result(msg.id) \in Byte
    BY <2>2, <2>3
  <2> QED
    BY <2>1, <2>2, <2>4
<1>5. GeneralAck \in Byte /\ 3 \in Byte
  BY DEF GeneralAck, Byte
<1>6. PICK body \in Seq(Byte) : body = <<a, b, c>> /\ Len(body) = 3
  <2>1. <<a, b, c>> \in Seq(Byte)
    BY <1>4
  <2> QED
    BY <2>1
<1>7. PICK raw \in Seq(Byte) : raw = <<GeneralAck, 3, ns, a, b, c>> /\ Len(raw) >= 2
  <2>1. <<GeneralAck, 3, ns, a, b, c>> \in Seq(Byte)
    BY <1>3, <1>4, <1>5
  <2>2. PICK x \in Seq(Byte) : x = <<GeneralAck, 3, ns, a, b, c>>
    BY <2>1
  <2>3. Len(x) = 6
    BY <2>2
  <2>4. Len(x) >= 2
    BY <2>3
  <2> QED
    BY <2>2, <2>4
<1>8. raw = <<GeneralAck, 3, ns>> \o body
  BY <1>6, <1>7
<1>9. PICK w \in Seq(Byte) : w = WithChecksum(raw) /\ w = Append(raw, XorVerify[raw]) /\ Len(w) >= 2
  <2>1. WithChecksum(raw) \in Seq(Byte) /\ Len(WithChecksum(raw)) = Len(raw) + 1
        /\ WithChecksum(raw) = Append(raw, XorVerify[raw])
    BY Checked
  <2>2. Len(raw) + 1 >= 2
    BY <1>7
  <2> QED
    BY <2>1, <2>2
<1>10. OnWire(w) = <<Flag>> \o TransMean[w] \o <<Flag>> /\ OnWire(w) \in Seq(Byte)
  BY <1>9, OnWireIsFrame DEF IsFrame
<1>11. SendData(GeneralAck, <<msg.serial, msg.id, Result(msg.id)>>) = OnWire(w)
  <2>1. SendData(GeneralAck, body) = <<Flag>> \o TransMean[Append(raw, XorVerify[raw])] \o <<Flag>>
    BY <1>3, <1>6, <1>8 DEF SendData
  <2> QED
    BY <2>1, <1>4, <1>6, <1>9, <1>10
<1>12. Prescribed(m + 1, msg) = OnWire(w)
  <2>1. Prescribed(m + 1, msg) = OnWire(WithChecksum(<<GeneralAck, 3, ns, a, b, c>>))
    BY <1>2, <1>3, <1>4, Zenon DEF Prescribed
  <2> QED
    BY <2>1, <1>7, <1>9
<1> QED
  BY <1>1, <1>2, <1>3, <1>10, <1>11, <1>12

\* Dispatching a message keeps the part of the invariant about answers.
LEMMA DispatchKeeps ==
  ASSUME TypeOK, AnswerInv, NEW msg \in Handled, Dispatch(msg)
  PROVE  /\ handled' \in Seq(Handled) /\ auth' \in BOOLEAN /\ serial' \in Byte
         /\ answers' \in Seq(Seq(Byte)) /\ AnswerInv'
<1>1. handled' = Append(handled, msg) /\ handled \in Seq(Handled) /\ answers \in Seq(Seq(Byte))
  BY DEF Dispatch, TypeOK, Handled
<1>2. handled' \in Seq(Handled)
  BY <1>1, AppendProperties
<1>3. Authorised(handled') <=> Authorised(handled) \/ msg.id = AuthOk
  BY <1>1, DueGrows
<1>4. CASE msg.id = AuthOk
  <2>1. auth' = TRUE /\ serial' = serial /\ answers' = answers
    BY <1>4 DEF Dispatch
  <2>2. Matched(handled', answers')
    BY <1>1, <1>4, <2>1, MatchedSame DEF AnswerInv
  <2> QED
    BY <1>2, <1>3, <1>4, <2>1, <2>2, <1>1 DEF AnswerInv, TypeOK
<1>5. CASE msg.id # AuthOk /\ ~auth
  <2>1. auth' = auth /\ serial' = serial /\ answers' = answers
    BY <1>5 DEF Dispatch, Answer
  <2>2. ~Authorised(handled)
    BY <1>5 DEF AnswerInv
  <2>3. Matched(handled', answers')
    BY <1>1, <2>1, <2>2, MatchedSame DEF AnswerInv
  <2> QED
    BY <1>2, <1>3, <1>5, <2>1, <2>3, <1>1 DEF AnswerInv, TypeOK
<1>6. CASE msg.id # AuthOk /\ auth
  <2>1. PICK x \in Seq(Byte) : x = Prescribed(Len(answers) + 1, msg)
          /\ x = SendData(GeneralAck, <<msg.serial, msg.id, Result(msg.id)>>)
    BY AnswerSent DEF AnswerInv
  <2>2. auth' = auth /\ serial' = NextSerial /\ answers' = Append(answers, x)
    BY <1>6, <2>1 DEF Dispatch, Answer
  <2>3. Authorised(handled)
    BY <1>6 DEF AnswerInv
  <2>4. Matched(handled', answers')
    BY <1>1, <1>6, <2>1, <2>2, <2>3, MatchedOneMore DEF AnswerInv
  <2>5. answers' \in Seq(Seq(Byte)) /\ Len(answers') = Len(answers) + 1
    BY <1>1, <2>2, AppendProperties
  <2>6. serial' = (DeviceSerial + Len(answers')) % 256 /\ serial' \in Byte
    BY <2>2, <2>5, AnswerSent DEF AnswerInv
  <2> QED
    BY <1>2, <1>3, <1>6, <2>2, <2>3, <2>4, <2>5, <2>6 DEF AnswerInv, TypeOK
<1> QED
  BY <1>4, <1>5, <1>6 DEF TypeOK

\* The invariant holds at the start.
LEMMA InitIInv == Init => IInv
<1> SUFFICES ASSUME Init PROVE IInv
  OBVIOUS
<1>1. sent = <<>> /\ stream = <<>> /\ handled = <<>> /\ answers = <<>> /\ auth = FALSE
      /\ serial = DeviceSerial
  BY DEF Init
<1>2. \A S : <<>> \in Seq(S)
  BY EmptySeq
<1>3. Len(<<>>) = 0 /\ \A i \in 1..0 : FALSE
  OBVIOUS
<1>4. TypeOK
  <2>1. <<>> \notin Range(stream)
    <3>1. DOMAIN stream = {}
      BY <1>1
    <3> QED
      BY <3>1 DEF Range
  <2>2. serial \in Byte
    BY <1>1, SerialAssumption
  <2> QED
    BY <1>1, <1>2, <2>1, <2>2 DEF TypeOK
<1>5. StreamInv
  BY <1>1, <1>3 DEF StreamInv
<1> DEFINE none == [i \in 1..0 |-> 0]
<1>6. none \in [1..0 -> 1..0] /\ Increasing(none)
  BY DEF Increasing
<1>7. OrderInv
  <2>1. Read0 = 0
    BY <1>1 DEF Read0
  <2> HIDE DEF none
  <2>2. Ordered(sent, handled, 0)
    BY <1>1, <1>3, <1>6 DEF Ordered
  <2> QED
    BY <2>1, <2>2 DEF OrderInv
<1>8. AnswerInv
  <2>1. ~Authorised(handled)
    BY <1>1, <1>3 DEF Authorised
  <2>2. serial = (DeviceSerial + Len(answers)) % 256
    <3>1. DeviceSerial \in 0..255
      BY SerialAssumption DEF Byte
    <3>2. (DeviceSerial + 0) % 256 = DeviceSerial
      BY <3>1
    <3> QED
      BY <3>2, <1>1, <1>3
  <2>3. Matched(handled, answers)
    <3>1. DueIn(handled) = {}
      BY <1>1, <1>3 DEF DueIn
    <3>2. none \in [1..0 -> {}] /\ Range(none) = {}
      BY DEF Range
    <3> HIDE DEF none
    <3> QED
      BY <1>1, <1>3, <1>6, <3>1, <3>2 DEF Matched
  <2> QED
    BY <2>1, <2>2, <2>3, <1>1 DEF AnswerInv
<1> QED
  BY <1>4, <1>5, <1>7, <1>8 DEF IInv

\* The platform sends a message.
LEMMA SendKeeps ==
  ASSUME IInv, Send PROVE IInv'
<1>1. TypeOK /\ StreamInv /\ OrderInv /\ AnswerInv
  BY DEF IInv
<1>2. sent \in Seq(Message) /\ stream \in Seq(Seq(Byte)) /\ handled \in Seq(Handled)
  BY <1>1 DEF TypeOK, Handled
<1>3. PICK msg : /\ msg \in Message /\ sent' = Append(sent, msg)
                 /\ stream' = Append(stream, OnWire(Raw(msg)))
  <2>1. PICK id \in {AuthOk, Command, Unknown},
             body \in BoundedSeq(Payload, MaxBody), packed \in BOOLEAN :
          LET m == [id |-> id, serial |-> (PlatformSerial + Len(sent)) % 256,
                    body |-> body, packed |-> packed]
          IN sent' = Append(sent, m) /\ stream' = Append(stream, OnWire(Raw(m)))
    BY DEF Send
  <2>2. (PlatformSerial + Len(sent)) % 256 \in Byte
    <3>1. PICK n \in Nat, p \in Nat : n = Len(sent) /\ p = PlatformSerial
      BY <1>2, LenIsNat, SerialAssumption, SMTT(40) DEF Byte
    <3>2. (p + n) % 256 \in 0..255
      OBVIOUS
    <3> QED
      BY <3>1, <3>2 DEF Byte
  <2> QED
    BY <2>1, <2>2 DEF Message
<1>4. UNCHANGED <<handled, auth, serial, answers>>
  BY DEF Send
<1>5. PICK w \in Seq(Byte) : w = OnWire(Raw(msg)) /\ w # <<>>
  <2>1. IsFrame(OnWire(Raw(msg)))
    BY <1>3, MessageFrame
  <2>2. ~(Len(<<>>) >= 4)
    OBVIOUS
  <2> QED
    BY <2>1, <2>2 DEF IsFrame
<1>6. sent' \in Seq(Message) /\ Len(sent') = Len(sent) + 1
      /\ \A i \in 1..Len(sent) : sent'[i] = sent[i]
  BY <1>2, <1>3, AppendProperties
<1>7. stream' \in Seq(Seq(Byte)) /\ Len(stream') = Len(stream) + 1
      /\ stream'[Len(stream) + 1] = w /\ \A i \in 1..Len(stream) : stream'[i] = stream[i]
  BY <1>2, <1>3, <1>5, AppendProperties
<1>8. TypeOK'
  <2>1. NoneEmpty(stream')
    <3>1. NoneEmpty(stream)
      BY <1>1, <1>2, RangeNoneEmpty DEF TypeOK
    <3>2. \A i \in 1..(Len(stream) + 1) : i \in 1..Len(stream) \/ i = Len(stream) + 1
      BY <1>2, LenIsNat
    <3> QED
      BY <3>1, <3>2, <1>5, <1>7 DEF NoneEmpty
  <2>2. <<>> \notin Range(stream')
    BY <2>1, <1>7, RangeNoneEmpty
  <2> QED
    BY <2>2, <1>1, <1>4, <1>6, <1>7 DEF TypeOK
<1>9. StreamInv'
  <2>1. Fits(sent, stream)
    BY <1>1, StreamFits
  <2>2. Fits(sent', stream')
    BY <2>1, <1>2, <1>3, FitsAppend
  <2>3. StreamInv' <=> Fits(sent', stream')
    BY DEF StreamInv, Fits, Frame, FrameAt, Read0
  <2> QED
    BY <2>2, <2>3
<1>10. OrderInv'
  <2>1. PICK ls \in Nat, lt \in Nat : ls = Len(sent) /\ lt = Len(stream)
    BY <1>2, LenIsNat
  <2>2. lt <= ls
    BY <2>1, <1>1 DEF StreamInv
  <2>3. PICK k \in Nat : k = Read0 /\ k = ls - lt /\ k <= ls
    <3>1. ls - lt \in Nat /\ ls - lt <= ls
      BY <2>2
    <3>2. Read0 = ls - lt
      BY <2>1 DEF Read0
    <3> QED
      BY <3>1, <3>2
  <2>4. Read0' = k
    BY <2>1, <2>3, <1>6, <1>7 DEF Read0
  <2>5. \A i \in 1..k : sent'[i] = sent[i]
    BY <2>1, <2>3, <1>6
  <2>6. Ordered(sent, handled, k)
    BY <2>3, <1>1 DEF OrderInv
  <2>7. Ordered(sent', handled, k)
    <3>1. k <= k
      OBVIOUS
    <3> QED
      BY <3>1, <2>5, <2>6, <1>2, OrderedMore
  <2> QED
    BY <2>4, <2>7, <1>4 DEF OrderInv
<1>11. AnswerInv'
  BY <1>1, <1>4 DEF AnswerInv
<1> QED
  BY <1>8, <1>9, <1>10, <1>11 DEF IInv

-----------------------------------------------------------------------------
(* The theorems                                                            *)

\* socket_read_callback reads a part of the stream.
LEMMA ReadKeeps ==
  ASSUME IInv, NEW count \in DOMAIN stream, NEW cut \in 1..Len(stream[count]),
         Read(count, cut)
  PROVE  IInv'
<1>1. TypeOK /\ StreamInv /\ OrderInv /\ AnswerInv
  BY DEF IInv
<1>2. sent \in Seq(Message) /\ stream \in Seq(Seq(Byte)) /\ handled \in Seq(Handled)
  BY <1>1 DEF TypeOK, Handled
<1>3. count \in 1..Len(stream)
  BY <1>2, LenProperties
<1>4. sent' = sent /\ stream' = Left(stream, count, cut)
  BY DEF Read, Left
<1>5. NoneEmpty(stream) /\ Fits(sent, stream)
  BY <1>1, <1>2, RangeNoneEmpty, StreamFits DEF TypeOK
<1>6. /\ stream' \in Seq(Seq(Byte)) /\ NoneEmpty(stream') /\ Fits(sent, stream')
      /\ Len(sent) - Len(stream') =
           Len(sent) - Len(stream) + (IF cut = Len(stream[count]) THEN count ELSE count - 1)
  BY <1>2, <1>3, <1>4, <1>5, FitsLeft
<1>7. PICK ls \in Nat, lt \in Nat : ls = Len(sent) /\ lt = Len(stream)
  BY <1>2, LenIsNat
<1>8. PICK k \in Nat : k = Read0 /\ k = ls - lt
  <2>1. ls - lt \in Nat
    BY <1>1, <1>7 DEF StreamInv
  <2> QED
    BY <2>1, <1>7 DEF Read0
<1>9. PICK hi \in Nat : hi = LastWhole(count, cut) /\ hi = Read0' /\ k <= hi
  <2>1. PICK c \in 1..lt : c = count
    BY <1>3, <1>7
  <2>2. PICK more \in Nat : more = IF cut = Len(stream[count]) THEN count ELSE count - 1
    BY <2>1
  <2>3. Read0' = Len(sent) - Len(stream')
    BY <1>4 DEF Read0
  <2>4. Read0' = k + more
    BY <2>2, <2>3, <1>6, <1>7, <1>8
  <2>5. LastWhole(count, cut) = k + more
    <3>1. k + c - 1 = k + (c - 1)
      OBVIOUS
    <3> QED
      BY <3>1, <2>1, <2>2, <1>8 DEF LastWhole
  <2> QED
    BY <2>4, <2>5
<1>10. StreamInv'
  <2>1. StreamInv' <=> Fits(sent', stream')
    BY DEF StreamInv, Fits, Frame, FrameAt, Read0
  <2> QED
    BY <2>1, <1>4, <1>6
<1>11. <<>> \notin Range(stream')
  BY <1>6, RangeNoneEmpty
<1>12. Ordered(sent, handled, k)
  BY <1>1, <1>8 DEF OrderInv
<1>13. CASE UNCHANGED <<handled, auth, serial, answers>>
  <2>1. Ordered(sent, handled, hi)
    BY <1>2, <1>9, <1>12, OrderedMore
  <2>2. OrderInv'
    BY <2>1, <1>4, <1>9, <1>13 DEF OrderInv
  <2>3. AnswerInv'
    BY <1>1, <1>13 DEF AnswerInv
  <2>4. TypeOK'
    BY <1>1, <1>4, <1>6, <1>11, <1>13 DEF TypeOK
  <2> QED
    BY <2>2, <2>3, <2>4, <1>10 DEF IInv
<1>14. CASE \E j \in (k + 1)..hi : j \in 1..Len(sent) /\ Dispatch(Content(sent[j]))
  <2>1. PICK j \in (k + 1)..hi : j \in 1..Len(sent) /\ Dispatch(Content(sent[j]))
    BY <1>14
  <2>2. PICK msg \in Handled : msg = Content(sent[j])
    BY <2>1, <1>2, FrameOfSent DEF Handled
  <2>3. Dispatch(msg)
    BY <2>1, <2>2
  <2>4. /\ handled' \in Seq(Handled) /\ auth' \in BOOLEAN /\ serial' \in Byte
        /\ answers' \in Seq(Seq(Byte)) /\ AnswerInv'
    BY <2>3, <1>1, DispatchKeeps
  <2>5. Ordered(sent, Append(handled, msg), hi)
    BY <2>2, <1>2, <1>12, OrderedOneMore
  <2>6. OrderInv'
    BY <2>3, <2>5, <1>4, <1>9 DEF OrderInv, Dispatch
  <2>7. TypeOK'
    BY <2>4, <1>1, <1>4, <1>6, <1>11 DEF TypeOK, Handled
  <2> QED
    BY <2>4, <2>6, <2>7, <1>10 DEF IInv
<1> QED
  <2>1. \/ UNCHANGED <<handled, auth, serial, answers>>
        \/ \E j \in (Read0 + 1)..LastWhole(count, cut) :
              j \in 1..Len(sent) /\ Dispatch(Content(sent[j]))
    BY <1>1, <1>2, <1>3, ReadOne
  <2> QED
    BY <2>1, <1>8, <1>9, <1>13, <1>14

\* Every step keeps the invariant.
LEMMA NextKeeps == IInv /\ [Next]_vars => IInv'
<1> SUFFICES ASSUME IInv, [Next]_vars PROVE IInv'
  OBVIOUS
<1>1. CASE Send
  BY <1>1, SendKeeps
<1>2. CASE ReadCallback
  <2>1. PICK count \in DOMAIN stream : \E cut \in 1..Len(stream[count]) : Read(count, cut)
    BY <1>2 DEF ReadCallback
  <2> QED
    BY <2>1, ReadKeeps
<1>3. CASE UNCHANGED vars
  <2>1. UNCHANGED <<sent, stream, handled, auth, serial, answers>>
    BY <1>3 DEF vars
  <2> QED
    BY <2>1 DEF IInv, TypeOK, StreamInv, OrderInv, AnswerInv, Read0, Frame
<1> QED
  BY <1>1, <1>2, <1>3 DEF Next

\* The invariant holds always.
LEMMA Always == Spec => []IInv
BY InitIInv, NextKeeps, PTL DEF Spec

\* Every variable keeps its type: no read leaves a serial number, or an answer,
\* that is not made of bytes (TypeOK of Receive).
THEOREM TypeCorrect == Spec => []TypeOK
<1>1. IInv => TypeOK
  BY DEF IInv
<1> QED
  BY <1>1, Always, PTL

\* However reads fall on the frames, for every buffer length, every set of
\* payload bytes and any number of messages: a handler gets only messages the
\* platform sent, unchanged, at most once and in order (HandledWasSent).
THEOREM OnlySentOnceInOrder == Spec => []HandledWasSent
<1>1. IInv => HandledWasSent
  <2> SUFFICES ASSUME IInv PROVE HandledWasSent
    OBVIOUS
  <2>1. sent \in Seq(Message) /\ stream \in Seq(Seq(Byte)) /\ handled \in Seq(Handled)
    BY DEF IInv, TypeOK, Handled
  <2>2. PICK ls \in Nat, lt \in Nat : ls = Len(sent) /\ lt = Len(stream)
    BY <2>1, LenIsNat
  <2>3. DOMAIN sent = 1..ls /\ DOMAIN handled = 1..Len(handled)
    BY <2>1, <2>2, LenProperties
  <2>4. PICK place \in [1..Len(handled) -> 1..Read0] :
          Increasing(place) /\ \A i \in 1..Len(handled) : handled[i] = Content(sent[place[i]])
    BY DEF IInv, OrderInv, Ordered
  <2>5. 1..Read0 \subseteq 1..ls
    <3>1. ls - lt \in Nat /\ ls - lt <= ls
      BY <2>2 DEF IInv, StreamInv
    <3>2. Read0 = ls - lt
      BY <2>2 DEF Read0
    <3> QED
      BY <3>1, <3>2
  <2>6. place \in [DOMAIN handled -> DOMAIN sent]
    BY <2>3, <2>4, <2>5
  <2> QED
    BY <2>3, <2>4, <2>6 DEF HandledWasSent
<1> QED
  BY <1>1, Always, PTL

\* Each command handled once the device is authorised is answered, in order,
\* with the bytes JT/T 808 prescribes (AnswersMatch).
THEOREM AnswersAsPrescribed == Spec => []AnswersMatch
<1>1. IInv => AnswersMatch
  <2> SUFFICES ASSUME IInv PROVE AnswersMatch
    OBVIOUS
  <2>1. answers \in Seq(Seq(Byte)) /\ handled \in Seq(Handled)
    BY DEF IInv, TypeOK, Handled
  <2>2. DOMAIN answers = 1..Len(answers) /\ DOMAIN handled = 1..Len(handled)
    BY <2>1, LenProperties
  <2>3. Due = DueIn(handled)
    BY <2>2 DEF Due, DueIn
  <2>4. Matched(handled, answers)
    BY DEF IInv, AnswerInv
  <2> QED
    BY <2>2, <2>3, <2>4 DEF Matched, AnswersMatch
<1> QED
  BY <1>1, Always, PTL

\* Bytes fewer than the buffer are all in it when the loop of
\* socket_read_callback ends.
LEMMA WholeInBuffer ==
  ASSUME NEW w \in Seq(Byte), Len(w) < RecvBufferLen PROVE InBuffer(w) = w
<1>1. PICK l \in Nat : l = Len(w)
  BY LenIsNat
<1>2. PICK r \in Nat : r = RecvBufferLen /\ r # 0
  BY PayloadAssumption
<1>3. l % r = l
  BY <1>1, <1>2
<1>4. l - l + 1 = 1
  OBVIOUS
<1>5. InBuffer(w) = SubSeq(w, 1, Len(w))
  BY <1>1, <1>2, <1>3, <1>4 DEF InBuffer
<1> QED
  BY <1>5, SubSeqFull

\* RadioProtocol_CheckRecvData finds what is inside a frame that is alone and
\* not too long.
LEMMA FrameFound ==
  ASSUME NEW w, IsFrame(w), Len(w) - 2 <= ProtocolBufferSize
  PROVE  CheckRecvData(w) = Inside(w)
<1>1. w \in Seq(Byte)
  BY DEF IsFrame
<1>2. PICK l \in Nat : l = Len(w) /\ l >= 4
  BY <1>1, LenIsNat DEF IsFrame
<1>3. DOMAIN w = 1..l
  BY <1>1, <1>2, LenProperties
<1> DEFINE flags == { i \in DOMAIN w : w[i] = Flag }
           first == Min(flags)
           second == Min(flags \ {first})
<1>4. flags = {1, l}
  <2>1. w[1] = Flag /\ w[l] = Flag /\ \A i \in 2..(l - 1) : w[i] # Flag
    BY <1>2 DEF IsFrame
  <2>2. \A i \in 1..l : i = 1 \/ i = l \/ i \in 2..(l - 1)
    OBVIOUS
  <2>3. 1 \in 1..l /\ l \in 1..l
    BY <1>2
  <2> QED
    BY <2>1, <2>2, <2>3, <1>3
<1>5. first = 1
  <2>0. {1, l} \in SUBSET Nat /\ {1, l} # {}
    OBVIOUS
  <2>1. PICK P \in SUBSET Nat : P = {1, l} /\ P # {}
    BY <2>0
  <2>2. Min(P) \in P /\ \A n \in P : Min(P) <= n
    BY <2>1, MinOfNats
  <2>3. Min(P) = 1
    BY <2>1, <2>2, <1>2
  <2> QED
    BY <2>1, <2>3, <1>4
<1>6. second = l
  <2>1. PICK P \in SUBSET Nat : P = {l} /\ P # {}
    OBVIOUS
  <2>2. Min(P) \in P
    BY <2>1, MinOfNats
  <2>3. flags \ {first} = P
    <3> HIDE DEF flags, first
    <3>1. {1, l} \ {1} = {l}
      BY <1>2
    <3> QED
      BY <3>1, <2>1, <1>4, <1>5
  <2> QED
    BY <2>1, <2>2, <2>3
<1>7. CheckRecvData(w) =
        IF \/ flags = {} \/ flags = {first}
           \/ second - first - 1 \notin MinFrame .. ProtocolBufferSize
        THEN <<>>
        ELSE SubSeq(w, first + 1, second - 1)
  BY DEF CheckRecvData
<1>8. /\ flags # {} /\ flags # {first}
      /\ second - first - 1 \in MinFrame .. ProtocolBufferSize
  <2>1. l \in flags /\ l # 1
    BY <1>2, <1>4
  <2>2. l - 1 - 1 \in 2 .. ProtocolBufferSize
    <3>1. PICK size \in Nat : size = ProtocolBufferSize
      BY PayloadAssumption
    <3>2. l - 2 <= size
      BY <1>2, <3>1
    <3> QED
      BY <1>2, <3>1, <3>2
  <2> HIDE DEF flags, first, second
  <2> QED
    BY <2>1, <2>2, <1>5, <1>6 DEF MinFrame
<1>9. first + 1 = 2
  <2> HIDE DEF first
  <2> QED
    BY <1>5
<1> HIDE DEF flags, first, second
<1> QED
  BY <1>2, <1>6, <1>7, <1>8, <1>9 DEF Inside

\* A read of one whole frame handles its message.
LEMMA OneFrameRead ==
  ASSUME IInv, [Next]_vars, NEW msg \in Message, stream # <<>>,
         Head(stream) = OnWire(Raw(msg)), Len(Head(stream)) < RecvBufferLen,
         Len(Head(stream)) - 2 <= ProtocolBufferSize, stream' = Tail(stream)
  PROVE  handled' = Append(handled, Content(msg))
<1>1. stream \in Seq(Seq(Byte))
  BY DEF IInv, TypeOK
<1>2. PICK lt \in Nat : lt = Len(stream) /\ lt >= 1
  <2>1. Len(stream) \in Nat /\ Len(stream) # 0
    BY <1>1, LenIsNat, EmptySeq
  <2> QED
    BY <2>1
<1>3. PICK w \in Seq(Byte) :
        /\ w = stream[1] /\ w = OnWire(Raw(msg)) /\ Len(w) < RecvBufferLen
        /\ Len(w) - 2 <= ProtocolBufferSize
  <2>1. 1 \in 1..Len(stream)
    BY <1>2
  <2>2. stream[1] \in Seq(Byte)
    BY <2>1, <1>1, ElementOfSeq
  <2>3. Head(stream) = stream[1]
    BY <1>1, HeadTailProperties
  <2> QED
    BY <2>2, <2>3
<1>4. Len(stream') = lt - 1 /\ \A i \in 1..(lt - 1) : stream'[i] = stream[i + 1]
  BY <1>1, <1>2, HeadTailProperties
<1>5. ~Send
  <2>1. ASSUME NEW x PROVE Len(Append(stream, x)) # lt - 1
    <3>1. Len(Append(stream, x)) = Len(stream) + 1
      OBVIOUS
    <3> QED
      BY <3>1, <1>2
  <2> QED
    BY <2>1, <1>4, ZenonT(40) DEF Send
<1>6. vars' # vars
  <2>1. Len(stream') # Len(stream)
    BY <1>2, <1>4
  <2> QED
    BY <2>1 DEF vars
<1>7. PICK count \in DOMAIN stream : \E cut \in 1..Len(stream[count]) : Read(count, cut)
  BY <1>5, <1>6 DEF Next, ReadCallback
<1>8. PICK cut \in 1..Len(stream[count]) : Read(count, cut)
  BY <1>7
<1>9. count \in 1..Len(stream)
  BY <1>1, LenProperties
<1>10. stream' = Left(stream, count, cut)
  BY <1>8 DEF Read, Left
<1>11. count = 1 /\ cut = Len(w)
  <2>1. CASE cut = Len(stream[count])
    <3>1. Len(stream') = lt - count
      BY <2>1, <1>1, <1>2, <1>9, <1>10, LeftShape
    <3>2. count = 1
      BY <3>1, <1>2, <1>4, <1>9
    <3> QED
      BY <3>2, <2>1, <1>3
  <2>2. CASE cut # Len(stream[count])
    <3>1. Len(stream') = lt - count + 1
          /\ stream'[1] = SubSeq(stream[count], cut + 1, Len(stream[count]))
      <4>1. /\ Len(Left(stream, count, cut)) = Len(stream) - count + 1
            /\ Left(stream, count, cut)[1] = SubSeq(stream[count], cut + 1, Len(stream[count]))
        BY <2>2, <1>1, <1>9, LeftShape, ZenonT(40)
      <4> QED
        BY <4>1, <1>2, <1>10
    <3>2. count = 2 /\ count \in 1..lt
      BY <3>1, <1>2, <1>4, <1>9
    <3>3. PICK e \in Seq(Byte) : e = stream[2] /\ e = stream[count]
      BY <3>2, <1>1, <1>9, ElementOfSeq
    <3>4. stream'[1] = e
      <4>1. 1 \in 1..(lt - 1) /\ 1 + 1 = 2
        BY <3>2
      <4> QED
        BY <4>1, <3>3, <1>4
    <3>5. PICK le \in Nat : le = Len(e) /\ cut \in 1..le /\ cut # le
      BY <3>3, <2>2, LenIsNat
    <3>6. PICK m \in 1..(le + 1) : m = cut + 1
      BY <3>5
    <3>7. m \in 1..(Len(e) + 1) /\ Len(e) \in (m - 1)..Len(e)
      BY <3>5, <3>6
    <3>8. Len(SubSeq(e, m, Len(e))) = Len(e) - m + 1
      BY <3>7, Part
    <3>9. Len(SubSeq(e, m, Len(e))) # le
      BY <3>5, <3>6, <3>8
    <3> QED
      BY <3>1, <3>3, <3>4, <3>5, <3>6, <3>9
  <2> QED
    BY <2>1, <2>2
<1>12. Joined[SubSeq(stream, 1, count - 1)] \o SubSeq(stream[count], 1, cut) = w
  <2>1. SubSeq(stream, 1, 1 - 1) = <<>>
    <3>1. 1 - 1 = 0 /\ 0 < 1
      OBVIOUS
    <3> QED
      BY <3>1, SubSeqEmpty
  <2>2. <<>> \in Seq(Seq(Byte))
    BY EmptySeq
  <2>3. Joined[<<>>] = <<>>
    BY <2>2, JoinedDef
  <2>4. SubSeq(w, 1, Len(w)) = w
    BY SubSeqFull
  <2>5. <<>> \o w = w
    BY ConcatEmptySeq
  <2> QED
    BY <2>1, <2>3, <2>4, <2>5, <1>3, <1>11
<1>13. ProtocolParse(CheckRecvData(InBuffer(w)))
  BY <1>8, <1>12 DEF Read
<1>14. IsFrame(w) /\ unTransMean[Inside(w)] = Raw(msg)
  BY <1>3, MessageFrame
<1>15. ProtocolParse(Inside(w))
  BY <1>3, <1>13, <1>14, WholeInBuffer, FrameFound
<1>16. WellFormed(Raw(msg)) /\ Parsed(Raw(msg)) = Content(msg)
  BY Understood
<1> QED
  BY <1>14, <1>15, <1>16 DEF ProtocolParse

\* A read that gets one whole frame, shorter than the buffer and with no more
\* bytes between its flags than the protocol takes, hands over its message,
\* whatever was read before (WholeFrameHandled).
THEOREM WholeFrameAlwaysHandled == Spec => WholeFrameHandled
<1>1. ASSUME IInv, [Next]_vars
      PROVE  [ \A msg \in { sent[i] : i \in DOMAIN sent } :
                /\ stream # <<>> /\ Head(stream) = OnWire(Raw(msg))
                /\ Len(Head(stream)) < RecvBufferLen
                /\ Len(Head(stream)) - 2 <= ProtocolBufferSize
                /\ stream' = Tail(stream)
                => handled' = Append(handled, Content(msg)) ]_vars
  <2>1. sent \in Seq(Message) /\ DOMAIN sent = 1..Len(sent)
    BY <1>1, LenProperties DEF IInv, TypeOK
  <2>2. \A msg \in { sent[i] : i \in DOMAIN sent } : msg \in Message
    BY <2>1, ElementOfSeq
  <2> QED
    BY <1>1, <2>2, OneFrameRead
<1> QED
  BY <1>1, Always, PTL DEF Spec, WholeFrameHandled
=============================================================================
