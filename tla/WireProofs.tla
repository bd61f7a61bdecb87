----------------------------- MODULE WireProofs -----------------------------
(***************************************************************************)
(* What Wire's run checks of a few lengths and a small buffer, for all     *)
(* lengths of strings, all sizes of the buffer and any number of events.   *)
(*                                                                         *)
(* First, on signatures of any length: what FlattenSeq and Total do when   *)
(* there is one element more (their definitions are recursive functions,   *)
(* that exist and are unique by induction), so that the k-th argument lies *)
(* where Total says (Place), and what xdwl_send_request() sends is what    *)
(* the protocol lays out and a word more for some strings (MarshalIs).     *)
(*                                                                         *)
(* Then the invariant.  In the stream and in the buffer, behind a header   *)
(* lies its message as far as the sequence goes (Framed): that is kept by  *)
(* any cut.  Headers rise, and so does what is handled (Later).  And as    *)
(* long as no read has filled the buffer, what is still to be handled is   *)
(* one run of whole messages from the next one on (Lossless), so that a    *)
(* header is found where the one before it says.                           *)
(***************************************************************************)
EXTENDS Wire, TLAPS, WellFoundedInduction, SequenceTheorems, FiniteSetTheorems

(* Induction over the natural numbers, for the numbers of a set.           *)
LEMMA Induction ==
  ASSUME NEW P, 0 \in P, \A n \in Nat : n \in P => n + 1 \in P
  PROVE  \A n \in Nat : n \in P
<1> SUFFICES ASSUME NEW x \in Nat, x \notin P PROVE FALSE
  OBVIOUS
<1> DEFINE T == Nat \ P
<1>1. IsWellFoundedOn(OpToRel(<, Nat), Nat)
  BY NatLessThanWellFounded
<1>2. PICK m \in T : \A k \in T : <<k, m>> \notin OpToRel(<, Nat)
  <2>1. T \subseteq Nat /\ T # {}
    OBVIOUS
  <2> HIDE DEF T
  <2> QED
    BY <1>1, <2>1, WFMin
<1>3. m # 0 /\ m - 1 \in Nat /\ m - 1 < m
  OBVIOUS
<1>4. m - 1 \in P
  BY <1>2, <1>3 DEF OpToRel
<1> QED
  BY <1>3, <1>4

-----------------------------------------------------------------------------
(* FlattenSeq: what it is recursively                                      *)

IsFlat(f, s, n) == f = [i \in 1..n |-> IF i = 1 THEN s[i] ELSE f[i - 1] \o s[i]]

Agree(f, g, k) == \A i \in 1..k : f[i] = g[i]

LEMMA FlatExists ==
  ASSUME NEW s, NEW n \in Nat
  PROVE  \E f : IsFlat(f, s, n)
<1> DEFINE P == {m \in Nat : \E f : IsFlat(f, s, m)}
<1>1. 0 \in P
  <2>1. IsFlat([i \in 1..0 |-> 0], s, 0)
    BY DEF IsFlat
  <2> QED
    BY <2>1
<1>2. ASSUME NEW m \in Nat, m \in P PROVE m + 1 \in P
  <2>1. PICK f : IsFlat(f, s, m)
    BY <1>2
  <2> DEFINE last == IF m + 1 = 1 THEN s[m + 1] ELSE f[m] \o s[m + 1]
             g == [i \in 1..(m + 1) |-> IF i = m + 1 THEN last ELSE f[i]]
  <2>2. \A i \in 1..m : g[i] = f[i] /\ f[i] = IF i = 1 THEN s[i] ELSE f[i - 1] \o s[i]
    <3>1. \A i \in 1..m : i # m + 1 /\ i \in 1..(m + 1)
      OBVIOUS
    <3>2. \A i \in 1..m : g[i] = f[i]
      BY <3>1
    <3> HIDE DEF g
    <3> QED
      BY <2>1, <3>2 DEF IsFlat
  <2>3. g[m + 1] = last
    OBVIOUS
  <2>4. \A i \in 1..(m + 1) : g[i] = IF i = 1 THEN s[i] ELSE g[i - 1] \o s[i]
    <3> SUFFICES ASSUME NEW i \in 1..(m + 1)
                 PROVE  g[i] = IF i = 1 THEN s[i] ELSE g[i - 1] \o s[i]
      OBVIOUS
    <3>1. CASE i = m + 1
      <4>1. i # 1 => i - 1 \in 1..m /\ i - 1 = m
        BY <3>1
      <4>2. i # 1 => g[i - 1] = f[m]
        BY <2>2, <4>1
      <4> HIDE DEF g
      <4> QED
        BY <2>3, <3>1, <4>2
    <3>2. CASE i # m + 1
      <4>1. i \in 1..m /\ (i # 1 => i - 1 \in 1..m)
        BY <3>2
      <4> HIDE DEF g
      <4> QED
        BY <2>2, <4>1
    <3> QED
      BY <3>1, <3>2
  <2>5. g = [i \in 1..(m + 1) |-> IF i = 1 THEN s[i] ELSE g[i - 1] \o s[i]]
    <3>1. DOMAIN g = 1..(m + 1) /\ g = [i \in 1..(m + 1) |-> g[i]]
      OBVIOUS
    <3> HIDE DEF g
    <3> QED
      BY <2>4, <3>1
  <2> HIDE DEF g
  <2>6. IsFlat(g, s, m + 1)
    BY <2>5 DEF IsFlat
  <2> QED
    BY <2>6
<1> HIDE DEF P
<1>3. n \in P
  BY <1>1, <1>2, Induction
<1> QED
  BY <1>3 DEF P

LEMMA FlatUnique ==
  ASSUME NEW s, NEW t, NEW f, NEW g, NEW n \in Nat, NEW m \in Nat, NEW k \in Nat, k <= n, k <= m,
         IsFlat(f, s, n), IsFlat(g, t, m), Agree(s, t, k)
  PROVE  Agree(f, g, k)
<1> DEFINE P == {i \in Nat : i \in 1..k => f[i] = g[i]}
<1>1. \A i \in 1..n : f[i] = IF i = 1 THEN s[i] ELSE f[i - 1] \o s[i]
  BY DEF IsFlat
<1>2. \A i \in 1..m : g[i] = IF i = 1 THEN t[i] ELSE g[i - 1] \o t[i]
  BY DEF IsFlat
<1>3. 0 \in P
  OBVIOUS
<1>4. ASSUME NEW i \in Nat, i \in P PROVE i + 1 \in P
  <2> SUFFICES ASSUME i + 1 \in 1..k PROVE f[i + 1] = g[i + 1]
    OBVIOUS
  <2>1. i + 1 \in 1..n /\ i + 1 \in 1..m
    OBVIOUS
  <2>2. /\ f[i + 1] = IF i + 1 = 1 THEN s[i + 1] ELSE f[(i + 1) - 1] \o s[i + 1]
        /\ g[i + 1] = IF i + 1 = 1 THEN t[i + 1] ELSE g[(i + 1) - 1] \o t[i + 1]
        /\ s[i + 1] = t[i + 1]
    BY <1>1, <1>2, <2>1 DEF Agree
  <2>3. (i + 1) - 1 = i /\ (i + 1 # 1 => i \in 1..k)
    OBVIOUS
  <2>4. i + 1 # 1 => f[i] = g[i]
    BY <1>4, <2>3
  <2> QED
    BY <2>2, <2>3, <2>4
<1> HIDE DEF P
<1>5. \A i \in Nat : i \in P
  BY <1>3, <1>4, Induction
<1> QED
  BY <1>5 DEF P, Agree

LEMMA FlattenIs ==
  ASSUME NEW s, Len(s) \in Nat, Len(s) # 0
  PROVE  \E f : IsFlat(f, s, Len(s)) /\ FlattenSeq(s) = f[Len(s)]
<1> DEFINE f == CHOOSE f : IsFlat(f, s, Len(s))
<1>1. IsFlat(f, s, Len(s))
  BY FlatExists
<1>2. FlattenSeq(s) = f[Len(s)]
  BY DEF FlattenSeq, IsFlat
<1> QED
  BY <1>1, <1>2

LEMMA FlattenEmpty == FlattenSeq(<<>>) = <<>>
  BY DEF FlattenSeq

(* One sequence more.                                                      *)
LEMMA FlattenAppend ==
  ASSUME NEW T, NEW s \in Seq(Seq(T)), NEW x \in Seq(T)
  PROVE  FlattenSeq(Append(s, x)) = FlattenSeq(s) \o x
<1> DEFINE t == Append(s, x)
           n == Len(s)
<1>1. /\ n \in Nat /\ Len(t) = n + 1 /\ t[n + 1] = x
      /\ \A i \in 1..n : t[i] = s[i]
  OBVIOUS
<1> HIDE DEF t, n
<1>2. PICK g : IsFlat(g, t, n + 1) /\ FlattenSeq(t) = g[n + 1]
  BY <1>1, FlattenIs
<1>3. g[n + 1] = IF n + 1 = 1 THEN t[n + 1] ELSE g[(n + 1) - 1] \o t[n + 1]
  <2>1. n + 1 \in 1..(n + 1)
    BY <1>1
  <2>2. IsFlat(g, t, n + 1)
    BY <1>2
  <2> QED
    BY <2>1, <2>2 DEF IsFlat
<1>4. CASE n = 0
  <2>1. s = <<>>
    BY <1>4 DEF n
  <2>2. FlattenSeq(s) = <<>>
    BY <2>1, FlattenEmpty
  <2>3. FlattenSeq(t) = x
    BY <1>1, <1>2, <1>3, <1>4
  <2> QED
    BY <2>2, <2>3 DEF t
<1>5. CASE n # 0
  <2>1. PICK f : IsFlat(f, s, n) /\ FlattenSeq(s) = f[n]
    BY <1>1, <1>5, FlattenIs DEF n
  <2>2. \A i \in 1..n : f[i] = g[i]
    <3>1. n \in Nat /\ n + 1 \in Nat /\ n <= n /\ n <= n + 1
      BY <1>1
    <3>2. Agree(s, t, n)
      BY <1>1 DEF Agree
    <3>3. Agree(f, g, n)
      BY <1>2, <2>1, <3>1, <3>2, FlatUnique
    <3> QED
      BY <3>3 DEF Agree
  <2>3. f[n] = g[n] /\ (n + 1) - 1 = n
    BY <1>1, <1>5, <2>2
  <2>4. FlattenSeq(t) = FlattenSeq(s) \o x
    BY <1>1, <1>2, <1>3, <1>5, <2>1, <2>3
  <2> QED
    BY <2>4 DEF t
<1> QED
  BY <1>4, <1>5

LEMMA FlattenType ==
  ASSUME NEW T, NEW s \in Seq(Seq(T))
  PROVE  FlattenSeq(s) \in Seq(T)
<1> DEFINE P == {n \in Nat : \A t \in Seq(Seq(T)) : Len(t) = n => FlattenSeq(t) \in Seq(T)}
<1>1. 0 \in P
  <2>1. \A t \in Seq(Seq(T)) : Len(t) = 0 => t = <<>>
    OBVIOUS
  <2>2. <<>> \in Seq(T)
    OBVIOUS
  <2> QED
    BY <2>1, <2>2, FlattenEmpty
<1>2. ASSUME NEW n \in Nat, n \in P PROVE n + 1 \in P
  <2> SUFFICES ASSUME NEW t \in Seq(Seq(T)), Len(t) = n + 1 PROVE FlattenSeq(t) \in Seq(T)
    OBVIOUS
  <2> DEFINE r == SubSeq(t, 1, n)
             x == t[n + 1]
  <2>1. r \in Seq(Seq(T)) /\ Len(r) = n /\ x \in Seq(T) /\ t = Append(r, x)
    OBVIOUS
  <2> HIDE DEF r, x
  <2>2. FlattenSeq(r) \in Seq(T) /\ FlattenSeq(t) = FlattenSeq(r) \o x
    BY <1>2, <2>1, FlattenAppend
  <2> QED
    BY <2>1, <2>2
<1> HIDE DEF P
<1>3. \A n \in Nat : n \in P
  BY <1>1, <1>2, Induction
<1> QED
  BY <1>3 DEF P

-----------------------------------------------------------------------------
(* Total: one letter more                                                  *)

IsSum(f, size, s, n) == f = [k \in 0..n |-> IF k = 0 THEN 0 ELSE f[k - 1] + size[s[k]]]

LEMMA SumExists ==
  ASSUME NEW size, NEW s, NEW n \in Nat
  PROVE  \E f : IsSum(f, size, s, n)
<1> DEFINE P == {m \in Nat : \E f : IsSum(f, size, s, m)}
<1>1. 0 \in P
  <2>1. IsSum([k \in 0..0 |-> 0], size, s, 0)
    BY DEF IsSum
  <2> QED
    BY <2>1
<1>2. ASSUME NEW m \in Nat, m \in P PROVE m + 1 \in P
  <2>1. PICK f : IsSum(f, size, s, m)
    BY <1>2
  <2> DEFINE last == f[m] + size[s[m + 1]]
             g == [k \in 0..(m + 1) |-> IF k = m + 1 THEN last ELSE f[k]]
  <2>2. \A k \in 0..m : g[k] = f[k] /\ f[k] = IF k = 0 THEN 0 ELSE f[k - 1] + size[s[k]]
    <3>1. \A k \in 0..m : k # m + 1 /\ k \in 0..(m + 1)
      OBVIOUS
    <3>2. \A k \in 0..m : g[k] = f[k]
      BY <3>1
    <3> HIDE DEF g
    <3> QED
      BY <2>1, <3>2 DEF IsSum
  <2>3. g[m + 1] = last
    OBVIOUS
  <2>4. \A k \in 0..(m + 1) : g[k] = IF k = 0 THEN 0 ELSE g[k - 1] + size[s[k]]
    <3> SUFFICES ASSUME NEW k \in 0..(m + 1)
                 PROVE  g[k] = IF k = 0 THEN 0 ELSE g[k - 1] + size[s[k]]
      OBVIOUS
    <3>1. CASE k = m + 1
      <4>1. k # 0 /\ k - 1 \in 0..m /\ k - 1 = m
        BY <3>1
      <4>2. g[k - 1] = f[m]
        BY <2>2, <4>1
      <4> HIDE DEF g
      <4> QED
        BY <2>3, <3>1, <4>1, <4>2
    <3>2. CASE k # m + 1
      <4>1. k \in 0..m /\ (k # 0 => k - 1 \in 0..m)
        BY <3>2
      <4> HIDE DEF g
      <4> QED
        BY <2>2, <4>1
    <3> QED
      BY <3>1, <3>2
  <2>5. g = [k \in 0..(m + 1) |-> IF k = 0 THEN 0 ELSE g[k - 1] + size[s[k]]]
    <3>1. DOMAIN g = 0..(m + 1) /\ g = [k \in 0..(m + 1) |-> g[k]]
      OBVIOUS
    <3> HIDE DEF g
    <3> QED
      BY <2>4, <3>1
  <2> HIDE DEF g
  <2>6. IsSum(g, size, s, m + 1)
    BY <2>5 DEF IsSum
  <2> QED
    BY <2>6
<1> HIDE DEF P
<1>3. n \in P
  BY <1>1, <1>2, Induction
<1> QED
  BY <1>3 DEF P

LEMMA SumUnique ==
  ASSUME NEW size, NEW s, NEW t, NEW f, NEW g, NEW n \in Nat, NEW m \in Nat,
         NEW k \in Nat, k <= n, k <= m,
         IsSum(f, size, s, n), IsSum(g, size, t, m), Agree(s, t, k)
  PROVE  Agree(f, g, k) /\ f[0] = 0 /\ g[0] = 0
<1> DEFINE P == {i \in Nat : i \in 0..k => f[i] = g[i]}
<1>1. \A i \in 0..n : f[i] = IF i = 0 THEN 0 ELSE f[i - 1] + size[s[i]]
  BY DEF IsSum
<1>2. \A i \in 0..m : g[i] = IF i = 0 THEN 0 ELSE g[i - 1] + size[t[i]]
  BY DEF IsSum
<1>3. f[0] = 0 /\ g[0] = 0
  <2>1. 0 \in 0..n /\ 0 \in 0..m
    OBVIOUS
  <2> QED
    BY <1>1, <1>2, <2>1
<1>4. 0 \in P
  BY <1>3
<1>5. ASSUME NEW i \in Nat, i \in P PROVE i + 1 \in P
  <2> SUFFICES ASSUME i + 1 \in 0..k PROVE f[i + 1] = g[i + 1]
    OBVIOUS
  <2>1. i + 1 \in 0..n /\ i + 1 \in 0..m /\ i + 1 \in 1..k /\ i + 1 # 0 /\ (i + 1) - 1 = i
        /\ i \in 0..k
    OBVIOUS
  <2>2. /\ f[i + 1] = f[i] + size[s[i + 1]]
        /\ g[i + 1] = g[i] + size[t[i + 1]]
        /\ s[i + 1] = t[i + 1]
    BY <1>1, <1>2, <2>1 DEF Agree
  <2>3. f[i] = g[i]
    BY <1>5, <2>1
  <2> QED
    BY <2>2, <2>3
<1> HIDE DEF P
<1>6. \A i \in Nat : i \in P
  BY <1>4, <1>5, Induction
<1> QED
  BY <1>3, <1>6 DEF P, Agree

LEMMA TotalIs ==
  ASSUME NEW size, NEW s, Len(s) \in Nat
  PROVE  \E f : IsSum(f, size, s, Len(s)) /\ Total(size, s) = f[Len(s)]
<1> DEFINE f == CHOOSE f : IsSum(f, size, s, Len(s))
<1>1. IsSum(f, size, s, Len(s))
  BY SumExists
<1>2. Total(size, s) = f[Len(s)]
  BY DEF Total, IsSum
<1> QED
  BY <1>1, <1>2

LEMMA TotalNone ==
  ASSUME NEW size, NEW s, Len(s) = 0
  PROVE  Total(size, s) = 0
<1>1. PICK f : IsSum(f, size, s, 0) /\ Total(size, s) = f[0]
  BY TotalIs
<1>2. Agree(s, s, 0)
  BY DEF Agree
<1> QED
  BY <1>1, <1>2, SumUnique

LEMMA TotalNext ==
  ASSUME NEW size, NEW T, NEW s \in Seq(T), NEW k \in 1..Len(s)
  PROVE  Total(size, SubSeq(s, 1, k)) = Total(size, SubSeq(s, 1, k - 1)) + size[s[k]]
<1> DEFINE t == SubSeq(s, 1, k)
           r == SubSeq(s, 1, k - 1)
<1>1. /\ k \in Nat /\ k - 1 \in Nat /\ k - 1 <= k
      /\ Len(t) = k /\ Len(r) = k - 1 /\ t[k] = s[k]
      /\ Agree(r, t, k - 1)
  BY DEF Agree
<1> HIDE DEF t, r
<1>2. PICK f : IsSum(f, size, t, k) /\ Total(size, t) = f[k]
  BY <1>1, TotalIs
<1>3. PICK g : IsSum(g, size, r, k - 1) /\ Total(size, r) = g[k - 1]
  BY <1>1, TotalIs
<1>4. Agree(g, f, k - 1) /\ g[0] = 0 /\ f[0] = 0
  BY <1>1, <1>2, <1>3, SumUnique
<1>5. g[k - 1] = f[k - 1]
  BY <1>1, <1>4 DEF Agree
<1>6. f[k] = f[k - 1] + size[t[k]]
  BY <1>1, <1>2 DEF IsSum
<1> QED
  BY <1>1, <1>2, <1>3, <1>5, <1>6 DEF t, r

-----------------------------------------------------------------------------
(* How arguments are laid out                                              *)

\* The words of arguments: never those of a header.
ArgWords(m) == {m} \X (Nat \ {0}) \X Int

Width(n) == [letter \in Letters |-> Advance(letter, n)]

LEMMA LetterNames ==
  /\ Letters = {"i", "u", "f", "s", "h"}
  /\ I = "i" /\ U = "u" /\ F = "f" /\ S = "s" /\ H = "h"
  BY DEF Letters, I, U, F, S, H

Plain(sig) == sig \in Seq(NoFloats)

LEMMA NoFloatsAre ==
  ASSUME NEW sig, Plain(sig)
  PROVE  /\ sig \in Seq(Letters)
         /\ \A k \in 1..Len(sig) : sig[k] \in Letters /\ sig[k] # F
<1>1. \A letter \in NoFloats : letter \in Letters /\ letter # F
  BY DEF NoFloats
<1> QED
  BY <1>1 DEF Plain

LEMMA LaidType ==
  ASSUME NEW m \in Nat, NEW letter \in Letters, NEW k \in Nat \ {0}, NEW n \in Nat
  PROVE  Laid(m, letter, k, n) \in Seq(ArgWords(m))
<1>1. CASE letter \in {I, U}
  <2>1. Laid(m, letter, k, n) = <<Word(m, k, 0)>>
    BY <1>1, LetterNames DEF Laid
  <2> QED
    BY <2>1 DEF Word, ArgWords
<1>2. CASE letter = F
  <2>1. Laid(m, letter, k, n) = <<Word(m, k, Fixed)>>
    BY <1>2, LetterNames DEF Laid
  <2> QED
    BY <2>1 DEF Word, ArgWords, Fixed
<1>3. CASE letter = S
  <2> DEFINE l == 1 + (n + 1 + 3) \div 4
  <2>1. l \in Nat
    OBVIOUS
  <2>2. Laid(m, letter, k, n) = [w \in 1..l |-> Word(m, k, w - 1)]
    BY <1>3, LetterNames DEF Laid
  <2> HIDE DEF l
  <2>3. \A w \in 1..l : Word(m, k, w - 1) \in ArgWords(m)
    BY <2>1 DEF Word, ArgWords
  <2> QED
    BY <2>1, <2>2, <2>3
<1>4. CASE letter = H
  <2>1. Laid(m, letter, k, n) = <<>>
    BY <1>4, LetterNames DEF Laid
  <2> QED
    BY <2>1
<1> QED
  BY <1>1, <1>2, <1>3, <1>4, LetterNames

(* What is laid out is as long as what xdwl_read_args() goes on by, and    *)
(* where xdwl_read_args() looks in it is what it looks for.                *)
LEMMA LaidAsRead ==
  ASSUME NEW m \in Nat, NEW letter \in Letters, letter # F, NEW k \in Nat \ {0}, NEW n \in Nat
  PROVE  /\ Len(Laid(m, letter, k, n)) = Advance(letter, n)
         /\ Advance(letter, n) \in Nat
         /\ letter \in {I, U} => Advance(letter, n) >= 1 /\ Laid(m, letter, k, n)[1] = Word(m, k, 0)
         /\ letter = S => Advance(letter, n) >= 2 /\ Laid(m, letter, k, n)[2] = Word(m, k, 1)
<1>1. CASE letter \in {I, U}
  <2>1. Laid(m, letter, k, n) = <<Word(m, k, 0)>> /\ Advance(letter, n) = 1 /\ letter # S
    BY <1>1, LetterNames DEF Laid, Advance
  <2> QED
    BY <2>1
<1>2. CASE letter = S
  <2> DEFINE l == 1 + (n + 1 + 3) \div 4
  <2>1. l \in Nat /\ l >= 2 /\ 1 + (4 * ((n + 4) \div 4)) \div 4 = l
    OBVIOUS
  <2>2. Laid(m, letter, k, n) = [w \in 1..l |-> Word(m, k, w - 1)]
    BY <1>2, LetterNames DEF Laid
  <2>3. Advance(letter, n) = l
    BY <1>2, <2>1, LetterNames DEF Advance, Padded4
  <2> HIDE DEF l
  <2>4. Len([w \in 1..l |-> Word(m, k, w - 1)]) = l
    BY <2>1
  <2>5. [w \in 1..l |-> Word(m, k, w - 1)][2] = Word(m, k, 2 - 1)
    BY <2>1
  <2>6. letter \notin {I, U} /\ 2 - 1 = 1
    BY <1>2, LetterNames
  <2> QED
    BY <2>1, <2>2, <2>3, <2>4, <2>5, <2>6
<1>3. CASE letter = H
  <2>1. Laid(m, letter, k, n) = <<>> /\ Advance(letter, n) = 0 /\ letter \notin {I, U, S}
    BY <1>3, LetterNames DEF Laid, Advance
  <2> QED
    BY <2>1
<1> QED
  BY <1>1, <1>2, <1>3, LetterNames

Fitting(m, n) ==
    \A letter \in Letters, k \in Nat \ {0} : letter # F =>
        LET x == Laid(m, letter, k, n) IN
        /\ Len(x) = Advance(letter, n)
        /\ Advance(letter, n) \in Nat
        /\ letter \in {I, U} => Len(x) >= 1 /\ x[1] = Word(m, k, 0)
        /\ letter = S => Len(x) >= 2 /\ x[2] = Word(m, k, 1)

LEMMA LaidFits ==
  ASSUME NEW m \in Nat, NEW n \in Nat
  PROVE  Fitting(m, n)
<1> SUFFICES ASSUME NEW letter \in Letters, NEW k \in Nat \ {0}, letter # F
             PROVE  LET x == Laid(m, letter, k, n) IN
                    /\ Len(x) = Advance(letter, n)
                    /\ Advance(letter, n) \in Nat
                    /\ letter \in {I, U} => Len(x) >= 1 /\ x[1] = Word(m, k, 0)
                    /\ letter = S => Len(x) >= 2 /\ x[2] = Word(m, k, 1)
  BY DEF Fitting
<1> DEFINE x == Laid(m, letter, k, n)
<1>1. /\ Len(x) = Advance(letter, n) /\ Advance(letter, n) \in Nat
      /\ letter \in {I, U} => Advance(letter, n) >= 1 /\ x[1] = Word(m, k, 0)
      /\ letter = S => Advance(letter, n) >= 2 /\ x[2] = Word(m, k, 1)
  BY LaidAsRead
<1> HIDE DEF x
<1>2. /\ Len(x) = Advance(letter, n)
      /\ Advance(letter, n) \in Nat
      /\ letter \in {I, U} => Len(x) >= 1 /\ x[1] = Word(m, k, 0)
      /\ letter = S => Len(x) >= 2 /\ x[2] = Word(m, k, 1)
  BY <1>1
<1> QED
  BY <1>2 DEF x

(* The arguments up to the j-th.                                           *)
Laying(m, sig, n, j) == FlattenSeq([k \in 1..j |-> Laid(m, sig[k], k, n)])

LEMMA BodyIsLaying ==
  ASSUME NEW m, NEW sig \in Seq(Letters), NEW n
  PROVE  Body(m, sig, n) = Laying(m, sig, n, Len(sig))
<1>1. DOMAIN sig = 1..Len(sig)
  OBVIOUS
<1> QED
  BY <1>1 DEF Body, Laying

LEMMA LayingType ==
  ASSUME NEW m \in Nat, NEW sig \in Seq(Letters), NEW n \in Nat, NEW j \in 0..Len(sig)
  PROVE  /\ [k \in 1..j |-> Laid(m, sig[k], k, n)] \in Seq(Seq(ArgWords(m)))
         /\ Laying(m, sig, n, j) \in Seq(ArgWords(m))
<1>1. \A k \in 1..j : Laid(m, sig[k], k, n) \in Seq(ArgWords(m))
  <2> SUFFICES ASSUME NEW k \in 1..j PROVE Laid(m, sig[k], k, n) \in Seq(ArgWords(m))
    OBVIOUS
  <2>1. sig[k] \in Letters /\ k \in Nat \ {0}
    OBVIOUS
  <2> QED
    BY <2>1, LaidType
<1>2. [k \in 1..j |-> Laid(m, sig[k], k, n)] \in Seq(Seq(ArgWords(m)))
  BY <1>1
<1> QED
  BY <1>2, FlattenType DEF Laying

LEMMA LayingSeq ==
  ASSUME NEW m \in Nat, NEW sig \in Seq(Letters), NEW n \in Nat, NEW j \in 0..Len(sig)
  PROVE  Laying(m, sig, n, j) \in Seq(ArgWords(m)) /\ Len(Laying(m, sig, n, j)) \in Nat
<1>1. Laying(m, sig, n, j) \in Seq(ArgWords(m))
  BY LayingType
<1> QED
  BY <1>1

LEMMA LayingNone ==
  ASSUME NEW m, NEW sig, NEW n
  PROVE  Laying(m, sig, n, 0) = <<>>
<1>1. [k \in 1..0 |-> Laid(m, sig[k], k, n)] = <<>>
  OBVIOUS
<1> QED
  BY <1>1, FlattenEmpty DEF Laying

LEMMA LayingNext ==
  ASSUME NEW m \in Nat, NEW sig \in Seq(Letters), NEW n \in Nat, NEW j \in 1..Len(sig)
  PROVE  Laying(m, sig, n, j) = Laying(m, sig, n, j - 1) \o Laid(m, sig[j], j, n)
<1> DEFINE s == [k \in 1..(j - 1) |-> Laid(m, sig[k], k, n)]
           t == [k \in 1..j |-> Laid(m, sig[k], k, n)]
           x == Laid(m, sig[j], j, n)
<1>1. s \in Seq(Seq(ArgWords(m))) /\ j - 1 \in Nat
  <2>1. j - 1 \in 0..Len(sig)
    OBVIOUS
  <2> QED
    BY <2>1, LayingType
<1>2. x \in Seq(ArgWords(m))
  <2>1. sig[j] \in Letters /\ j \in Nat \ {0}
    OBVIOUS
  <2> QED
    BY <2>1, LaidType
<1>3. t \in Seq(Seq(ArgWords(m))) /\ Len(t) = j /\ Len(s) = j - 1 /\ t[j] = x
      /\ \A k \in 1..(j - 1) : t[k] = s[k]
  <2>1. j \in 0..Len(sig)
    OBVIOUS
  <2>2. t \in Seq(Seq(ArgWords(m)))
    BY <2>1, LayingType
  <2> QED
    BY <2>2
<1> HIDE DEF s, t, x
<1>4. t = Append(s, x)
  BY <1>1, <1>2, <1>3
<1>5. FlattenSeq(t) = FlattenSeq(s) \o x
  BY <1>1, <1>2, <1>4, FlattenAppend
<1> QED
  BY <1>5 DEF Laying, s, t, x

(* It is as long as xdwl_read_args() makes it.                             *)
LEMMA LayingLength ==
  ASSUME NEW m \in Nat, NEW sig, Plain(sig), NEW n \in Nat, NEW j \in 0..Len(sig)
  PROVE  Len(Laying(m, sig, n, j)) = Total(Width(n), SubSeq(sig, 1, j))
<1> DEFINE P == {i \in Nat : i \in 0..Len(sig) =>
                    Len(Laying(m, sig, n, i)) = Total(Width(n), SubSeq(sig, 1, i))}
<1>0. sig \in Seq(Letters)
  BY NoFloatsAre
<1>1. 0 \in P
  <2>1. SubSeq(sig, 1, 0) = <<>> /\ Len(<<>>) = 0
    OBVIOUS
  <2>2. Total(Width(n), <<>>) = 0
    BY TotalNone
  <2> QED
    BY <2>1, <2>2, LayingNone
<1>2. ASSUME NEW i \in Nat, i \in P PROVE i + 1 \in P
  <2> SUFFICES ASSUME i + 1 \in 0..Len(sig)
               PROVE  Len(Laying(m, sig, n, i + 1)) = Total(Width(n), SubSeq(sig, 1, i + 1))
    OBVIOUS
  <2> DEFINE k == i + 1
             x == Laid(m, sig[k], k, n)
  <2>1. k \in 1..Len(sig) /\ k - 1 = i /\ i \in 0..Len(sig) /\ k \in Nat \ {0}
    BY <1>0
  <2>2. sig[k] # F /\ sig[k] \in Letters
    BY <2>1, NoFloatsAre
  <2> HIDE DEF k
  <2>3. Laying(m, sig, n, k) = Laying(m, sig, n, i) \o x
    BY <1>0, <2>1, LayingNext
  <2>4. Total(Width(n), SubSeq(sig, 1, k)) = Total(Width(n), SubSeq(sig, 1, i)) + Width(n)[sig[k]]
    BY <1>0, <2>1, TotalNext
  <2>5. Laying(m, sig, n, i) \in Seq(ArgWords(m)) /\ x \in Seq(ArgWords(m))
    BY <1>0, <2>1, <2>2, LayingType, LaidType
  <2>6. Len(x) = Advance(sig[k], n) /\ Advance(sig[k], n) \in Nat
    <3>1. Fitting(m, n)
      BY LaidFits
    <3> QED
      BY <2>1, <2>2, <3>1 DEF Fitting
  <2>7. Width(n)[sig[k]] = Advance(sig[k], n)
    BY <2>2 DEF Width
  <2>8. Len(Laying(m, sig, n, i)) = Total(Width(n), SubSeq(sig, 1, i))
    BY <1>2, <2>1
  <2> HIDE DEF x
  <2>9. Len(Laying(m, sig, n, k)) = Len(Laying(m, sig, n, i)) + Len(x)
    BY <2>3, <2>5, ConcatProperties
  <2>10. Len(Laying(m, sig, n, k)) = Total(Width(n), SubSeq(sig, 1, k))
    BY <2>4, <2>6, <2>7, <2>8, <2>9
  <2> QED
    BY <2>10 DEF k
<1> HIDE DEF P
<1>3. j \in Nat /\ j \in P
  BY <1>1, <1>2, Induction
<1> QED
  BY <1>3 DEF P

(* Arguments that follow move none.                                        *)
LEMMA LayingPrefix ==
  ASSUME NEW m \in Nat, NEW sig \in Seq(Letters), NEW n \in Nat, NEW j \in 0..Len(sig), NEW i \in 0..j
  PROVE  /\ Len(Laying(m, sig, n, i)) <= Len(Laying(m, sig, n, j))
         /\ \A p \in 1..Len(Laying(m, sig, n, i)) : Laying(m, sig, n, j)[p] = Laying(m, sig, n, i)[p]
<1> DEFINE a(x) == Laying(m, sig, n, x)
           Good(x) == /\ Len(a(i)) <= Len(a(x))
                      /\ \A p \in 1..Len(a(i)) : a(x)[p] = a(i)[p]
           P == {d \in Nat : i + d <= Len(sig) => Good(i + d)}
<1>1. a(i) \in Seq(ArgWords(m))
  BY LayingType
<1>2. 0 \in P
  <2>1. i + 0 = i /\ Len(a(i)) \in Nat
    BY <1>1
  <2> HIDE DEF a
  <2> QED
    BY <2>1
<1>3. ASSUME NEW d \in Nat, d \in P PROVE d + 1 \in P
  <2> SUFFICES ASSUME i + (d + 1) <= Len(sig) PROVE Good(i + (d + 1))
    OBVIOUS
  <2> DEFINE h == i + d
             k == i + (d + 1)
             x == Laid(m, sig[k], k, n)
  <2>1. /\ k \in 1..Len(sig) /\ k - 1 = h /\ h \in 0..Len(sig) /\ h <= Len(sig)
        /\ sig[k] \in Letters /\ k \in Nat \ {0}
    OBVIOUS
  <2>2. Good(h)
    BY <1>3, <2>1
  <2> HIDE DEF h, k
  <2>3. a(k) = a(h) \o x
    BY <2>1, LayingNext
  <2>4. a(h) \in Seq(ArgWords(m)) /\ x \in Seq(ArgWords(m))
    BY <2>1, LayingType, LaidType
  <2> HIDE DEF a, x
  <2>5. Len(a(k)) = Len(a(h)) + Len(x) /\ Len(x) \in Nat /\ Len(a(h)) \in Nat
    BY <2>3, <2>4, ConcatProperties
  <2>6. \A p \in 1..Len(a(h)) : a(k)[p] = a(h)[p]
    BY <2>3, <2>4, ConcatProperties
  <2>7. Len(a(i)) \in Nat
    BY <1>1
  <2>8. Len(a(i)) <= Len(a(k))
    BY <2>2, <2>5, <2>7
  <2>9. ASSUME NEW p \in 1..Len(a(i)) PROVE a(k)[p] = a(i)[p]
    <3>1. p \in 1..Len(a(h))
      BY <2>2, <2>5, <2>7
    <3> QED
      BY <2>2, <2>6, <3>1
  <2>10. Good(k)
    BY <2>8, <2>9
  <2> QED
    BY <2>10 DEF k
<1>4. j - i \in Nat /\ i + (j - i) = j /\ j <= Len(sig)
  OBVIOUS
<1> HIDE DEF P
<1>5. j - i \in P
  BY <1>2, <1>3, <1>4, Induction
<1>6. Good(j)
  BY <1>4, <1>5 DEF P
<1> QED
  BY <1>6

(* Where xdwl_read_args() looks for the k-th argument of a message, it is. *)
LEMMA Place ==
  ASSUME NEW m \in Nat, NEW sig, Plain(sig), NEW n \in Nat, NEW k \in DOMAIN sig,
         sig[k] \in {I, U, S}
  PROVE  LET p == Total(Width(n), SubSeq(sig, 1, k - 1)) + (IF sig[k] = S THEN 2 ELSE 1)
         IN  p \in 1..Len(Body(m, sig, n)) /\ Body(m, sig, n)[p] = Right(m, sig[k], k)
<1> DEFINE before == Total(Width(n), SubSeq(sig, 1, k - 1))
           b == Body(m, sig, n)
           a == Laying(m, sig, n, k - 1)
           c == Laying(m, sig, n, k)
           x == Laid(m, sig[k], k, n)
           d == IF sig[k] = S THEN 2 ELSE 1
<1>00. Fitting(m, n)
  BY LaidFits
<1>0. sig[k] \in Letters /\ sig[k] # F /\ k \in Nat \ {0}
  BY NoFloatsAre
<1>1. /\ sig \in Seq(Letters) /\ k \in 1..Len(sig) /\ k - 1 \in 0..Len(sig) /\ k \in 0..Len(sig)
      /\ Len(sig) \in 0..Len(sig) /\ sig[k] \in Letters /\ k \in Nat \ {0}
  BY NoFloatsAre
<1>2. b = Laying(m, sig, n, Len(sig))
  BY <1>1, BodyIsLaying
<1>3. Len(a) = before
  BY <1>1, LayingLength
<1>4. c = a \o x
  BY <1>1, LayingNext
<1>5. a \in Seq(ArgWords(m)) /\ x \in Seq(ArgWords(m)) /\ b \in Seq(ArgWords(m))
  BY <1>1, <1>2, LayingType, LaidType
<1>6. Len(x) >= d /\ x[d] = Right(m, sig[k], k)
  <2>1. CASE sig[k] \in {I, U}
    <3>1. sig[k] # S
      BY <2>1, LetterNames
    <3>2. Len(x) >= 1 /\ x[1] = Word(m, k, 0)
      BY <1>0, <1>00, <2>1 DEF Fitting
    <3>3. Right(m, sig[k], k) = Word(m, k, 0)
      BY <2>1, <3>1, LetterNames DEF Right
    <3> QED
      BY <3>1, <3>2, <3>3
  <2>2. CASE sig[k] = S
    <3>1. Len(x) >= 2 /\ x[2] = Word(m, k, 1)
      BY <1>0, <1>00, <2>2 DEF Fitting
    <3>2. Right(m, sig[k], k) = Word(m, k, 1)
      BY <2>2, LetterNames DEF Right
    <3> QED
      BY <2>2, <3>1, <3>2
  <2> QED
    BY <2>1, <2>2
<1>7. Len(c) <= Len(b) /\ \A p \in 1..Len(c) : b[p] = c[p]
  BY <1>1, <1>2, LayingPrefix
<1>8. d \in {1, 2}
  OBVIOUS
<1> HIDE DEF a, b, c, x, d, before
<1>9. /\ Len(c) = before + Len(x) /\ before \in Nat /\ Len(x) \in Nat /\ Len(b) \in Nat
      /\ \A p \in 1..Len(x) : c[before + p] = x[p]
  <2>1. Len(a) \in Nat /\ Len(x) \in Nat /\ Len(b) \in Nat
    BY <1>5
  <2>2. Len(c) = Len(a) + Len(x) /\ \A p \in (Len(a) + 1)..(Len(a) + Len(x)) : c[p] = x[p - Len(a)]
    BY <1>4, <1>5, ConcatProperties
  <2>3. ASSUME NEW p \in 1..Len(x) PROVE c[before + p] = x[p]
    <3>1. Len(a) + p \in (Len(a) + 1)..(Len(a) + Len(x)) /\ (Len(a) + p) - Len(a) = p
      BY <2>1
    <3> QED
      BY <1>3, <2>2, <3>1
  <2> QED
    BY <1>3, <2>1, <2>2, <2>3
<1>10. d \in 1..Len(x) /\ before + d \in 1..Len(c) /\ before + d \in 1..Len(b)
  BY <1>6, <1>7, <1>8, <1>9
<1>11. b[before + d] = Right(m, sig[k], k)
  BY <1>6, <1>7, <1>9, <1>10
<1> QED
  BY <1>10, <1>11 DEF b, d, before

-----------------------------------------------------------------------------
(* What xdwl_send_request() makes of a request                             *)

Declares(n) == [letter \in Letters |-> BodySize(letter, n)]

\* The bytes that are declared for strings and not written, in words.
Extra(sig, n, j) ==
    IF n % 4 = 3 THEN Cardinality({k \in 1..j : sig[k] = S}) ELSE 0

(* A letter that is not a float is written as the protocol lays it out, and *)
(* declared with a word more if it is a string that fills its last word.   *)
LEMMA WrittenAsLaid ==
  ASSUME NEW letter \in Letters, letter # F, NEW k \in Nat \ {0}, NEW n \in Nat
  PROVE  /\ Written(letter, k, n) = Laid(1, letter, k, n)
         /\ BodySize(letter, n) = 4 * Advance(letter, n) + (IF letter = S /\ n % 4 = 3 THEN 4 ELSE 0)
<1>1. CASE letter \in {I, U}
  <2>1. /\ Written(letter, k, n) = <<Word(1, k, 0)>> /\ Laid(1, letter, k, n) = <<Word(1, k, 0)>>
        /\ BodySize(letter, n) = 4 /\ Advance(letter, n) = 1 /\ letter # S
    BY <1>1, LetterNames DEF Written, Laid, BodySize, Advance
  <2> QED
    BY <2>1
<1>2. CASE letter = S
  <2>1. /\ 1 + (4 * ((n + 4) \div 4)) \div 4 = 1 + (n + 1 + 3) \div 4
        /\ 4 + 4 * ((n + 1 + 4) \div 4) =
              4 * (1 + (4 * ((n + 4) \div 4)) \div 4) + (IF n % 4 = 3 THEN 4 ELSE 0)
    OBVIOUS
  <2>2. Written(letter, k, n) = [w \in 1..(1 + Padded4(n) \div 4) |-> Word(1, k, w - 1)]
    BY <1>2, LetterNames DEF Written
  <2>3. Laid(1, letter, k, n) = [w \in 1..(1 + (n + 1 + 3) \div 4) |-> Word(1, k, w - 1)]
    BY <1>2, LetterNames DEF Laid
  <2>4. 1 + Padded4(n) \div 4 = 1 + (n + 1 + 3) \div 4
    BY <2>1 DEF Padded4
  <2>5. BodySize(letter, n) = 4 + Padded4(n + 1) /\ Advance(letter, n) = 1 + Padded4(n) \div 4
    BY <1>2, LetterNames DEF BodySize, Advance
  <2>6. 4 + Padded4(n + 1) = 4 * (1 + Padded4(n) \div 4) + (IF n % 4 = 3 THEN 4 ELSE 0)
    BY <2>1 DEF Padded4
  <2>7. Written(letter, k, n) = Laid(1, letter, k, n)
    BY <2>2, <2>3, <2>4
  <2>8. BodySize(letter, n) = 4 * Advance(letter, n) + (IF letter = S /\ n % 4 = 3 THEN 4 ELSE 0)
    BY <1>2, <2>5, <2>6
  <2> QED
    BY <2>7, <2>8
<1>3. CASE letter = H
  <2>1. /\ Written(letter, k, n) = <<>> /\ Laid(1, letter, k, n) = <<>>
        /\ BodySize(letter, n) = 0 /\ Advance(letter, n) = 0 /\ letter # S
    BY <1>3, LetterNames DEF Written, Laid, BodySize, Advance
  <2> QED
    BY <2>1
<1> QED
  BY <1>1, <1>2, <1>3, LetterNames

LEMMA ExtraNext ==
  ASSUME NEW sig, NEW n \in Nat, NEW j \in Nat \ {0}
  PROVE  /\ Extra(sig, n, j - 1) \in Nat /\ Extra(sig, n, 0) = 0
         /\ Extra(sig, n, j) = Extra(sig, n, j - 1) + (IF sig[j] = S /\ n % 4 = 3 THEN 1 ELSE 0)
<1> DEFINE strings(i) == {k \in 1..i : sig[k] = S}
<1>1. \A i \in Nat : IsFiniteSet(strings(i)) /\ Cardinality(strings(i)) \in Nat
  <2> SUFFICES ASSUME NEW i \in Nat PROVE IsFiniteSet(strings(i)) /\ Cardinality(strings(i)) \in Nat
    OBVIOUS
  <2>1. IsFiniteSet(1..i) /\ strings(i) \subseteq 1..i
    BY FS_Interval
  <2>2. IsFiniteSet(strings(i))
    BY <2>1, FS_Subset
  <2> QED
    BY <2>2, FS_CardinalityType
<1>2. Cardinality(strings(0)) = 0
  <2>1. strings(0) = {}
    OBVIOUS
  <2> QED
    BY <2>1, FS_EmptySet
<1>3. j - 1 \in Nat /\ j \notin strings(j - 1)
  OBVIOUS
<1>6. \A i : Extra(sig, n, i) = IF n % 4 = 3 THEN Cardinality(strings(i)) ELSE 0
  BY DEF Extra
<1>4. CASE sig[j] = S
  <2>1. strings(j) = strings(j - 1) \cup {j}
    <3>1. \A k \in 1..j : k \in 1..(j - 1) \/ k = j
      OBVIOUS
    <3>2. \A k \in 1..(j - 1) : k \in 1..j
      OBVIOUS
    <3>3. j \in 1..j
      OBVIOUS
    <3> QED
      BY <1>4, <3>1, <3>2, <3>3
  <2> HIDE DEF strings
  <2>2. Cardinality(strings(j)) = Cardinality(strings(j - 1)) + 1
    BY <1>1, <1>3, <2>1, FS_AddElement
  <2> QED
    BY <1>1, <1>2, <1>3, <1>4, <1>6, <2>2
<1>5. CASE sig[j] # S
  <2>1. strings(j) = strings(j - 1)
    <3>1. \A k \in 1..j : k \in 1..(j - 1) \/ k = j
      OBVIOUS
    <3>2. \A k \in 1..(j - 1) : k \in 1..j
      OBVIOUS
    <3> QED
      BY <1>5, <3>1, <3>2
  <2> HIDE DEF strings
  <2>2. Cardinality(strings(j - 1)) \in Nat
    BY <1>1, <1>3
  <2> QED
    BY <1>2, <1>3, <1>5, <1>6, <2>1, <2>2
<1> QED
  BY <1>4, <1>5

(* What is declared for the first j arguments, and what they take.         *)
LEMMA Declared ==
  ASSUME NEW sig, Plain(sig), NEW n \in Nat, NEW j \in 0..Len(sig)
  PROVE  Total(Declares(n), SubSeq(sig, 1, j)) =
             4 * Len(Laying(1, sig, n, j)) + 4 * Extra(sig, n, j)
<1> DEFINE P == {i \in Nat : i \in 0..Len(sig) =>
                    Total(Declares(n), SubSeq(sig, 1, i)) =
                        4 * Total(Width(n), SubSeq(sig, 1, i)) + 4 * Extra(sig, n, i)}
<1>0. sig \in Seq(Letters)
  BY NoFloatsAre
<1>1. 0 \in P
  <2>1. SubSeq(sig, 1, 0) = <<>> /\ Len(<<>>) = 0
    OBVIOUS
  <2>2. Total(Declares(n), <<>>) = 0 /\ Total(Width(n), <<>>) = 0
    BY TotalNone
  <2>3. 1 \in Nat \ {0}
    OBVIOUS
  <2>4. Extra(sig, n, 0) = 0
    BY <2>3, ExtraNext
  <2>5. /\ Total(Declares(n), SubSeq(sig, 1, 0)) = 0
        /\ Total(Width(n), SubSeq(sig, 1, 0)) = 0
    BY <2>1, <2>2
  <2>6. Total(Declares(n), SubSeq(sig, 1, 0)) =
            4 * Total(Width(n), SubSeq(sig, 1, 0)) + 4 * Extra(sig, n, 0)
    BY <2>4, <2>5
  <2> QED
    BY <2>6
<1>2. ASSUME NEW i \in Nat, i \in P PROVE i + 1 \in P
  <2> SUFFICES ASSUME i + 1 \in 0..Len(sig)
               PROVE  Total(Declares(n), SubSeq(sig, 1, i + 1)) =
                          4 * Total(Width(n), SubSeq(sig, 1, i + 1)) + 4 * Extra(sig, n, i + 1)
    OBVIOUS
  <2> DEFINE k == i + 1
             letter == sig[k]
  <2>1. k \in 1..Len(sig) /\ k - 1 = i /\ i \in 0..Len(sig) /\ k \in Nat \ {0} /\ 1 \in Nat
    BY <1>0
  <2>2. letter # F /\ letter \in Letters
    BY <2>1, NoFloatsAre
  <2> HIDE DEF k
  <2>3. Total(Declares(n), SubSeq(sig, 1, k)) =
            Total(Declares(n), SubSeq(sig, 1, i)) + Declares(n)[sig[k]]
    BY <1>0, <2>1, TotalNext
  <2>4. Total(Width(n), SubSeq(sig, 1, k)) = Total(Width(n), SubSeq(sig, 1, i)) + Width(n)[sig[k]]
    BY <1>0, <2>1, TotalNext
  <2>5. Extra(sig, n, k) = Extra(sig, n, i) + (IF letter = S /\ n % 4 = 3 THEN 1 ELSE 0)
        /\ Extra(sig, n, i) \in Nat
    BY <2>1, ExtraNext
  <2>6. /\ Total(Declares(n), SubSeq(sig, 1, i)) =
               4 * Total(Width(n), SubSeq(sig, 1, i)) + 4 * Extra(sig, n, i)
        /\ Total(Width(n), SubSeq(sig, 1, i)) \in Nat
    <3>1. Total(Width(n), SubSeq(sig, 1, i)) = Len(Laying(1, sig, n, i))
      BY <2>1, LayingLength
    <3>2. Len(Laying(1, sig, n, i)) \in Nat
      BY <1>0, <2>1, LayingSeq
    <3> QED
      BY <1>2, <2>1, <3>1, <3>2
  <2>7. Declares(n)[letter] = BodySize(letter, n) /\ Width(n)[letter] = Advance(letter, n)
    BY <2>2 DEF Declares, Width
  <2>8. /\ BodySize(letter, n) = 4 * Advance(letter, n) + (IF letter = S /\ n % 4 = 3 THEN 4 ELSE 0)
        /\ Advance(letter, n) \in Nat
    <3> HIDE DEF letter
    <3>1. Fitting(1, n)
      BY <2>1, LaidFits
    <3>2. Advance(letter, n) \in Nat
      BY <2>1, <2>2, <3>1 DEF Fitting
    <3>3. BodySize(letter, n) = 4 * Advance(letter, n) + (IF letter = S /\ n % 4 = 3 THEN 4 ELSE 0)
      BY <2>1, <2>2, WrittenAsLaid
    <3> QED
      BY <3>2, <3>3
  <2>9. Total(Declares(n), SubSeq(sig, 1, k)) =
            4 * Total(Width(n), SubSeq(sig, 1, k)) + 4 * Extra(sig, n, k)
    <3> DEFINE dk == Total(Declares(n), SubSeq(sig, 1, k))
               di == Total(Declares(n), SubSeq(sig, 1, i))
               wk == Total(Width(n), SubSeq(sig, 1, k))
               wi == Total(Width(n), SubSeq(sig, 1, i))
               ek == Extra(sig, n, k)
               ei == Extra(sig, n, i)
               by == IF letter = S /\ n % 4 = 3 THEN 1 ELSE 0
    <3>1. /\ dk = di + (4 * Advance(letter, n) + 4 * by)
          /\ wk = wi + Advance(letter, n) /\ Advance(letter, n) \in Nat
          /\ ek = ei + by /\ ei \in Nat /\ by \in Nat
          /\ di = 4 * wi + 4 * ei /\ wi \in Nat
      <4>1. dk = di + BodySize(letter, n)
        BY <2>3, <2>7
      <4>2. BodySize(letter, n) = 4 * Advance(letter, n) + 4 * by /\ by \in Nat
        BY <2>8
      <4>3. wk = wi + Advance(letter, n)
        BY <2>4, <2>7
      <4> QED
        BY <2>5, <2>6, <2>8, <4>1, <4>2, <4>3
    <3> HIDE DEF dk, di, wk, wi, ek, ei, by
    <3>2. dk = 4 * wk + 4 * ek
      BY <3>1
    <3> QED
      BY <3>2 DEF dk, wk, ek
  <2> QED
    BY <2>9 DEF k
<1> HIDE DEF P
<1>3. j \in Nat /\ j \in P
  BY <1>1, <1>2, Induction
<1>4. Total(Declares(n), SubSeq(sig, 1, j)) =
          4 * Total(Width(n), SubSeq(sig, 1, j)) + 4 * Extra(sig, n, j)
  BY <1>3 DEF P
<1>5. 1 \in Nat
  OBVIOUS
<1>6. Len(Laying(1, sig, n, j)) = Total(Width(n), SubSeq(sig, 1, j))
  BY <1>5, LayingLength
<1> QED
  BY <1>4, <1>6

(* A request is the body the protocol asks for, and the words that are     *)
(* declared beyond it.                                                     *)
LEMMA MarshalIs ==
  ASSUME NEW sig, Plain(sig), NEW n \in Nat
  PROVE  LET words == Marshal(sig, Len(sig), n)
             expected == Body(1, sig, n)
         IN  /\ Len(words) >= Len(expected)
             /\ SubSeq(words, 1, Len(expected)) = expected
             /\ Len(words) - Len(expected) = Extra(sig, n, Len(sig))
<1> DEFINE body == FlattenSeq([k \in 1..Len(sig) |-> Written(sig[k], k, n)])
           declared == Total([letter \in Letters |-> BodySize(letter, n)], SubSeq(sig, 1, Len(sig)))
           expected == Body(1, sig, n)
           r == Marshal(sig, Len(sig), n)
           x == Extra(sig, n, Len(sig))
<1>1. sig \in Seq(Letters) /\ Len(sig) \in 0..Len(sig) /\ 1 \in Nat
  BY NoFloatsAre
<1>2. expected = Laying(1, sig, n, Len(sig)) /\ expected \in Seq(ArgWords(1))
  BY <1>1, BodyIsLaying, LayingType
<1>3. body = expected
  <2>1. \A k \in 1..Len(sig) : Written(sig[k], k, n) = Laid(1, sig[k], k, n)
    <3> SUFFICES ASSUME NEW k \in 1..Len(sig) PROVE Written(sig[k], k, n) = Laid(1, sig[k], k, n)
      OBVIOUS
    <3> DEFINE letter == sig[k]
    <3>1. letter \in Letters /\ letter # F /\ k \in Nat \ {0}
      BY <1>1, NoFloatsAre
    <3> HIDE DEF letter
    <3>2. Written(letter, k, n) = Laid(1, letter, k, n)
      BY <3>1, WrittenAsLaid
    <3> QED
      BY <3>2 DEF letter
  <2>2. [k \in 1..Len(sig) |-> Written(sig[k], k, n)] = [k \in 1..Len(sig) |-> Laid(1, sig[k], k, n)]
    BY <2>1
  <2> QED
    BY <1>2, <2>2 DEF Laying
<1>4. declared = 4 * Len(expected) + 4 * x
  BY <1>1, <1>2, Declared DEF Declares
<1>5. x \in Nat
  <2>1. Len(sig) + 1 \in Nat \ {0} /\ (Len(sig) + 1) - 1 = Len(sig)
    BY <1>1
  <2> QED
    BY <2>1, ExtraNext
<1>6. r = [w \in 1..(declared \div 4) |-> IF w <= Len(body) THEN body[w] ELSE Stale]
  BY DEF Marshal
<1> HIDE DEF body, declared, expected, r, x
<1>7. Len(expected) \in Nat /\ declared \div 4 = Len(expected) + x
  BY <1>2, <1>4, <1>5
<1>8. r = [w \in 1..(Len(expected) + x) |-> IF w <= Len(expected) THEN expected[w] ELSE Stale]
  BY <1>3, <1>6, <1>7
<1> DEFINE l == Len(expected)
<1>9. l \in Nat /\ Len(r) = l + x
  BY <1>5, <1>7, <1>8
<1>10. SubSeq(r, 1, l) = [w \in 1..l |-> expected[w]]
  <2> HIDE DEF l
  <2>1. \A w \in 1..l : r[w] = expected[w] /\ expected[w] \in ArgWords(1)
    BY <1>2, <1>5, <1>8, <1>9 DEF l
  <2>2. /\ SubSeq(r, 1, l) \in Seq(ArgWords(1))
        /\ Len(SubSeq(r, 1, l)) = IF 1 <= l THEN l - 1 + 1 ELSE 0
        /\ \A w \in 1..(l - 1 + 1) : SubSeq(r, 1, l)[w] = r[1 + w - 1]
    <3>1. 1 \in Int /\ l \in Int /\ \A w \in 1..l : r[w] \in ArgWords(1)
      BY <1>9, <2>1
    <3> QED
      BY <3>1, SubSeqProperties
  <2>3. Len(SubSeq(r, 1, l)) = l /\ \A w \in 1..l : SubSeq(r, 1, l)[w] = expected[w]
    <3>1. l - 1 + 1 = l /\ \A w \in 1..l : 1 + w - 1 = w
      BY <1>9
    <3> QED
      BY <1>9, <2>1, <2>2, <3>1
  <2> DEFINE front == SubSeq(r, 1, l)
  <2> HIDE DEF front
  <2>4. front = [w \in 1..l |-> expected[w]]
    <3>1. front \in Seq(ArgWords(1)) /\ Len(front) = l /\ \A w \in 1..l : front[w] = expected[w]
      BY <2>2, <2>3 DEF front
    <3> QED
      BY <3>1
  <2> QED
    BY <2>4 DEF front
<1>11. expected = [w \in 1..l |-> expected[w]]
  BY <1>2
<1>12. l + x >= l /\ (l + x) - l = x
  BY <1>5, <1>9
<1> QED
  BY <1>9, <1>10, <1>11, <1>12 DEF r, expected, x

-----------------------------------------------------------------------------
(* Events and messages                                                     *)

SentEvents == [iface : DOMAIN Slots, op : Nat \ {0}, len : Nat]

LEMMA Table ==
  ASSUME NEW iface \in DOMAIN Slots
  PROVE  LET table == Interfaces[iface] IN
         /\ Slots[iface] \in Seq(STRING) /\ DOMAIN Slots[iface] = 1..Len(Slots[iface])
         /\ Len(Slots[iface]) \in Nat
         /\ table.listener = Len(Slots[iface]) /\ Len(table.events) = Len(Slots[iface])
         /\ \A op \in DOMAIN Slots[iface] :
               table.events[op].name = Slots[iface][op] /\ table.events[op].sig \in Seq(Letters)
<1>1. LET table == Interfaces[iface] IN
      /\ Slots[iface] \in Seq(STRING)
      /\ table.listener = Len(Slots[iface]) /\ Len(table.events) = Len(Slots[iface])
      /\ \A op \in DOMAIN Slots[iface] :
            table.events[op].name = Slots[iface][op] /\ table.events[op].sig \in Seq(Letters)
  BY TablesAgree
<1>2. DOMAIN Slots[iface] = 1..Len(Slots[iface]) /\ Len(Slots[iface]) \in Nat
  BY <1>1
<1> QED
  BY <1>1, <1>2

(* What a message is made of.                                              *)
LEMMA SigType ==
  ASSUME NEW e \in SentEvents
  PROVE  Sig(e.iface, e.op) \in Seq(Letters)
<1>1. e.iface \in DOMAIN Slots /\ e.op \in Nat \ {0}
  BY DEF SentEvents
<1>2. CASE Known(e.iface, e.op)
  <2>1. e.op \in DOMAIN Slots[e.iface]
    BY <1>1, <1>2, Table DEF Known
  <2>2. Sig(e.iface, e.op) = Interfaces[e.iface].events[e.op].sig
    BY <1>2 DEF Sig
  <2> QED
    BY <1>1, <2>1, <2>2, Table
<1>3. CASE ~Known(e.iface, e.op)
  <2>1. Sig(e.iface, e.op) = <<>> /\ <<>> \in Seq(Letters)
    BY <1>3 DEF Sig
  <2> QED
    BY <2>1
<1> QED
  BY <1>2, <1>3

\* The words of messages up to the n-th.
Words(n) == (1..n) \X Nat \X Int

\* A message is its header and its body.
Bodied(m, e) ==
    LET x == Message(m, e)
        b == Body(m, Sig(e.iface, e.op), e.len)
    IN  /\ Len(x) = Len(b) + 2 /\ Len(b) \in Nat /\ Len(x) \in Nat
        /\ \A p \in 1..Len(b) : x[p + 2] = b[p]

LEMMA MessageIs ==
  ASSUME NEW m \in Nat \ {0}, NEW e \in SentEvents, NEW n \in Nat, m <= n
  PROVE  LET s == Message(m, e)
             b == Body(m, Sig(e.iface, e.op), e.len)
         IN  /\ s \in Seq(Words(n)) /\ Len(s) = Len(b) + 2 /\ Len(b) \in Nat
             /\ s[1] = Word(m, 0, 1) /\ IsHeader(s[1]) /\ s[1][1] = m
             /\ \A p \in 2..Len(s) : ~IsHeader(s[p])
             /\ Bodied(m, e)
<1> DEFINE s == Message(m, e)
           b == Body(m, Sig(e.iface, e.op), e.len)
           h == <<Word(m, 0, 1), Word(m, 0, 2)>>
           T == {m} \X Nat \X Int
<1>1. b \in Seq(ArgWords(m)) /\ Len(b) \in Nat
  <2>1. Sig(e.iface, e.op) \in Seq(Letters) /\ e.len \in Nat /\ m \in Nat
    BY SigType DEF SentEvents
  <2> DEFINE sig == Sig(e.iface, e.op)
  <2> HIDE DEF sig
  <2>2. sig \in Seq(Letters) /\ Len(sig) \in 0..Len(sig)
    BY <2>1 DEF sig
  <2>3. Body(m, sig, e.len) = Laying(m, sig, e.len, Len(sig))
    BY <2>2, BodyIsLaying
  <2>4. Laying(m, sig, e.len, Len(sig)) \in Seq(ArgWords(m))
    BY <2>1, <2>2, LayingType
  <2>5. Body(m, sig, e.len) \in Seq(ArgWords(m))
    BY <2>3, <2>4
  <2> QED
    BY <2>5 DEF sig
<1>2. h \in Seq(T) /\ Len(h) = 2 /\ h[1] = Word(m, 0, 1) /\ h[2] = Word(m, 0, 2)
  BY DEF Word
<1>3. b \in Seq(T)
  <2>1. ArgWords(m) \subseteq T
    BY DEF ArgWords
  <2> HIDE DEF T, b
  <2> QED
    BY <1>1, <2>1
<1>4. s = h \o b
  BY DEF Message
<1> HIDE DEF s, b, h, T
<1>5. s \in Seq(T) /\ Len(s) = 2 + Len(b)
      /\ \A p \in 1..(2 + Len(b)) : s[p] = IF p <= 2 THEN h[p] ELSE b[p - 2]
  <2>1. h \in Seq(T) /\ Len(h) = 2
    BY <1>2
  <2>2. /\ h \o b \in Seq(T) /\ Len(h \o b) = Len(h) + Len(b)
        /\ \A p \in 1..(Len(h) + Len(b)) : (h \o b)[p] = IF p <= Len(h) THEN h[p] ELSE b[p - Len(h)]
    BY <1>3, <2>1, ConcatProperties
  <2> QED
    BY <1>4, <2>1, <2>2
<1>6. s[1] = Word(m, 0, 1) /\ s[2] = Word(m, 0, 2)
  BY <1>1, <1>2, <1>5
<1>7. \A p \in 1..Len(b) : s[p + 2] = b[p] /\ b[p] \in ArgWords(m)
  <2> SUFFICES ASSUME NEW p \in 1..Len(b) PROVE s[p + 2] = b[p] /\ b[p] \in ArgWords(m)
    OBVIOUS
  <2>1. p + 2 \in 1..2 + Len(b) /\ ~(p + 2 <= 2) /\ (p + 2) - 2 = p
    BY <1>1
  <2>2. s[p + 2] = b[p]
    BY <1>5, <2>1
  <2> QED
    BY <1>1, <2>2
<1>8. \A p \in 2..Len(s) : ~IsHeader(s[p])
  <2> SUFFICES ASSUME NEW p \in 2..Len(s) PROVE ~IsHeader(s[p])
    OBVIOUS
  <2>1. CASE p = 2
    <3>1. s[p] = <<m, 0, 2>>
      BY <1>6, <2>1 DEF Word
    <3> QED
      BY <3>1 DEF IsHeader
  <2>2. CASE p # 2
    <3>1. p - 2 \in 1..Len(b) /\ (p - 2) + 2 = p
      BY <1>1, <1>5, <2>2
    <3>2. s[p] \in ArgWords(m)
      BY <1>7, <3>1
    <3>3. s[p][2] # 0
      BY <3>2 DEF ArgWords
    <3> QED
      BY <3>3 DEF IsHeader
  <2> QED
    BY <2>1, <2>2
<1>9. IsHeader(s[1]) /\ s[1][1] = m
  <2>1. s[1] = <<m, 0, 1>>
    BY <1>6 DEF Word
  <2> QED
    BY <2>1 DEF IsHeader
<1>10. s \in Seq(Words(n))
  <2>1. T \subseteq Words(n)
    <3>1. m \in 1..n
      OBVIOUS
    <3> QED
      BY <3>1 DEF T, Words
  <2> QED
    BY <1>5, <2>1
<1>11. Len(s) = Len(b) + 2
  BY <1>1, <1>5
<1>12. Bodied(m, e)
  BY <1>1, <1>7, <1>11 DEF Bodied, s, b
<1> QED
  BY <1>1, <1>6, <1>8, <1>9, <1>10, <1>11, <1>12 DEF s, b

-----------------------------------------------------------------------------
(* The stream as a sequence of messages                                    *)

\* The messages from the one after a up to b.
Between(w, a, b) == FlattenSeq([i \in 1..(b - a) |-> Message(a + i, w[a + i])])

\* Between(w, a, b) makes sense.
Sound(w, a, b) == w \in Seq(SentEvents) /\ a \in Nat /\ b \in Nat /\ a <= b /\ b <= Len(w)

LEMMA MessageType ==
  ASSUME NEW w \in Seq(SentEvents), NEW m \in 1..Len(w)
  PROVE  /\ Message(m, w[m]) \in Seq(Words(Len(w)))
         /\ Len(Message(m, w[m])) \in Nat /\ Len(Message(m, w[m])) >= 2
         /\ Message(m, w[m])[1] = Word(m, 0, 1)
         /\ IsHeader(Message(m, w[m])[1]) /\ Message(m, w[m])[1][1] = m
         /\ \A p \in 2..Len(Message(m, w[m])) : ~IsHeader(Message(m, w[m])[p])
<1> DEFINE e == w[m]
           n == Len(w)
<1>1. e \in SentEvents /\ n \in Nat /\ m \in Nat \ {0} /\ m <= n
  OBVIOUS
<1> HIDE DEF e, n
<1>2. /\ Message(m, e) \in Seq(Words(n))
      /\ Len(Message(m, e)) = Len(Body(m, Sig(e.iface, e.op), e.len)) + 2
      /\ Len(Body(m, Sig(e.iface, e.op), e.len)) \in Nat
      /\ Message(m, e)[1] = Word(m, 0, 1)
      /\ IsHeader(Message(m, e)[1]) /\ Message(m, e)[1][1] = m
      /\ \A p \in 2..Len(Message(m, e)) : ~IsHeader(Message(m, e)[p])
  BY <1>1, MessageIs
<1>3. Len(Message(m, e)) \in Nat /\ Len(Message(m, e)) >= 2
  BY <1>2
<1> QED
  BY <1>2, <1>3 DEF e, n

LEMMA BetweenType ==
  ASSUME NEW w, NEW a, NEW b, Sound(w, a, b)
  PROVE  /\ [i \in 1..(b - a) |-> Message(a + i, w[a + i])] \in Seq(Seq(Words(Len(w))))
         /\ Between(w, a, b) \in Seq(Words(Len(w)))
<1>1. w \in Seq(SentEvents) /\ b - a \in Nat
      /\ \A i \in 1..(b - a) : a + i \in 1..Len(w)
  BY DEF Sound
<1>2. ASSUME NEW i \in 1..(b - a) PROVE Message(a + i, w[a + i]) \in Seq(Words(Len(w)))
  <2> DEFINE m == a + i
  <2>1. m \in 1..Len(w)
    BY <1>1
  <2> HIDE DEF m
  <2>2. Message(m, w[m]) \in Seq(Words(Len(w)))
    BY <1>1, <2>1, MessageType
  <2> QED
    BY <2>2 DEF m
<1>3. [i \in 1..(b - a) |-> Message(a + i, w[a + i])] \in Seq(Seq(Words(Len(w))))
  <2> DEFINE n == b - a
             Q == Seq(Words(Len(w)))
             X(i) == Message(a + i, w[a + i])
  <2>1. n \in Nat /\ \A i \in 1..n : X(i) \in Q
    BY <1>1, <1>2
  <2> HIDE DEF n, Q, X
  <2>2. [i \in 1..n |-> X(i)] \in Seq(Q)
    BY <2>1
  <2> QED
    BY <2>2 DEF n, Q, X
<1> QED
  BY <1>3, FlattenType DEF Between

LEMMA BetweenNone ==
  ASSUME NEW w, NEW a \in Nat
  PROVE  Between(w, a, a) = <<>>
<1>1. [i \in 1..(a - a) |-> Message(a + i, w[a + i])] = <<>>
  OBVIOUS
<1> QED
  BY <1>1, FlattenEmpty DEF Between

LEMMA BetweenNext ==
  ASSUME NEW w, NEW a, NEW b, Sound(w, a, b), b + 1 <= Len(w)
  PROVE  /\ Between(w, a, b + 1) = Between(w, a, b) \o Message(b + 1, w[b + 1])
         /\ Message(b + 1, w[b + 1]) \in Seq(Words(Len(w)))
<1> DEFINE s == [i \in 1..(b - a) |-> Message(a + i, w[a + i])]
           t == [i \in 1..((b + 1) - a) |-> Message(a + i, w[a + i])]
           x == Message(b + 1, w[b + 1])
<1>0. /\ w \in Seq(SentEvents) /\ a \in Nat /\ b \in Nat /\ a <= b
      /\ b + 1 \in 1..Len(w) /\ b + 1 \in Nat /\ Sound(w, a, b + 1)
  BY DEF Sound
<1>1. s \in Seq(Seq(Words(Len(w))))
  BY BetweenType
<1>2. t \in Seq(Seq(Words(Len(w))))
  BY <1>0, BetweenType
<1>3. x \in Seq(Words(Len(w)))
  <2> DEFINE m == b + 1
  <2>1. m \in 1..Len(w)
    BY <1>0
  <2> HIDE DEF m
  <2>2. Message(m, w[m]) \in Seq(Words(Len(w)))
    BY <1>0, <2>1, MessageType
  <2> QED
    BY <2>2 DEF m
<1>4. /\ Len(t) = Len(s) + 1 /\ Len(s) \in Nat
      /\ \A i \in 1..Len(s) : t[i] = s[i]
  <2>1. b - a \in Nat /\ (b + 1) - a = (b - a) + 1 /\ (b + 1) - a \in Nat
    BY <1>0
  <2>2. Len(s) = b - a /\ Len(t) = (b + 1) - a
    BY <2>1
  <2>3. \A i \in 1..(b - a) : i \in 1..((b + 1) - a)
    BY <1>0
  <2> QED
    BY <2>1, <2>2, <2>3
<1>5. t[Len(s) + 1] = x
  <2>1. (b + 1) - a \in 1..((b + 1) - a) /\ a + ((b + 1) - a) = b + 1 /\ Len(s) + 1 = (b + 1) - a
    BY <1>0
  <2>2. t[(b + 1) - a] = Message(a + ((b + 1) - a), w[a + ((b + 1) - a)])
    BY <2>1
  <2> QED
    BY <2>1, <2>2
<1>6. Between(w, a, b + 1) = FlattenSeq(t) /\ Between(w, a, b) = FlattenSeq(s)
  BY DEF Between
<1> HIDE DEF s, t, x
<1>7. t = Append(s, x)
  BY <1>1, <1>2, <1>3, <1>4, <1>5
<1>8. FlattenSeq(t) = FlattenSeq(s) \o x
  BY <1>1, <1>3, <1>7, FlattenAppend
<1> QED
  BY <1>3, <1>6, <1>8 DEF x

(* Events that are sent later change nothing of it.                        *)
LEMMA BetweenGrown ==
  ASSUME NEW w, NEW a, NEW b, Sound(w, a, b), NEW e \in SentEvents
  PROVE  Between(Append(w, e), a, b) = Between(w, a, b)
<1> DEFINE v == Append(w, e)
<1>1. \A i \in 1..(b - a) : v[a + i] = w[a + i]
  <2>1. w \in Seq(SentEvents) /\ \A i \in 1..(b - a) : a + i \in 1..Len(w)
    BY DEF Sound
  <2>2. \A p \in 1..Len(w) : v[p] = w[p]
    BY <2>1
  <2> HIDE DEF v
  <2> QED
    BY <2>1, <2>2
<1> HIDE DEF v
<1>2. [i \in 1..(b - a) |-> Message(a + i, v[a + i])] = [i \in 1..(b - a) |-> Message(a + i, w[a + i])]
  BY <1>1
<1>3. Between(v, a, b) = Between(w, a, b)
  BY <1>2 DEF Between
<1> QED
  BY <1>3 DEF v

LEMMA BetweenJoin ==
  ASSUME NEW w, NEW a, NEW j, NEW b, Sound(w, a, j), Sound(w, j, b)
  PROVE  Between(w, a, j) \o Between(w, j, b) = Between(w, a, b)
<1> DEFINE T == Words(Len(w))
           P == {d \in Nat : j + d <= Len(w) =>
                    Between(w, a, j) \o Between(w, j, j + d) = Between(w, a, j + d)}
<1>0. w \in Seq(SentEvents) /\ Len(w) \in Nat /\ a \in Nat /\ j \in Nat /\ b \in Nat /\ a <= j /\ j <= b
      /\ b <= Len(w)
  BY DEF Sound
<1>1. Between(w, a, j) \in Seq(T)
  BY BetweenType
<1>2. 0 \in P
  <2>1. j + 0 = j
    BY <1>0
  <2>2. Between(w, j, j) = <<>>
    BY <1>0, BetweenNone
  <2>3. Between(w, a, j) \o <<>> = Between(w, a, j)
    BY <1>1, ConcatEmptySeq
  <2>4. Between(w, a, j) \o Between(w, j, j + 0) = Between(w, a, j + 0)
    BY <2>1, <2>2, <2>3
  <2> QED
    BY <2>4
<1>3. ASSUME NEW d \in Nat, d \in P PROVE d + 1 \in P
  <2> SUFFICES ASSUME j + (d + 1) <= Len(w)
               PROVE  Between(w, a, j) \o Between(w, j, j + (d + 1)) = Between(w, a, j + (d + 1))
    OBVIOUS
  <2> DEFINE k == j + d
             x == Message(k + 1, w[k + 1])
  <2>1. k \in Nat /\ k + 1 = j + (d + 1) /\ k + 1 <= Len(w) /\ k <= Len(w) /\ a <= k /\ j <= k
    BY <1>0
  <2>2. Between(w, a, j) \o Between(w, j, k) = Between(w, a, k)
    BY <1>3, <2>1
  <2> HIDE DEF k
  <2>3. Sound(w, a, k) /\ Sound(w, j, k)
    BY <1>0, <2>1 DEF Sound
  <2>4. Between(w, j, k + 1) = Between(w, j, k) \o x /\ x \in Seq(T)
    BY <2>1, <2>3, BetweenNext
  <2>5. Between(w, a, k + 1) = Between(w, a, k) \o x
    BY <2>1, <2>3, BetweenNext
  <2>6. Between(w, j, k) \in Seq(T)
    BY <2>3, BetweenType
  <2> DEFINE f == Between(w, a, j)
             g == Between(w, j, k)
  <2> HIDE DEF f, g, x, T
  <2>7. f \o (g \o x) = (f \o g) \o x
    <3>1. f \in Seq(T) /\ g \in Seq(T) /\ x \in Seq(T)
      BY <1>1, <2>4, <2>6 DEF f, g
    <3> QED
      BY <3>1, ConcatAssociative, SMTT(30)
  <2>8. Between(w, a, j) \o Between(w, j, k + 1) = Between(w, a, k + 1)
    BY <2>2, <2>4, <2>5, <2>7 DEF f, g
  <2> QED
    BY <2>1, <2>8
<1> HIDE DEF P
<1>4. b - j \in Nat /\ j + (b - j) = b
  BY <1>0
<1>5. b - j \in P
  BY <1>2, <1>3, <1>4, Induction
<1>6. Between(w, a, j) \o Between(w, j, j + (b - j)) = Between(w, a, j + (b - j))
  <2> DEFINE c == b - j
  <2>1. c \in P /\ j + c <= Len(w)
    BY <1>0, <1>4, <1>5
  <2> HIDE DEF c
  <2>2. Between(w, a, j) \o Between(w, j, j + c) = Between(w, a, j + c)
    BY <2>1 DEF P
  <2> QED
    BY <2>2 DEF c
<1> QED
  BY <1>4, <1>6

(* The first message of several.                                           *)
LEMMA BetweenFirst ==
  ASSUME NEW w, NEW a, NEW b, Sound(w, a, b), a < b
  PROVE  /\ a + 1 \in 1..Len(w) /\ Sound(w, a + 1, b)
         /\ Between(w, a, b) = Message(a + 1, w[a + 1]) \o Between(w, a + 1, b)
<1>1. Sound(w, a, a) /\ Sound(w, a, a + 1) /\ Sound(w, a + 1, b) /\ a + 1 <= Len(w) /\ a \in Nat
      /\ a + 1 \in 1..Len(w)
  BY DEF Sound
<1> DEFINE x == Message(a + 1, w[a + 1])
<1>2. Between(w, a, a + 1) = Between(w, a, a) \o x /\ x \in Seq(Words(Len(w)))
  BY <1>1, BetweenNext
<1>3. Between(w, a, a) = <<>>
  BY <1>1, BetweenNone
<1> DEFINE c == a + 1
<1>4. Between(w, a, c) \o Between(w, c, b) = Between(w, a, b)
  <2>1. Sound(w, a, c) /\ Sound(w, c, b)
    BY <1>1
  <2> HIDE DEF c
  <2> QED
    BY <2>1, BetweenJoin
<1> HIDE DEF x
<1>5. Between(w, a, c) = x
  BY <1>2, <1>3, ConcatEmptySeq
<1> QED
  BY <1>1, <1>4, <1>5 DEF x

-----------------------------------------------------------------------------
(* What lies behind a header                                               *)

Msg(w, word) == Message(word[1], w[word[1]])

\* Behind a header comes its message, as far as the sequence goes.
Follows(s, w) ==
    \A p \in 1..Len(s) : IsHeader(s[p]) =>
        \A q \in 1..Len(Msg(w, s[p])) :
            p + q - 1 <= Len(s) => s[p + q - 1] = Msg(w, s[p])[q]

\* All of it.
Complete(s, w) ==
    \A p \in 1..Len(s) : IsHeader(s[p]) => p + Len(Msg(w, s[p])) - 1 <= Len(s)

\* Headers come in the order of their messages.
Rising(s) ==
    \A p, q \in 1..Len(s) :
        p < q /\ IsHeader(s[p]) /\ IsHeader(s[q]) => s[p][1] < s[q][1]

LEMMA MsgLong ==
  ASSUME NEW w \in Seq(SentEvents), NEW s \in Seq(Words(Len(w))), NEW p \in 1..Len(s)
  PROVE  s[p][1] \in 1..Len(w) /\ Len(Msg(w, s[p])) \in Nat /\ Len(Msg(w, s[p])) >= 2
<1>1. s[p] \in Words(Len(w))
  OBVIOUS
<1>2. s[p][1] \in 1..Len(w)
  BY <1>1 DEF Words
<1> DEFINE m == s[p][1]
<1> HIDE DEF m
<1>3. m \in 1..Len(w)
  BY <1>2 DEF m
<1>4. Len(Message(m, w[m])) \in Nat /\ Len(Message(m, w[m])) >= 2
  BY <1>3, MessageType
<1> QED
  BY <1>2, <1>4 DEF Msg, m

\* t is what s has from behind d on, or a front of that.
Slice(t, s, d) ==
    /\ Len(s) \in Nat /\ Len(t) \in Nat /\ d \in Nat /\ d + Len(t) <= Len(s)
    /\ \A p \in 1..Len(t) : t[p] = s[d + p]

LEMMA SliceFollows ==
  ASSUME NEW w \in Seq(SentEvents), NEW s \in Seq(Words(Len(w))), NEW t, NEW d, Slice(t, s, d)
  PROVE  /\ Follows(s, w) => Follows(t, w)
         /\ Rising(s) => Rising(t)
         /\ Complete(s, w) /\ d + Len(t) = Len(s) => Complete(t, w)
<1>1. /\ d \in Nat /\ Len(t) \in Nat /\ Len(s) \in Nat /\ d + Len(t) <= Len(s)
      /\ \A p \in 1..Len(t) : t[p] = s[d + p] /\ d + p \in 1..Len(s)
  BY DEF Slice
<1>2. \A p \in 1..Len(s) : Len(Msg(w, s[p])) \in Nat
  BY MsgLong
<1>3. ASSUME Follows(s, w) PROVE Follows(t, w)
  <2> SUFFICES ASSUME NEW p \in 1..Len(t), IsHeader(t[p]), NEW q \in 1..Len(Msg(w, t[p])),
                      p + q - 1 <= Len(t)
               PROVE  t[p + q - 1] = Msg(w, t[p])[q]
    BY DEF Follows
  <2> DEFINE k == p + q - 1
             h == d + p
  <2>1. t[p] = s[h] /\ h \in 1..Len(s)
    BY <1>1
  <2>2. Len(Msg(w, s[h])) \in Nat
    BY <1>2, <2>1
  <2>3. q \in Nat /\ q >= 1
    BY <2>1, <2>2
  <2>4. k \in 1..Len(t) /\ h + q - 1 = d + k /\ h + q - 1 <= Len(s)
    BY <1>1, <2>3
  <2>5. t[k] = s[d + k]
    BY <1>1, <2>4
  <2>6. q \in 1..Len(Msg(w, s[h])) /\ IsHeader(s[h])
    BY <2>1
  <2> HIDE DEF h, k
  <2>7. s[h + q - 1] = Msg(w, s[h])[q]
    BY <1>3, <2>1, <2>4, <2>6 DEF Follows
  <2>8. t[k] = Msg(w, t[p])[q]
    BY <2>1, <2>4, <2>5, <2>7
  <2> QED
    BY <2>8 DEF k
<1>4. ASSUME Rising(s) PROVE Rising(t)
  <2> SUFFICES ASSUME NEW p \in 1..Len(t), NEW q \in 1..Len(t), p < q, IsHeader(t[p]), IsHeader(t[q])
               PROVE  t[p][1] < t[q][1]
    BY DEF Rising
  <2>1. d + p \in 1..Len(s) /\ d + q \in 1..Len(s) /\ d + p < d + q
    BY <1>1
  <2>2. t[p] = s[d + p] /\ t[q] = s[d + q]
    BY <1>1
  <2> QED
    BY <1>4, <2>1, <2>2 DEF Rising
<1>5. ASSUME Complete(s, w), d + Len(t) = Len(s) PROVE Complete(t, w)
  <2> SUFFICES ASSUME NEW p \in 1..Len(t), IsHeader(t[p])
               PROVE  p + Len(Msg(w, t[p])) - 1 <= Len(t)
    BY DEF Complete
  <2> DEFINE h == d + p
             l == Len(Msg(w, s[h]))
  <2>1. t[p] = s[h] /\ h \in 1..Len(s)
    BY <1>1
  <2>2. l \in Nat
    BY <1>2, <2>1
  <2>3. h + l - 1 <= Len(s)
    <3> HIDE DEF h
    <3> QED
      BY <1>5, <2>1 DEF Complete
  <2> HIDE DEF l
  <2>4. p + l - 1 <= Len(t)
    BY <1>1, <1>5, <2>2, <2>3
  <2> QED
    BY <2>1, <2>4 DEF l
<1> QED
  BY <1>3, <1>4, <1>5

(* Events that are sent later change nothing of it.                        *)
LEMMA FollowsGrown ==
  ASSUME NEW w \in Seq(SentEvents), NEW s \in Seq(Words(Len(w))), NEW e \in SentEvents
  PROVE  /\ Follows(s, w) => Follows(s, Append(w, e))
         /\ Complete(s, w) => Complete(s, Append(w, e))
<1> DEFINE v == Append(w, e)
<1>1. \A i \in 1..Len(w) : v[i] = w[i]
  OBVIOUS
<1>2. \A p \in 1..Len(s) : s[p][1] \in 1..Len(w)
  BY MsgLong
<1> HIDE DEF v
<1>3. \A p \in 1..Len(s) : Msg(v, s[p]) = Msg(w, s[p])
  BY <1>1, <1>2 DEF Msg
<1>4. Follows(s, w) => Follows(s, v)
  BY <1>3 DEF Follows
<1>5. Complete(s, w) => Complete(s, v)
  BY <1>3 DEF Complete
<1> QED
  BY <1>4, <1>5 DEF v

(* A message more.                                                         *)
LEMMA FollowsJoin ==
  ASSUME NEW w \in Seq(SentEvents), NEW s \in Seq(Words(Len(w))), NEW m \in 1..Len(w),
         Follows(s, w), Complete(s, w), Rising(s),
         \A p \in 1..Len(s) : IsHeader(s[p]) => s[p][1] < m
  PROVE  LET t == s \o Message(m, w[m]) IN
         /\ t \in Seq(Words(Len(w)))
         /\ Follows(t, w) /\ Complete(t, w) /\ Rising(t)
         /\ \A p \in 1..Len(t) : IsHeader(t[p]) => (p \in 1..Len(s) /\ t[p] = s[p]) \/ t[p][1] = m
<1> DEFINE x == Message(m, w[m])
           t == s \o x
           l == Len(s)
<1>1. /\ x \in Seq(Words(Len(w))) /\ Len(x) \in Nat /\ IsHeader(x[1]) /\ x[1][1] = m
      /\ \A p \in 2..Len(x) : ~IsHeader(x[p])
  BY MessageType
<1>2. l \in Nat
  OBVIOUS
<1>3. /\ t \in Seq(Words(Len(w))) /\ Len(t) = l + Len(x)
      /\ \A p \in 1..(l + Len(x)) : t[p] = IF p <= l THEN s[p] ELSE x[p - l]
  <2> HIDE DEF x
  <2> QED
    BY <1>1, ConcatProperties
<1>4. Msg(w, x[1]) = x
  BY <1>1 DEF Msg
<1>5. \A p \in 1..l : Len(Msg(w, s[p])) \in Nat
  BY MsgLong
<1> HIDE DEF x, t, l
<1>6. ASSUME NEW p \in 1..Len(t)
      PROVE  \/ p \in 1..l /\ t[p] = s[p]
             \/ p - l \in 1..Len(x) /\ t[p] = x[p - l] /\ (IsHeader(t[p]) => p = l + 1 /\ t[p] = x[1])
  <2>1. CASE p <= l
    BY <1>1, <1>2, <1>3, <2>1
  <2>2. CASE ~(p <= l)
    <3>1. p - l \in 1..Len(x) /\ t[p] = x[p - l]
      BY <1>1, <1>2, <1>3, <2>2
    <3>2. p - l = 1 \/ p - l \in 2..Len(x)
      BY <1>1, <3>1
    <3>3. IsHeader(t[p]) => p - l = 1
      BY <1>1, <3>1, <3>2
    <3> QED
      BY <1>2, <3>1, <3>3
  <2> QED
    BY <2>1, <2>2
<1>7. ASSUME NEW p \in 1..Len(t), IsHeader(t[p])
      PROVE  /\ p + Len(Msg(w, t[p])) - 1 <= Len(t)
             /\ \A q \in 1..Len(Msg(w, t[p])) : t[p + q - 1] = Msg(w, t[p])[q]
  <2>1. CASE p \in 1..l /\ t[p] = s[p]
    <3> DEFINE k == Len(Msg(w, s[p]))
    <3>1. IsHeader(s[p]) /\ k \in Nat
      BY <1>5, <1>7, <2>1
    <3>2. p + k - 1 <= l
      BY <2>1, <3>1 DEF Complete, l
    <3>3. \A q \in 1..k : p + q - 1 <= l /\ s[p + q - 1] = Msg(w, s[p])[q]
      <4>1. \A q \in 1..k : p + q - 1 <= l => s[p + q - 1] = Msg(w, s[p])[q]
        BY <2>1, <3>1 DEF Follows, l
      <4> HIDE DEF k
      <4>2. \A q \in 1..k : p + q - 1 <= l
        BY <1>2, <2>1, <3>1, <3>2
      <4> QED
        BY <4>1, <4>2
    <3> HIDE DEF k
    <3>4. ASSUME NEW q \in 1..k PROVE t[p + q - 1] = s[p + q - 1]
      <4>1. p + q - 1 \in 1..l
        BY <1>2, <2>1, <3>1, <3>3
      <4>2. p + q - 1 \in 1..(l + Len(x)) /\ p + q - 1 <= l
        BY <1>1, <1>2, <4>1
      <4> QED
        BY <1>3, <4>2
    <3>5. p + k - 1 <= Len(t)
      BY <1>1, <1>2, <1>3, <2>1, <3>1, <3>2
    <3> QED
      BY <2>1, <3>3, <3>4, <3>5 DEF k
  <2>2. CASE p = l + 1 /\ t[p] = x[1]
    <3>1. Msg(w, t[p]) = x
      BY <1>4, <2>2
    <3>2. ASSUME NEW q \in 1..Len(x) PROVE t[p + q - 1] = x[q]
      <4>1. p + q - 1 = l + q
        BY <1>1, <1>2, <2>2
      <4>2. l + q \in 1..(l + Len(x)) /\ ~(l + q <= l) /\ (l + q) - l = q
        BY <1>1, <1>2
      <4>3. t[l + q] = x[q]
        BY <1>3, <4>2
      <4> QED
        BY <4>1, <4>3
    <3>3. p + Len(x) - 1 <= Len(t)
      BY <1>1, <1>2, <1>3, <2>2
    <3> QED
      BY <3>1, <3>2, <3>3
  <2> QED
    BY <1>6, <1>7, <2>1, <2>2
<1>8. Follows(t, w) /\ Complete(t, w)
  BY <1>7 DEF Follows, Complete
<1>9. Rising(t)
  <2> SUFFICES ASSUME NEW p \in 1..Len(t), NEW q \in 1..Len(t), p < q, IsHeader(t[p]), IsHeader(t[q])
               PROVE  t[p][1] < t[q][1]
    BY DEF Rising
  <2>1. CASE q \in 1..l /\ t[q] = s[q]
    <3>1. p \in 1..l
      BY <1>1, <1>2, <1>3, <2>1
    <3>2. t[p] = s[p]
      BY <1>1, <1>2, <1>3, <3>1
    <3> QED
      BY <2>1, <3>1, <3>2 DEF Rising, l
  <2>2. CASE q = l + 1 /\ t[q] = x[1]
    <3>1. p \in 1..l
      BY <1>1, <1>2, <1>3, <2>2
    <3>2. t[p] = s[p]
      BY <1>1, <1>2, <1>3, <3>1
    <3> QED
      BY <1>1, <2>2, <3>1, <3>2 DEF l
  <2> QED
    BY <1>6, <2>1, <2>2
<1>10. ASSUME NEW p \in 1..Len(t), IsHeader(t[p]) PROVE (p \in 1..l /\ t[p] = s[p]) \/ t[p][1] = m
  BY <1>1, <1>6, <1>10
<1> QED
  BY <1>3, <1>8, <1>9, <1>10 DEF t, l, x

-----------------------------------------------------------------------------
(* The invariant                                                           *)

Ranges ==
    /\ sent \in Seq(SentEvents)
    /\ stream \in Seq(Words(Len(sent))) /\ buffer \in Seq(Words(Len(sent)))
    /\ at \in Nat \ {0}
    /\ \E T : handled \in Seq(T)
    /\ \A i \in 1..Len(handled) : handled[i].m \in 1..Len(sent)

\* The request is that of the call.
Marshalled ==
    call # NoCall =>
        LET rq == Interfaces[call.iface].requests[call.fn]
        IN  /\ call.iface \in DOMAIN API /\ call.fn \in DOMAIN API[call.iface]
            /\ call.len \in Nat
            /\ request = Marshal(Interfaces[call.iface].requests[rq.op + 1].sig, rq.argc, call.len)

\* In the buffer and on the socket lie messages, those in the buffer before
\* those on the socket, and what was handled came before all that is to come.
Framed ==
    /\ Follows(buffer, sent) /\ Rising(buffer)
    /\ Follows(stream, sent) /\ Complete(stream, sent) /\ Rising(stream)
    /\ \A p \in 1..Len(buffer), q \in 1..Len(stream) :
           IsHeader(buffer[p]) /\ IsHeader(stream[q]) => buffer[p][1] < stream[q][1]

Later ==
    /\ \A i \in 1..Len(handled) :
           /\ \A p \in 1..Len(buffer) :
                  p >= at /\ IsHeader(buffer[p]) => handled[i].m < buffer[p][1]
           /\ \A q \in 1..Len(stream) : IsHeader(stream[q]) => handled[i].m < stream[q][1]
    /\ \A i, j \in 1..Len(handled) : i < j => handled[i].m < handled[j].m

\* Nothing is lost: what is to come are the messages after those handled, up to
\* the j-th in the buffer and the others on the socket.
Exact(j) ==
    /\ j \in Len(handled)..Len(sent)
    /\ SubSeq(buffer, at, Len(buffer)) = Between(sent, Len(handled), j)
    /\ stream = Between(sent, j, Len(sent))
    /\ \A i \in 1..Len(handled) : handled[i].m = i /\ handled[i].whole

Lossless == ~full /\ undefined = "no" => \E j \in Nat : Exact(j)

IInv == /\ Ranges /\ Marshalled /\ Framed /\ Later /\ Lossless
        /\ UndefinedExplained /\ ListenedIntact

\* What ListenedIntact says of one event.
Intact(h, e) ==
    /\ h.slot = Interfaces[e.iface].events[e.op].name
    /\ e.iface \in DOMAIN Uses /\ h.slot \in DOMAIN Uses[e.iface] /\ h.whole =>
           \A use \in Uses[e.iface][h.slot] : h.args[use[1]] = Right(h.m, use[2], use[1])

LEMMA IntactIs ==
  ASSUME NEW T, handled \in Seq(T)
  PROVE  ListenedIntact <=> \A i \in 1..Len(handled) : Intact(handled[i], sent[handled[i].m])
<1>1. DOMAIN handled = 1..Len(handled)
  OBVIOUS
<1> QED
  BY <1>1 DEF ListenedIntact, Intact

LEMMA InitIInv == Init => IInv
<1> SUFFICES ASSUME Init PROVE IInv
  OBVIOUS
<1>1. /\ call = NoCall /\ sent = <<>> /\ stream = <<>> /\ handled = <<>> /\ buffer = <<>> /\ at = 1
      /\ full = FALSE /\ undefined = "no"
      /\ Len(sent) = 0 /\ Len(stream) = 0 /\ Len(buffer) = 0 /\ Len(handled) = 0
  BY DEF Init
<1>2. Ranges
  <2>1. handled \in Seq(Nat)
    BY <1>1
  <2> QED
    BY <1>1, <2>1 DEF Ranges
<1>3. Marshalled
  BY <1>1 DEF Marshalled
<1>4. Framed /\ Later
  BY <1>1 DEF Framed, Later, Follows, Complete, Rising
<1>5. Lossless
  <2>1. Between(sent, 0, 0) = <<>>
    BY BetweenNone
  <2>2. SubSeq(buffer, at, Len(buffer)) = <<>>
    BY <1>1, SubSeqEmpty
  <2>3. Between(sent, Len(handled), 0) = <<>> /\ Between(sent, 0, Len(sent)) = <<>>
    BY <1>1, <2>1
  <2>4. 0 \in Len(handled)..Len(sent) /\ \A i \in 1..Len(handled) : FALSE
    BY <1>1
  <2>5. Exact(0)
    BY <1>1, <2>2, <2>3, <2>4 DEF Exact
  <2> QED
    BY <2>5 DEF Lossless
<1>6. UndefinedExplained
  BY <1>1 DEF UndefinedExplained
<1>7. ListenedIntact
  BY <1>1 DEF ListenedIntact
<1> QED
  BY <1>2, <1>3, <1>4, <1>5, <1>6, <1>7 DEF IInv

(* A step that leaves the events alone.                                    *)
LEMMA EventsAlone ==
  ASSUME IInv, UNCHANGED events, Marshalled'
  PROVE  IInv'
<1>1. /\ sent' = sent /\ stream' = stream /\ buffer' = buffer /\ at' = at /\ handled' = handled
      /\ full' = full /\ undefined' = undefined
  BY DEF events
<1>2. Ranges' /\ Framed' /\ Later'
  BY <1>1 DEF IInv, Ranges, Framed, Later
<1>3. Lossless'
  BY <1>1 DEF IInv, Lossless, Exact
<1>4. UndefinedExplained' /\ ListenedIntact'
  BY <1>1 DEF IInv, UndefinedExplained, ListenedIntact
<1> QED
  BY <1>2, <1>3, <1>4 DEF IInv

LEMMA CallStep ==
  ASSUME IInv, Call
  PROVE  IInv'
<1>1. PICK iface \in DOMAIN API : \E fn \in DOMAIN API[iface] : \E n \in Lengths :
          LET rq == Interfaces[iface].requests[fn]
          IN  /\ call' = [iface |-> iface, fn |-> fn, len |-> n]
              /\ request' = Marshal(Interfaces[iface].requests[rq.op + 1].sig, rq.argc, n)
  BY DEF Call
<1>2. PICK fn \in DOMAIN API[iface] : \E n \in Lengths :
          LET rq == Interfaces[iface].requests[fn]
          IN  /\ call' = [iface |-> iface, fn |-> fn, len |-> n]
              /\ request' = Marshal(Interfaces[iface].requests[rq.op + 1].sig, rq.argc, n)
  BY <1>1
<1>3. PICK n \in Lengths :
          LET rq == Interfaces[iface].requests[fn]
          IN  /\ call' = [iface |-> iface, fn |-> fn, len |-> n]
              /\ request' = Marshal(Interfaces[iface].requests[rq.op + 1].sig, rq.argc, n)
  BY <1>2
<1>4. call'.iface = iface /\ call'.fn = fn /\ call'.len = n
  BY <1>3
<1>5. n \in Nat
  BY WireAssumption
<1>6. Marshalled'
  BY <1>3, <1>4, <1>5 DEF Marshalled
<1> QED
  BY <1>6, EventsAlone DEF Call

(* The compositor sends an event.                                          *)
LEMMA SendStep ==
  ASSUME IInv, Send
  PROVE  IInv'
<1>1. PICK e \in SentEvents : sent' = Append(sent, e) /\ stream' = stream \o Message(Len(sent) + 1, e)
  <2>1. PICK iface \in DOMAIN Slots : \E op \in 1..(Len(Slots[iface]) + (IF Newer THEN 1 ELSE 0)) :
           \E n \in Lengths :
              LET e == [iface |-> iface, op |-> op, len |-> n]
              IN  sent' = Append(sent, e) /\ stream' = stream \o Message(Len(sent) + 1, e)
    BY DEF Send
  <2>2. PICK op \in 1..(Len(Slots[iface]) + (IF Newer THEN 1 ELSE 0)), n \in Lengths :
              LET e == [iface |-> iface, op |-> op, len |-> n]
              IN  sent' = Append(sent, e) /\ stream' = stream \o Message(Len(sent) + 1, e)
    BY <2>1
  <2> DEFINE e == [iface |-> iface, op |-> op, len |-> n]
  <2>3. Len(Slots[iface]) \in Nat
    BY Table
  <2>4. op \in Nat \ {0}
    BY <2>3
  <2>5. n \in Nat
    BY WireAssumption
  <2>6. e \in SentEvents
    BY <2>4, <2>5 DEF SentEvents
  <2> QED
    BY <2>2, <2>6
<1>2. /\ UNCHANGED <<call, request, buffer, at, handled, full, undefined>> /\ undefined = "no"
  BY DEF Send
<1> DEFINE m == Len(sent) + 1
           w == sent'
           x == Message(m, w[m])
<1>3. /\ sent \in Seq(SentEvents) /\ w \in Seq(SentEvents) /\ Len(w) = m /\ m \in 1..Len(w) /\ w[m] = e
      /\ Len(sent) \in Nat /\ m = Len(sent) + 1 /\ \A i \in 1..Len(sent) : w[i] = sent[i]
  BY <1>1 DEF IInv, Ranges
<1>4. stream' = stream \o x
  BY <1>1, <1>3
<1>5. /\ stream \in Seq(Words(Len(sent))) /\ buffer \in Seq(Words(Len(sent)))
      /\ stream \in Seq(Words(Len(w))) /\ buffer \in Seq(Words(Len(w)))
  <2>1. Words(Len(sent)) \subseteq Words(Len(w))
    <3>1. 1..Len(sent) \subseteq 1..Len(w)
      BY <1>3
    <3> QED
      BY <3>1 DEF Words
  <2>2. stream \in Seq(Words(Len(sent))) /\ buffer \in Seq(Words(Len(sent)))
    BY DEF IInv, Ranges
  <2> QED
    BY <2>1, <2>2
<1>6. /\ \A p \in 1..Len(stream) : stream[p][1] \in 1..Len(sent)
      /\ \A p \in 1..Len(buffer) : buffer[p][1] \in 1..Len(sent)
  BY <1>3, <1>5, MsgLong
<1>7. Follows(buffer, w) /\ Follows(stream, w) /\ Complete(stream, w)
  <2>1. Follows(buffer, sent) /\ Follows(stream, sent) /\ Complete(stream, sent)
    BY DEF IInv, Framed
  <2> QED
    BY <1>1, <1>3, <1>5, <2>1, FollowsGrown
<1>8. Rising(stream) /\ \A p \in 1..Len(stream) : IsHeader(stream[p]) => stream[p][1] < m
  <2>1. Rising(stream)
    BY DEF IInv, Framed
  <2> QED
    BY <1>3, <1>6, <2>1
<1>9. \E T : handled \in Seq(T)
  BY DEF IInv, Ranges
<1>10. PICK T : handled \in Seq(T)
  BY <1>9
<1>11. \A i \in 1..Len(handled) : handled[i].m \in 1..Len(sent)
  BY DEF IInv, Ranges
<1> HIDE DEF m, w, x
<1>12. LET t == stream' IN
       /\ t \in Seq(Words(Len(w))) /\ Follows(t, w) /\ Complete(t, w) /\ Rising(t)
       /\ \A p \in 1..Len(t) : IsHeader(t[p]) => (p \in 1..Len(stream) /\ t[p] = stream[p]) \/ t[p][1] = m
  BY <1>3, <1>4, <1>5, <1>7, <1>8, FollowsJoin DEF x
<1>13. Ranges'
  <2>1. at \in Nat \ {0}
    BY DEF IInv, Ranges
  <2>2. \A i \in 1..Len(handled) : handled[i].m \in 1..Len(w)
    BY <1>3, <1>11
  <2> QED
    BY <1>2, <1>3, <1>5, <1>9, <1>12, <2>1, <2>2 DEF Ranges, w
<1>14. Framed'
  <2>1. Rising(buffer) /\ \A p \in 1..Len(buffer), q \in 1..Len(stream) :
           IsHeader(buffer[p]) /\ IsHeader(stream[q]) => buffer[p][1] < stream[q][1]
    BY DEF IInv, Framed
  <2>2. ASSUME NEW p \in 1..Len(buffer), NEW q \in 1..Len(stream'), IsHeader(buffer[p]), IsHeader(stream'[q])
        PROVE  buffer[p][1] < stream'[q][1]
    <3>1. CASE q \in 1..Len(stream) /\ stream'[q] = stream[q]
      BY <2>1, <2>2, <3>1
    <3>2. CASE stream'[q][1] = m
      BY <1>3, <1>6, <3>2
    <3> QED
      BY <1>12, <2>2, <3>1, <3>2
  <2> QED
    BY <1>2, <1>7, <1>12, <2>1, <2>2 DEF Framed, w
<1>15. Later'
  <2>1. ASSUME NEW i \in 1..Len(handled), NEW q \in 1..Len(stream'), IsHeader(stream'[q])
        PROVE  handled[i].m < stream'[q][1]
    <3>1. CASE q \in 1..Len(stream) /\ stream'[q] = stream[q]
      BY <2>1, <3>1 DEF IInv, Later
    <3>2. CASE stream'[q][1] = m
      BY <1>3, <1>11, <3>2
    <3> QED
      BY <1>12, <2>1, <3>1, <3>2
  <2> QED
    BY <1>2, <2>1 DEF IInv, Later
<1>16. Lossless'
  <2> SUFFICES ASSUME ~full PROVE \E j \in Nat : Exact(j)'
    BY <1>2 DEF Lossless
  <2>1. PICK j \in Nat : Exact(j)
    BY <1>2 DEF IInv, Lossless
  <2> DEFINE h == Len(handled)
  <2>2. h \in Nat /\ j \in h..Len(sent)
    BY <1>10, <2>1 DEF Exact
  <2>3. Sound(sent, h, j) /\ Sound(sent, j, Len(sent)) /\ Sound(w, j, Len(sent)) /\ Len(sent) + 1 <= Len(w)
    BY <1>3, <2>2 DEF Sound, m
  <2>4. Between(w, h, j) = Between(sent, h, j) /\ Between(w, j, Len(sent)) = Between(sent, j, Len(sent))
    BY <1>1, <2>3, BetweenGrown DEF w
  <2>5. Between(w, j, m) = Between(w, j, Len(sent)) \o x
    BY <2>3, BetweenNext DEF m, x
  <2>6. SubSeq(buffer, at, Len(buffer)) = Between(w, h, j) /\ stream' = Between(w, j, Len(w))
    BY <1>3, <1>4, <2>1, <2>4, <2>5 DEF Exact
  <2>7. j \in h..Len(w)
    BY <1>3, <2>2 DEF m
  <2>8. Exact(j)'
    BY <1>2, <2>1, <2>6, <2>7 DEF Exact, w
  <2> QED
    BY <2>8
<1>17. UndefinedExplained'
  BY <1>2 DEF UndefinedExplained
<1>18. ListenedIntact'
  <2>1. \A i \in 1..Len(handled) : Intact(handled[i], sent[handled[i].m])
    BY <1>10, IntactIs DEF IInv
  <2>2. \A i \in 1..Len(handled) : Intact(handled[i], w[handled[i].m])
    BY <1>3, <1>11, <2>1
  <2>3. \A i \in DOMAIN handled : i \in 1..Len(handled)
    BY <1>10
  <2> QED
    BY <1>2, <2>2, <2>3 DEF ListenedIntact, Intact, w
<1>19. Marshalled'
  BY <1>2 DEF IInv, Marshalled
<1> QED
  BY <1>13, <1>14, <1>15, <1>16, <1>17, <1>18, <1>19 DEF IInv

LEMMA SubSeqAll ==
  ASSUME NEW T, NEW s \in Seq(T)
  PROVE  SubSeq(s, 1, Len(s)) = s
<1> DEFINE n == Len(s)
           t == SubSeq(s, 1, n)
<1>1. n \in Nat /\ \A i \in 1..n : s[i] \in T
  OBVIOUS
<1> HIDE DEF n
<1>2. /\ t \in Seq(T) /\ Len(t) = IF 1 <= n THEN n - 1 + 1 ELSE 0
      /\ \A i \in 1..(n - 1 + 1) : t[i] = s[1 + i - 1]
  BY <1>1, SubSeqProperties
<1> HIDE DEF t
<1>3. Len(t) = n /\ \A i \in 1..n : t[i] = s[i]
  <2>1. n - 1 + 1 = n /\ \A i \in 1..n : 1 + i - 1 = i
    BY <1>1
  <2> QED
    BY <1>1, <1>2, <2>1
<1>4. t = s
  BY <1>2, <1>3, SeqEqual DEF n
<1> QED
  BY <1>4 DEF t, n

(* What a sequence has from k on, as a slice.                              *)
LEMMA RestIsSlice ==
  ASSUME NEW T, NEW s \in Seq(T), NEW k \in Nat, NEW n \in Nat, k <= n, n <= Len(s)
  PROVE  LET t == SubSeq(s, k + 1, n) IN
         t \in Seq(T) /\ Len(t) = n - k /\ Slice(t, s, k)
<1> DEFINE t == SubSeq(s, k + 1, n)
<1>1. k + 1 \in Int /\ n \in Int /\ Len(s) \in Nat /\ \A i \in (k + 1)..n : s[i] \in T
  OBVIOUS
<1>2. /\ t \in Seq(T) /\ Len(t) = IF k + 1 <= n THEN n - (k + 1) + 1 ELSE 0
      /\ \A i \in 1..(n - (k + 1) + 1) : t[i] = s[(k + 1) + i - 1]
  BY <1>1, SubSeqProperties
<1> HIDE DEF t
<1>3. Len(t) = n - k
  BY <1>2
<1>4. \A i \in 1..(n - k) : t[i] = s[k + i]
  <2>1. n - (k + 1) + 1 = n - k /\ \A i \in 1..(n - k) : (k + 1) + i - 1 = k + i
    OBVIOUS
  <2> QED
    BY <1>2, <2>1
<1>5. Slice(t, s, k)
  BY <1>1, <1>3, <1>4 DEF Slice
<1> QED
  BY <1>2, <1>3, <1>5 DEF t

(* A read.                                                                 *)
LEMMA ReceiveStep ==
  ASSUME IInv, Receive
  PROVE  IInv'
<1> DEFINE k == Taken
           n == Len(stream)
           W == Words(Len(sent))
<1>1. /\ undefined = "no" /\ at >= Len(buffer)
      /\ buffer' = SubSeq(stream, 1, k) /\ at' = 1 /\ stream' = SubSeq(stream, k + 1, n)
      /\ full' = (full \/ k = BufWords)
      /\ UNCHANGED <<call, request, sent, handled, undefined>>
  BY DEF Receive
<1>2. /\ sent \in Seq(SentEvents) /\ Len(sent) \in Nat
      /\ stream \in Seq(W) /\ n \in Nat /\ buffer \in Seq(W) /\ Len(buffer) \in Nat
      /\ at \in Nat \ {0}
  BY DEF IInv, Ranges
<1>3. k \in Nat /\ k <= n /\ (k # BufWords => k = n)
  BY <1>2, WireAssumption DEF Taken
<1> HIDE DEF k, n, W
<1>4. buffer' \in Seq(W) /\ Len(buffer') = k /\ Slice(buffer', stream, 0)
  <2>1. 0 \in Nat /\ 0 <= k /\ k <= Len(stream) /\ 0 + 1 = 1 /\ k - 0 = k
    BY <1>2, <1>3 DEF n
  <2>2. LET t == SubSeq(stream, 0 + 1, k) IN t \in Seq(W) /\ Len(t) = k - 0 /\ Slice(t, stream, 0)
    BY <1>2, <1>3, <2>1, RestIsSlice
  <2> QED
    BY <1>1, <2>1, <2>2
<1>5. stream' \in Seq(W) /\ Len(stream') = n - k /\ Slice(stream', stream, k)
  <2>1. n <= Len(stream)
    BY <1>2 DEF n
  <2> QED
    BY <1>1, <1>2, <1>3, <2>1, RestIsSlice
<1>6. Ranges'
  BY <1>1, <1>4, <1>5 DEF IInv, Ranges, W
<1>7. Follows(stream, sent) /\ Complete(stream, sent) /\ Rising(stream)
  BY DEF IInv, Framed
<1>8. /\ \A p \in 1..k : buffer'[p] = stream[p] /\ p \in 1..n
      /\ \A q \in 1..(n - k) : stream'[q] = stream[k + q] /\ k + q \in 1..n
  <2>1. \A p \in 1..k : buffer'[p] = stream[0 + p] /\ 0 + p = p
    BY <1>3, <1>4 DEF Slice
  <2>2. \A q \in 1..(n - k) : stream'[q] = stream[k + q]
    BY <1>5 DEF Slice
  <2> QED
    BY <1>2, <1>3, <2>1, <2>2
<1>9. Framed'
  <2>1. Follows(buffer', sent) /\ Rising(buffer')
    BY <1>2, <1>4, <1>7, SliceFollows DEF W
  <2>2. k + Len(stream') = Len(stream)
    BY <1>2, <1>3, <1>5 DEF n
  <2>3. Follows(stream', sent) /\ Rising(stream') /\ Complete(stream', sent)
    BY <1>2, <1>5, <1>7, <2>2, SliceFollows DEF W
  <2>4. ASSUME NEW p \in 1..Len(buffer'), NEW q \in 1..Len(stream'),
               IsHeader(buffer'[p]), IsHeader(stream'[q])
        PROVE  buffer'[p][1] < stream'[q][1]
    <3>1. /\ buffer'[p] = stream[p] /\ p \in 1..Len(stream)
          /\ stream'[q] = stream[k + q] /\ k + q \in 1..Len(stream)
      BY <1>4, <1>5, <1>8 DEF n
    <3>2. p < k + q
      BY <1>3, <1>4, <1>5
    <3> QED
      BY <1>7, <2>4, <3>1, <3>2 DEF Rising
  <2> QED
    BY <1>1, <2>1, <2>3, <2>4 DEF Framed
<1>10. Later'
  <2>1. /\ \A i \in 1..Len(handled) : \A q \in 1..Len(stream) :
               IsHeader(stream[q]) => handled[i].m < stream[q][1]
        /\ \A i, j \in 1..Len(handled) : i < j => handled[i].m < handled[j].m
    BY DEF IInv, Later
  <2>2. \A p \in 1..Len(buffer') : buffer'[p] = stream[p] /\ p \in 1..Len(stream)
    BY <1>4, <1>8 DEF n
  <2>3. \A q \in 1..Len(stream') : stream'[q] = stream[k + q] /\ k + q \in 1..Len(stream)
    BY <1>5, <1>8 DEF n
  <2>4. \A i \in 1..Len(handled) : \A p \in 1..Len(buffer') :
            IsHeader(buffer'[p]) => handled[i].m < buffer'[p][1]
    BY <2>1, <2>2
  <2>5. \A i \in 1..Len(handled) : \A q \in 1..Len(stream') :
            IsHeader(stream'[q]) => handled[i].m < stream'[q][1]
    BY <2>1, <2>3
  <2> QED
    BY <1>1, <2>1, <2>4, <2>5 DEF Later
<1>11. Lossless'
  <2> SUFFICES ASSUME ~full, k # BufWords PROVE \E j \in Nat : Exact(j)'
    BY <1>1 DEF Lossless
  <2>1. PICK j \in Nat : Exact(j)
    BY <1>1 DEF IInv, Lossless
  <2> DEFINE h == Len(handled)
             rest == SubSeq(buffer, at, Len(buffer))
  <2>2. h \in Nat /\ j \in h..Len(sent)
    <3>1. PICK T : handled \in Seq(T)
      BY DEF IInv, Ranges
    <3> QED
      BY <2>1, <3>1 DEF Exact
  <2>3. Sound(sent, h, j) /\ Sound(sent, Len(sent), Len(sent))
    BY <1>2, <2>2 DEF Sound
  <2>4. rest = Between(sent, h, j) /\ stream = Between(sent, j, Len(sent))
    BY <2>1 DEF Exact
  <2>5. Len(rest) <= 1
    <3>1. CASE at > Len(buffer)
      <4>1. at \in Int /\ Len(buffer) \in Int
        BY <1>2
      <4>2. rest = <<>>
        BY <3>1, <4>1, SubSeqEmpty
      <4> QED
        BY <4>2
    <3>2. CASE at = Len(buffer)
      <4>1. \A i \in at..Len(buffer) : buffer[i] \in W
        BY <1>2
      <4>2. Len(rest) = IF at <= Len(buffer) THEN Len(buffer) - at + 1 ELSE 0
        BY <1>2, <4>1, SubSeqProperties
      <4> QED
        BY <1>2, <3>2, <4>2
    <3> QED
      BY <1>1, <1>2, <3>1, <3>2
  <2>6. j = h
    <3> SUFFICES ASSUME h < j PROVE FALSE
      BY <2>2
    <3> DEFINE x == Message(h + 1, sent[h + 1])
               y == Between(sent, h + 1, j)
    <3>1. /\ h + 1 \in 1..Len(sent) /\ Sound(sent, h + 1, j)
          /\ rest = x \o y
      BY <2>3, <2>4, BetweenFirst
    <3>2. y \in Seq(W)
      BY <3>1, BetweenType DEF W
    <3>3. x \in Seq(W) /\ Len(x) \in Nat /\ Len(x) >= 2
      <4> DEFINE m == h + 1
      <4>1. m \in 1..Len(sent)
        BY <3>1
      <4> HIDE DEF m
      <4>2. Message(m, sent[m]) \in Seq(W) /\ Len(Message(m, sent[m])) \in Nat /\ Len(Message(m, sent[m])) >= 2
        BY <1>2, <4>1, MessageType DEF W
      <4> QED
        BY <4>2 DEF m
    <3> HIDE DEF x, y
    <3>4. Len(x \o y) = Len(x) + Len(y) /\ Len(y) \in Nat
      BY <3>2, <3>3, ConcatProperties
    <3>5. Len(rest) = Len(x) + Len(y)
      BY <3>1, <3>4
    <3> QED
      BY <2>5, <3>3, <3>4, <3>5
  <2>7. k = n
    BY <1>3
  <2>8. buffer' = stream
    BY <1>1, <1>2, <2>7, SubSeqAll DEF n
  <2>9. stream' = <<>> /\ Between(sent, Len(sent), Len(sent)) = <<>>
    <3>1. k + 1 \in Int /\ n \in Int /\ n < k + 1
      BY <1>2, <2>7
    <3>2. SubSeq(stream, k + 1, n) = <<>>
      BY <3>1, SubSeqEmpty
    <3> QED
      BY <1>1, <1>2, <3>2, BetweenNone
  <2>10. SubSeq(buffer', at', Len(buffer')) = buffer'
    BY <1>1, <1>4, SubSeqAll
  <2>11. SubSeq(buffer', at', Len(buffer')) = Between(sent, h, Len(sent))
    BY <2>4, <2>6, <2>8, <2>10
  <2>12. Len(sent) \in h..Len(sent)
    BY <1>2, <2>2
  <2>13. Exact(Len(sent))'
    <3>1. \A i \in 1..Len(handled) : handled[i].m = i /\ handled[i].whole
      BY <2>1 DEF Exact
    <3> QED
      BY <1>1, <2>9, <2>11, <2>12, <3>1 DEF Exact
  <2> QED
    BY <1>1, <1>2, <2>13
<1>12. UndefinedExplained'
  BY <1>1 DEF UndefinedExplained
<1>13. ListenedIntact' /\ Marshalled'
  BY <1>1 DEF IInv, ListenedIntact, Marshalled
<1> QED
  BY <1>6, <1>9, <1>10, <1>11, <1>12, <1>13 DEF IInv

\* From a on, s is x and then y.
Parts(s, a, x, y) ==
    a <= Len(s) /\ Len(x) >= 1 /\ SubSeq(s, a, Len(s)) = x \o y

LEMMA Behind ==
  ASSUME NEW T, NEW s \in Seq(T), NEW a \in Nat \ {0},
         NEW x \in Seq(T), NEW y \in Seq(T), Parts(s, a, x, y)
  PROVE  /\ s[a] = x[1] /\ a + Len(x) - 1 <= Len(s)
         /\ SubSeq(s, a + Len(x), Len(s)) = y
<1> DEFINE n == Len(s)
           l == Len(x)
           t == SubSeq(s, a, n)
           u == SubSeq(s, a + l, n)
<1>1. n \in Nat /\ l \in Nat /\ Len(y) \in Nat /\ a \in Int /\ a + l \in Int /\ n \in Int
  OBVIOUS
<1>2. \A i \in a..n : s[i] \in T
  OBVIOUS
<1>3. \A i \in (a + l)..n : s[i] \in T
  OBVIOUS
<1>4. t = x \o y
  BY DEF Parts
<1>5. a <= n /\ l >= 1
  BY DEF Parts
<1> HIDE DEF n, l
<1>6. Len(t) = n - a + 1 /\ \A i \in 1..(n - a + 1) : t[i] = s[a + i - 1]
  <2>1. /\ Len(t) = IF a <= n THEN n - a + 1 ELSE 0
        /\ \A i \in 1..(n - a + 1) : t[i] = s[a + i - 1]
    BY <1>1, <1>2, SubSeqProperties
  <2> QED
    BY <1>5, <2>1
<1>7. /\ u \in Seq(T) /\ Len(u) = IF a + l <= n THEN n - (a + l) + 1 ELSE 0
      /\ \A i \in 1..(n - (a + l) + 1) : u[i] = s[(a + l) + i - 1]
  BY <1>1, <1>3, SubSeqProperties
<1> HIDE DEF t, u
<1>8. Len(t) = l + Len(y) /\ \A i \in 1..(l + Len(y)) : t[i] = IF i <= l THEN x[i] ELSE y[i - l]
  <2>1. /\ Len(x \o y) = Len(x) + Len(y)
        /\ \A i \in 1..(Len(x) + Len(y)) : (x \o y)[i] = IF i <= Len(x) THEN x[i] ELSE y[i - Len(x)]
    BY ConcatProperties
  <2> QED
    BY <1>4, <2>1 DEF l
<1>9. n - a + 1 = l + Len(y)
  BY <1>6, <1>8
<1>10. s[a] = x[1]
  <2>1. 1 \in 1..(n - a + 1) /\ 1 \in 1..(l + Len(y)) /\ a + 1 - 1 = a
    BY <1>1, <1>5
  <2>2. t[1] = s[a + 1 - 1] /\ t[1] = x[1]
    BY <1>5, <1>6, <1>8, <2>1
  <2> QED
    BY <2>1, <2>2
<1>11. Len(u) = Len(y)
  BY <1>1, <1>7, <1>9
<1>12. ASSUME NEW i \in 1..Len(u) PROVE u[i] = y[i]
  <2> DEFINE k == l + i
  <2>1. /\ i \in 1..(n - (a + l) + 1) /\ k \in 1..(l + Len(y)) /\ k \in 1..(n - a + 1)
        /\ ~(k <= l) /\ k - l = i /\ (a + l) + i - 1 = a + k - 1
    BY <1>1, <1>9, <1>11
  <2> HIDE DEF k
  <2>2. u[i] = s[(a + l) + i - 1] /\ t[k] = s[a + k - 1] /\ t[k] = y[k - l]
    BY <1>6, <1>7, <1>8, <2>1
  <2> QED
    BY <2>1, <2>2
<1>13. u = y
  BY <1>7, <1>11, <1>12, SeqEqual
<1>14. a + l - 1 <= n
  BY <1>1, <1>9
<1> QED
  BY <1>10, <1>13, <1>14 DEF u, l, n

(* As long as nothing is lost, a message begins where the daemon looks for *)
(* one, and is there to its end.                                           *)
LEMMA NextMessage ==
  ASSUME Ranges, NEW j \in Nat, Exact(j), at < Len(buffer)
  PROVE  LET m == Len(handled) + 1 IN
         /\ m \in 1..Len(sent) /\ j \in m..Len(sent)
         /\ IsHeader(buffer[at]) /\ buffer[at][1] = m
         /\ at + Size(m) - 1 <= Len(buffer)
         /\ SubSeq(buffer, at + Size(m), Len(buffer)) = Between(sent, m, j)
<1> DEFINE h == Len(handled)
           W == Words(Len(sent))
           m == h + 1
           x == Message(m, sent[m])
           y == Between(sent, m, j)
           rest == SubSeq(buffer, at, Len(buffer))
<1>1. /\ sent \in Seq(SentEvents) /\ Len(sent) \in Nat /\ at \in Nat \ {0}
      /\ buffer \in Seq(W) /\ Len(buffer) \in Nat
  BY DEF Ranges
<1>2. h \in Nat /\ j \in h..Len(sent)
  <2>1. PICK T : handled \in Seq(T)
    BY DEF Ranges
  <2> QED
    BY <2>1 DEF Exact
<1>3. Sound(sent, h, j)
  BY <1>1, <1>2 DEF Sound
<1>4. rest = Between(sent, h, j)
  BY DEF Exact
<1> HIDE DEF h
<1>5. h # j
  <2> SUFFICES ASSUME h = j PROVE FALSE
    OBVIOUS
  <2>1. rest = <<>>
    BY <1>2, <1>4, BetweenNone
  <2>2. \A i \in at..Len(buffer) : buffer[i] \in W
    BY <1>1
  <2>3. Len(rest) = IF at <= Len(buffer) THEN Len(buffer) - at + 1 ELSE 0
    BY <1>1, <2>2, SubSeqProperties
  <2> HIDE DEF rest
  <2>4. Len(rest) = 0
    BY <2>1
  <2> QED
    BY <1>1, <2>3, <2>4
<1>6. m \in 1..Len(sent) /\ Sound(sent, m, j) /\ Between(sent, h, j) = x \o y
  <2>1. h < j
    BY <1>2, <1>5
  <2> QED
    BY <1>3, <2>1, BetweenFirst
<1> HIDE DEF m
<1>7. x \in Seq(W) /\ Len(x) \in Nat /\ Len(x) >= 2 /\ IsHeader(x[1]) /\ x[1][1] = m
  BY <1>1, <1>6, MessageType
<1>8. y \in Seq(W)
  BY <1>6, BetweenType
<1> HIDE DEF x, y, W
<1>9. /\ buffer[at] = x[1] /\ at + Len(x) - 1 <= Len(buffer)
      /\ SubSeq(buffer, at + Len(x), Len(buffer)) = y
  <2>1. at <= Len(buffer) /\ Len(x) >= 1 /\ SubSeq(buffer, at, Len(buffer)) = x \o y
    BY <1>1, <1>4, <1>6, <1>7
  <2>2. Parts(buffer, at, x, y)
    BY <2>1 DEF Parts
  <2> QED
    BY <1>1, <1>7, <1>8, <2>2, Behind
<1>10. Size(m) = Len(x)
  BY DEF Size, x
<1>11. j \in m..Len(sent)
  BY <1>1, <1>2, <1>5 DEF m
<1> QED
  BY <1>6, <1>7, <1>9, <1>10, <1>11 DEF m, h, y

(* What a read has cut is left over.                                       *)
LEMMA RestStep ==
  ASSUME IInv, DispatchRest
  PROVE  IInv'
<1>1. /\ undefined = "no" /\ at < Len(buffer) /\ ~IsHeader(buffer[at])
      /\ undefined' \in {"no", "garbage"} /\ at' = Len(buffer) + 1
      /\ UNCHANGED <<call, request, sent, stream, buffer, handled, full>>
  BY DEF DispatchRest
<1>2. full
  <2> SUFFICES ASSUME ~full PROVE FALSE
    OBVIOUS
  <2>1. PICK j \in Nat : Exact(j)
    BY <1>1 DEF IInv, Lossless
  <2>2. Ranges
    BY DEF IInv
  <2> QED
    BY <1>1, <2>1, <2>2, NextMessage
<1>3. at' \in Nat \ {0} /\ Len(buffer) \in Nat
  <2>1. Len(buffer) \in Nat
    BY DEF IInv, Ranges
  <2> QED
    BY <1>1, <2>1
<1>4. Ranges'
  BY <1>1, <1>3 DEF IInv, Ranges
<1>5. Framed'
  BY <1>1 DEF IInv, Framed
<1>6. Later'
  <2>1. \A p \in 1..Len(buffer) : ~(p >= at')
    BY <1>1, <1>3
  <2> QED
    BY <1>1, <2>1 DEF IInv, Later
<1>7. Lossless' /\ UndefinedExplained'
  BY <1>1, <1>2 DEF Lossless, UndefinedExplained
<1>8. ListenedIntact' /\ Marshalled'
  BY <1>1 DEF IInv, ListenedIntact, Marshalled
<1> QED
  BY <1>4, <1>5, <1>6, <1>7, <1>8 DEF IInv

-----------------------------------------------------------------------------
(* A message is dispatched                                                 *)

LEMMA FunctionsRight ==
  ASSUME NEW iface \in DOMAIN API, NEW fn \in DOMAIN API[iface]
  PROVE  LET rq == Interfaces[iface].requests[fn] IN
         /\ API[iface][fn].params \in Seq(NoFloats)
         /\ rq.argc = Len(API[iface][fn].params)
         /\ Interfaces[iface].requests[rq.op + 1].sig = API[iface][fn].params
         /\ API[iface][rq.op + 1].name = API[iface][fn].name
  BY TablesAgree

LEMMA UsesRight ==
  ASSUME NEW iface \in DOMAIN Uses, NEW op \in DOMAIN Slots[iface],
         Slots[iface][op] \in DOMAIN Uses[iface], NEW use \in Uses[iface][Slots[iface][op]]
  PROVE  LET sig == Interfaces[iface].events[op].sig IN
         Plain(sig) /\ use[1] \in DOMAIN sig /\ sig[use[1]] = use[2] /\ use[2] \in {I, U, S}
<1>1. LET sig == Interfaces[iface].events[op].sig IN
      /\ sig \in Seq(NoFloats)
      /\ \A u \in Uses[iface][Slots[iface][op]] :
            u[1] \in DOMAIN sig /\ sig[u[1]] = u[2] /\ u[2] \in {I, U, S}
  BY TablesAgree
<1> QED
  BY <1>1 DEF Plain

\* The message at at is x, of m, and all of it is in the buffer.
Whole(x, m, sig, n) ==
    /\ at < Len(buffer) /\ at + Len(x) - 1 <= Len(buffer)
    /\ \A i \in 1..Len(x) : buffer[at + i - 1] = x[i]
    /\ Len(x) = Len(Body(m, sig, n)) + 2 /\ Len(Body(m, sig, n)) \in Nat
    /\ \A i \in 1..Len(Body(m, sig, n)) : x[i + 2] = Body(m, sig, n)[i]

(* Of a whole message, xdwl_read_args() finds an argument where it is.     *)
LEMMA ArgumentRight ==
  ASSUME at \in Nat \ {0}, Len(buffer) \in Nat,
         NEW m \in Nat, NEW sig, Plain(sig), NEW n \in Nat, NEW k \in DOMAIN sig,
         sig[k] \in {I, U, S}, NEW x, Whole(x, m, sig, n)
  PROVE  Arguments(sig, n)[k] = Right(m, sig[k], k)
<1> DEFINE letter == sig[k]
           before == Total(Width(n), SubSeq(sig, 1, k - 1))
           d == IF letter = S THEN 2 ELSE 1
           b == Body(m, sig, n)
           p == before + d
<1>1. Arguments(sig, n)[k] = Argument(letter, at + 2 + before)
  BY DEF Arguments, Width
<1>2. p \in 1..Len(b) /\ b[p] = Right(m, letter, k)
  <2>1. LET c == Total(Width(n), SubSeq(sig, 1, k - 1)) + (IF sig[k] = S THEN 2 ELSE 1)
        IN  c \in 1..Len(Body(m, sig, n)) /\ Body(m, sig, n)[c] = Right(m, sig[k], k)
    <3> HIDE DEF letter, before, d, b, p
    <3> QED
      BY Place
  <2> QED
    BY <2>1
<1>3. before \in Nat
  <2>1. sig \in Seq(Letters) /\ k - 1 \in 0..Len(sig)
    BY NoFloatsAre
  <2>2. Laying(m, sig, n, k - 1) \in Seq(ArgWords(m))
    BY <2>1, LayingType
  <2>3. Len(Laying(m, sig, n, k - 1)) = before
    BY <2>1, LayingLength
  <2> QED
    BY <2>2, <2>3
<1>4. d \in {1, 2} /\ (letter = S => d = 2) /\ (letter # S => d = 1)
  OBVIOUS
<1>5. /\ at + Len(x) - 1 <= Len(buffer) /\ \A i \in 1..Len(x) : buffer[at + i - 1] = x[i]
      /\ Len(x) = Len(b) + 2 /\ Len(b) \in Nat /\ \A i \in 1..Len(b) : x[i + 2] = b[i]
  BY DEF Whole
<1>6. letter \in {I, U, S}
  OBVIOUS
<1> HIDE DEF before, d, b, letter
<1> DEFINE q == p + 2
<1>7. /\ q \in 1..Len(x) /\ at + q - 1 = at + 1 + before + d
      /\ at + 1 + before + d <= Len(buffer)
  BY <1>2, <1>3, <1>4, <1>5
<1>8. x[q] = Right(m, letter, k)
  BY <1>2, <1>5
<1> HIDE DEF q, p
<1>9. buffer[at + 1 + before + d] = Right(m, letter, k)
  <2>1. buffer[at + q - 1] = x[q]
    BY <1>5, <1>7
  <2> QED
    BY <1>7, <1>8, <2>1
<1>10. ASSUME letter = S PROVE Argument(letter, at + 2 + before) = Right(m, letter, k)
  <2> DEFINE o == at + 2 + before
  <2>1. o + 1 = at + 1 + before + d
    BY <1>3, <1>4, <1>10
  <2> HIDE DEF o
  <2>2. Argument(letter, o) = IF o + 1 <= Len(buffer) THEN buffer[o + 1] ELSE Stale
    BY <1>10, LetterNames DEF Argument
  <2>3. Argument(letter, o) = Right(m, letter, k)
    BY <1>7, <1>9, <2>1, <2>2
  <2> QED
    BY <2>3 DEF o
<1>11. ASSUME letter \in {I, U} PROVE Argument(letter, at + 2 + before) = Right(m, letter, k)
  <2> DEFINE o == at + 2 + before
  <2>1. letter # S
    BY <1>11, LetterNames
  <2>2. o = at + 1 + before + d
    BY <1>3, <1>4, <2>1
  <2> HIDE DEF o
  <2>3. Argument(letter, o) = IF o <= Len(buffer) THEN buffer[o] ELSE Stale
    BY <1>11, LetterNames DEF Argument
  <2>4. Argument(letter, o) = Right(m, letter, k)
    BY <1>7, <1>9, <2>2, <2>3
  <2> QED
    BY <2>4 DEF o
<1>12. Argument(letter, at + 2 + before) = Right(m, letter, k)
  BY <1>6, <1>10, <1>11
<1> QED
  BY <1>1, <1>12 DEF letter

(* What the handlers of xdwlwd use is where xdwl_read_args() looks for it.  *)
LEMMA IntactNew ==
  ASSUME Ranges, Framed, at < Len(buffer), IsHeader(buffer[at]),
         NEW m, m = buffer[at][1], NEW e, e = sent[m],
         Known(e.iface, e.op)
  PROVE  Intact(Dispatched(m, e), e)
<1> DEFINE iface == e.iface
           op == e.op
           n == e.len
           h == Dispatched(m, e)
           sig == Interfaces[iface].events[op].sig
           x == Message(m, e)
<1>1. /\ sent \in Seq(SentEvents) /\ buffer \in Seq(Words(Len(sent)))
      /\ at \in Nat \ {0} /\ Len(buffer) \in Nat /\ at \in 1..Len(buffer)
  BY DEF Ranges
<1>2. m \in 1..Len(sent) /\ e \in SentEvents /\ Len(sent) \in Nat
  <2>1. m \in 1..Len(sent)
    BY <1>1, MsgLong
  <2> QED
    BY <1>1, <2>1
<1>3. iface \in DOMAIN Slots /\ op \in Nat \ {0} /\ n \in Nat
  BY <1>2 DEF SentEvents
<1>4. op \in DOMAIN Slots[iface]
  BY <1>3, Table DEF Known
<1>5. h.m = m /\ h.slot = Slots[iface][op] /\ h.args = Arguments(Sig(iface, op), n)
      /\ h.whole = (at + Size(m) - 1 <= Len(buffer))
  BY DEF Dispatched
<1>6. h.slot = Interfaces[iface].events[op].name
  BY <1>3, <1>4, <1>5, Table
<1>7. Sig(iface, op) = sig
  BY DEF Sig
<1>8. Msg(sent, buffer[at]) = x /\ Size(m) = Len(x)
  BY DEF Msg, Size
<1>9. /\ Len(x) = Len(Body(m, sig, n)) + 2 /\ Len(Body(m, sig, n)) \in Nat /\ Len(x) \in Nat
      /\ \A i \in 1..Len(Body(m, sig, n)) : x[i + 2] = Body(m, sig, n)[i]
  <2>0. m \in Nat \ {0} /\ m <= Len(sent)
    BY <1>2
  <2>1. Bodied(m, e)
    BY <1>2, <2>0, MessageIs
  <2> HIDE DEF x, sig, n, h, iface, op
  <2>2. /\ Len(x) = Len(Body(m, Sig(iface, op), n)) + 2 /\ Len(Body(m, Sig(iface, op), n)) \in Nat
        /\ Len(x) \in Nat
        /\ \A i \in 1..Len(Body(m, Sig(iface, op), n)) : x[i + 2] = Body(m, Sig(iface, op), n)[i]
    BY <2>1, Zenon DEF Bodied, x, n, iface, op
  <2> QED
    BY <1>7, <2>2, ZenonT(30)
<1> HIDE DEF h, x
<1>10. ASSUME iface \in DOMAIN Uses, h.slot \in DOMAIN Uses[iface], h.whole,
              NEW use \in Uses[iface][h.slot]
       PROVE  h.args[use[1]] = Right(h.m, use[2], use[1])
  <2>1. Plain(sig) /\ use[1] \in DOMAIN sig /\ sig[use[1]] = use[2] /\ use[2] \in {I, U, S}
    BY <1>4, <1>5, <1>10, UsesRight
  <2> DEFINE k == use[1]
  <2>2. \A q \in 1..Len(x) : at + q - 1 <= Len(buffer) => buffer[at + q - 1] = x[q]
    BY <1>1, <1>8 DEF Framed, Follows
  <2>3. at + Len(x) - 1 <= Len(buffer) /\ Len(x) \in Nat
    <3>1. at + Size(m) - 1 <= Len(buffer)
      BY <1>5, <1>10
    <3>2. Len(x) \in Nat
      BY <1>9
    <3> QED
      BY <1>8, <3>1, <3>2
  <2> HIDE DEF sig, n
  <2>4. Whole(x, m, sig, n)
    <3>1. \A q \in 1..Len(x) : at + q - 1 <= Len(buffer)
      BY <1>1, <2>3
    <3> QED
      BY <1>9, <2>2, <2>3, <3>1 DEF Whole
  <2>5. m \in Nat /\ n \in Nat /\ k \in DOMAIN sig /\ sig[k] = use[2] /\ sig[k] \in {I, U, S}
    BY <1>2, <1>3, <2>1
  <2> HIDE DEF k
  <2>6. Arguments(sig, n)[k] = Right(m, sig[k], k)
    BY <1>1, <2>1, <2>4, <2>5, ArgumentRight
  <2>7. h.args[k] = Right(m, use[2], k)
    BY <1>5, <1>7, <2>5, <2>6 DEF n, sig
  <2> QED
    BY <1>5, <2>7 DEF k
<1> QED
  BY <1>6, <1>10 DEF Intact, h

LEMMA AppendIs ==
  ASSUME NEW T, NEW s \in Seq(T), NEW x
  PROVE  LET t == Append(s, x) IN
         /\ t \in Seq(T \cup {x}) /\ Len(t) = Len(s) + 1 /\ Len(s) \in Nat
         /\ \A i \in 1..Len(s) : t[i] = s[i]
         /\ t[Len(s) + 1] = x
<1>1. s \in Seq(T \cup {x})
  OBVIOUS
<1> QED
  BY <1>1

(* An event that is not in the table.                                      *)
LEMMA OverrunStep ==
  ASSUME IInv, NEW m \in 1..Len(sent),
         ~Known(sent[m].iface, sent[m].op) \/ sent[m].op > Interfaces[sent[m].iface].listener,
         undefined' = "overrun",
         UNCHANGED <<call, request, sent, stream, buffer, at, handled, full>>
  PROVE  IInv'
<1>1. Ranges' /\ Framed' /\ Later' /\ Marshalled' /\ ListenedIntact'
  BY DEF IInv, Ranges, Framed, Later, Marshalled, ListenedIntact
<1>2. Lossless'
  BY DEF Lossless
<1>3. sent \in Seq(SentEvents) /\ m \in DOMAIN sent
  BY DEF IInv, Ranges
<1>4. sent[m].iface \in DOMAIN Slots /\ sent[m].op \in Nat \ {0}
  <2>1. sent[m] \in SentEvents
    BY <1>3
  <2> QED
    BY <2>1 DEF SentEvents
<1>5. sent[m].op > Len(Slots[sent[m].iface])
  <2> DEFINE iface == sent[m].iface
             op == sent[m].op
  <2>1. ~(op <= Len(Interfaces[iface].events)) \/ op > Interfaces[iface].listener
    BY DEF Known
  <2>2. /\ Len(Interfaces[iface].events) = Len(Slots[iface])
        /\ Interfaces[iface].listener = Len(Slots[iface]) /\ Len(Slots[iface]) \in Nat
    BY <1>4, Table
  <2>3. op \in Nat
    BY <1>4
  <2> HIDE DEF iface, op
  <2>4. op > Len(Slots[iface])
    BY <2>1, <2>2, <2>3
  <2> QED
    BY <2>4 DEF iface, op
<1>6. UndefinedExplained'
  BY <1>3, <1>5 DEF UndefinedExplained
<1> QED
  BY <1>1, <1>2, <1>6 DEF IInv

(* An event goes to its listener.                                          *)
LEMMA HandledStep ==
  ASSUME IInv, undefined = "no", at < Len(buffer), IsHeader(buffer[at]),
         NEW m \in 1..Len(sent), buffer[at][1] = m, Known(sent[m].iface, sent[m].op),
         handled' = Append(handled, Dispatched(m, sent[m])), at' = After(m),
         UNCHANGED <<call, request, sent, stream, buffer, full, undefined>>
  PROVE  IInv'
<1> DEFINE d == Dispatched(m, sent[m])
           n == Len(handled)
<1>1. PICK T : handled \in Seq(T)
  BY DEF IInv, Ranges
<1>2. /\ handled' \in Seq(T \cup {d}) /\ Len(handled') = n + 1 /\ n \in Nat
      /\ \A i \in 1..n : handled'[i] = handled[i]
      /\ handled'[n + 1] = d
  BY <1>1, AppendIs
<1>3. d.m = m /\ d.whole = (at + Size(m) - 1 <= Len(buffer))
  BY DEF Dispatched
<1>4. Intact(d, sent[m])
  <2>1. Ranges /\ Framed
    BY DEF IInv
  <2> DEFINE e == sent[m]
  <2>2. e = sent[m] /\ m = buffer[at][1]
    OBVIOUS
  <2>3. Known(e.iface, e.op)
    OBVIOUS
  <2> QED
    BY <2>1, <2>2, <2>3, IntactNew
<1>5. Intact(handled'[n + 1], sent[m])
  BY <1>2, <1>4
<1> HIDE DEF d, n
<1>6. /\ sent \in Seq(SentEvents) /\ Len(sent) \in Nat /\ at \in Nat \ {0}
      /\ buffer \in Seq(Words(Len(sent))) /\ Len(buffer) \in Nat /\ at \in 1..Len(buffer)
      /\ \A i \in 1..n : handled[i].m \in 1..Len(sent)
  BY DEF IInv, Ranges, n
<1>7. Size(m) \in Nat /\ Size(m) >= 2
  BY <1>6, MessageType DEF Size
<1>8. at' = at + Size(m) /\ at' \in Nat \ {0} /\ at' > at
  BY <1>6, <1>7 DEF After
<1>9. \A i \in 1..(n + 1) : (i \in 1..n /\ handled'[i] = handled[i]) \/ (i = n + 1 /\ handled'[i] = d)
  <2>1. \A i \in 1..(n + 1) : i \in 1..n \/ i = n + 1
    BY <1>2
  <2> QED
    <3> SUFFICES ASSUME NEW i \in 1..(n + 1)
                 PROVE  (i \in 1..n /\ handled'[i] = handled[i]) \/ (i = n + 1 /\ handled'[i] = d)
      OBVIOUS
    <3>1. CASE i \in 1..n
      BY <1>2, <3>1
    <3>2. CASE i = n + 1
      BY <1>2, <3>2
    <3> QED
      BY <2>1, <3>1, <3>2
<1>10. Ranges'
  <2>1. \A i \in 1..Len(handled') : handled'[i].m \in 1..Len(sent)
    BY <1>2, <1>3, <1>6, <1>9
  <2>2. \E S_ : handled' \in Seq(S_)
    BY <1>2
  <2> QED
    BY <1>6, <1>8, <2>1, <2>2 DEF IInv, Ranges
<1>11. Framed' /\ Marshalled' /\ UndefinedExplained'
  BY DEF IInv, Framed, Marshalled, UndefinedExplained
<1>12. Later'
  <2>1. /\ \A i \in 1..n : \A p \in 1..Len(buffer) :
               p >= at /\ IsHeader(buffer[p]) => handled[i].m < buffer[p][1]
        /\ \A i \in 1..n : \A q \in 1..Len(stream) :
               IsHeader(stream[q]) => handled[i].m < stream[q][1]
        /\ \A i, j \in 1..n : i < j => handled[i].m < handled[j].m
    BY DEF IInv, Later, n
  <2>2. \A i \in 1..n : handled[i].m < m
    BY <1>6, <2>1
  <2>3. \A p \in 1..Len(buffer) : p > at /\ IsHeader(buffer[p]) => m < buffer[p][1]
    BY <1>6 DEF IInv, Framed, Rising
  <2>4. \A q \in 1..Len(stream) : IsHeader(stream[q]) => m < stream[q][1]
    BY <1>6 DEF IInv, Framed
  <2>5. ASSUME NEW i \in 1..(n + 1), NEW p \in 1..Len(buffer), p >= at', IsHeader(buffer[p])
        PROVE  handled'[i].m < buffer[p][1]
    <3>1. p > at /\ p >= at
      BY <1>6, <1>8, <2>5
    <3>2. m < buffer[p][1]
      BY <2>3, <2>5, <3>1
    <3>3. \A h \in 1..n : handled[h].m < buffer[p][1]
      BY <2>1, <2>5, <3>1
    <3> QED
      BY <1>3, <1>9, <3>2, <3>3
  <2>6. ASSUME NEW i \in 1..(n + 1), NEW q \in 1..Len(stream), IsHeader(stream[q])
        PROVE  handled'[i].m < stream[q][1]
    BY <1>3, <1>9, <2>1, <2>4, <2>6
  <2>7. ASSUME NEW i \in 1..(n + 1), NEW j \in 1..(n + 1), i < j
        PROVE  handled'[i].m < handled'[j].m
    <3>1. i \in 1..n /\ handled'[i] = handled[i]
      BY <1>2, <2>7
    <3>2. CASE j \in 1..n
      BY <1>2, <2>1, <2>7, <3>1, <3>2
    <3>3. CASE j = n + 1
      BY <1>2, <1>3, <2>2, <3>1, <3>3
    <3> QED
      BY <1>2, <3>2, <3>3
  <2> QED
    BY <1>2, <2>5, <2>6, <2>7 DEF Later
<1>13. Lossless'
  <2> SUFFICES ASSUME ~full PROVE \E j \in Nat : Exact(j)'
    BY DEF Lossless
  <2>1. PICK j \in Nat : Exact(j)
    BY DEF IInv, Lossless
  <2>2. /\ m = n + 1 /\ j \in m..Len(sent) /\ at + Size(m) - 1 <= Len(buffer)
        /\ SubSeq(buffer, at + Size(m), Len(buffer)) = Between(sent, m, j)
    <3>1. Ranges
      BY DEF IInv
    <3>2. LET l == Len(handled) + 1 IN
          /\ j \in l..Len(sent) /\ buffer[at][1] = l
          /\ at + Size(l) - 1 <= Len(buffer)
          /\ SubSeq(buffer, at + Size(l), Len(buffer)) = Between(sent, l, j)
      BY <2>1, <3>1, NextMessage
    <3> QED
      BY <3>2 DEF n
  <2>3. Len(handled') = m
    BY <1>2, <2>2
  <2>4. \A i \in 1..n : handled[i].m = i /\ handled[i].whole
    BY <2>1 DEF Exact, n
  <2>5. d.whole
    BY <1>3, <2>2
  <2>6. \A i \in 1..Len(handled') : handled'[i].m = i /\ handled'[i].whole
    BY <1>2, <1>3, <1>9, <2>2, <2>4, <2>5
  <2>7. SubSeq(buffer, at', Len(buffer)) = Between(sent, m, j)
    BY <1>8, <2>2
  <2>8. stream = Between(sent, j, Len(sent))
    BY <2>1 DEF Exact
  <2>9. Exact(j)'
    BY <2>2, <2>3, <2>6, <2>7, <2>8 DEF Exact
  <2> QED
    BY <2>9
<1>14. ListenedIntact'
  <2>1. \A i \in 1..n : Intact(handled[i], sent[handled[i].m])
    BY <1>1, IntactIs DEF IInv, n
  <2>2. \A i \in 1..(n + 1) : Intact(handled'[i], sent[handled'[i].m])
    <3>1. d.m = m /\ Intact(d, sent[m])
      BY <1>3, <1>4
    <3> SUFFICES ASSUME NEW i \in 1..(n + 1) PROVE Intact(handled'[i], sent[handled'[i].m])
      OBVIOUS
    <3>2. CASE i \in 1..n /\ handled'[i] = handled[i]
      BY <2>1, <3>2
    <3>3. CASE i = n + 1 /\ handled'[i] = d
      BY <3>1, <3>3
    <3> QED
      BY <1>9, <3>2, <3>3
  <2>3. \A i \in DOMAIN handled' : i \in 1..(n + 1)
    BY <1>2
  <2>4. (\A i \in DOMAIN handled' : Intact(handled'[i], sent'[handled'[i].m])) => ListenedIntact'
    BY DEF ListenedIntact, Intact
  <2> QED
    BY <2>2, <2>3, <2>4
<1> QED
  BY <1>10, <1>11, <1>12, <1>13, <1>14 DEF IInv

LEMMA DispatchStep ==
  ASSUME IInv, Dispatch
  PROVE  IInv'
<1>1. /\ undefined = "no" /\ at < Len(buffer) /\ IsHeader(buffer[at])
      /\ UNCHANGED <<call, request, sent, stream, buffer, full>>
  BY DEF Dispatch
<1>2. PICK m : m = buffer[at][1]
  OBVIOUS
<1>3. IF ~Known(sent[m].iface, sent[m].op) \/ sent[m].op > Interfaces[sent[m].iface].listener
      THEN undefined' = "overrun" /\ UNCHANGED <<handled, at>>
      ELSE /\ handled' = Append(handled, Dispatched(m, sent[m]))
           /\ at' = After(m)
           /\ UNCHANGED undefined
  BY <1>2 DEF Dispatch
<1>4. m \in 1..Len(sent)
  <2>1. /\ sent \in Seq(SentEvents) /\ buffer \in Seq(Words(Len(sent))) /\ at \in 1..Len(buffer)
    BY <1>1 DEF IInv, Ranges
  <2> QED
    BY <1>2, <2>1, MsgLong
<1>5. CASE ~Known(sent[m].iface, sent[m].op) \/ sent[m].op > Interfaces[sent[m].iface].listener
  BY <1>1, <1>3, <1>4, <1>5, OverrunStep
<1>6. CASE ~(~Known(sent[m].iface, sent[m].op) \/ sent[m].op > Interfaces[sent[m].iface].listener)
  BY <1>1, <1>2, <1>3, <1>4, <1>6, HandledStep
<1> QED
  BY <1>5, <1>6

LEMMA NextIInv == IInv /\ [Next]_vars => IInv'
<1> SUFFICES ASSUME IInv, [Next]_vars PROVE IInv'
  OBVIOUS
<1>1. CASE Call
  BY <1>1, CallStep
<1>2. CASE Send
  BY <1>2, SendStep
<1>3. CASE Receive
  BY <1>3, ReceiveStep
<1>4. CASE Dispatch
  BY <1>4, DispatchStep
<1>5. CASE DispatchRest
  BY <1>5, RestStep
<1>6. CASE UNCHANGED vars
  <2>1. UNCHANGED events /\ Marshalled'
    BY <1>6 DEF vars, IInv, Marshalled
  <2> QED
    BY <2>1, EventsAlone
<1> QED
  BY <1>1, <1>2, <1>3, <1>4, <1>5, <1>6 DEF Next

LEMMA Invariance == Spec => []IInv
  BY InitIInv, NextIInv, PTL DEF Spec

-----------------------------------------------------------------------------
(* What follows                                                            *)

(* The wrappers of the bindings put a request on the wire as the protocol  *)
(* lays it out, whatever the length of its strings; behind it goes a word  *)
(* of whatever the buffer held for every string whose length is 3 modulo   *)
(* 4.                                                                      *)
THEOREM RequestsAsLaidOut == Spec => []RequestAsProtocol
<1>1. Marshalled => RequestAsProtocol
  <2> SUFFICES ASSUME Marshalled, call # NoCall
               PROVE  LET fn == API[call.iface][call.fn]
                          expected == Body(1, fn.params, call.len)
                          rq == Interfaces[call.iface].requests[call.fn]
                      IN  /\ API[call.iface][rq.op + 1].name = fn.name
                          /\ Len(request) >= Len(expected)
                          /\ SubSeq(request, 1, Len(expected)) = expected
                          /\ Len(request) - Len(expected) =
                                IF call.len % 4 = 3
                                THEN Cardinality({k \in DOMAIN fn.params : fn.params[k] = S})
                                ELSE 0
    BY DEF RequestAsProtocol
  <2> DEFINE params == API[call.iface][call.fn].params
             rq == Interfaces[call.iface].requests[call.fn]
             n == call.len
  <2>1. /\ call.iface \in DOMAIN API /\ call.fn \in DOMAIN API[call.iface] /\ n \in Nat
        /\ request = Marshal(Interfaces[call.iface].requests[rq.op + 1].sig, rq.argc, n)
    BY DEF Marshalled
  <2>2. /\ params \in Seq(NoFloats) /\ rq.argc = Len(params)
        /\ Interfaces[call.iface].requests[rq.op + 1].sig = params
        /\ API[call.iface][rq.op + 1].name = API[call.iface][call.fn].name
    BY <2>1, FunctionsRight
  <2>3. Plain(params) /\ DOMAIN params = 1..Len(params)
    BY <2>2 DEF Plain
  <2>4. request = Marshal(params, Len(params), n)
    BY <2>1, <2>2
  <2> HIDE DEF params, rq, n
  <2>5. /\ Len(request) >= Len(Body(1, params, n))
        /\ SubSeq(request, 1, Len(Body(1, params, n))) = Body(1, params, n)
        /\ Len(request) - Len(Body(1, params, n)) = Extra(params, n, Len(params))
    BY <2>1, <2>3, <2>4, MarshalIs
  <2>6. Extra(params, n, Len(params)) =
            IF n % 4 = 3 THEN Cardinality({k \in DOMAIN params : params[k] = S}) ELSE 0
    BY <2>3 DEF Extra
  <2> QED
    BY <2>2, <2>5, <2>6 DEF params, rq, n
<1>2. IInv => RequestAsProtocol
  BY <1>1 DEF IInv
<1> QED
  BY <1>2, Invariance, PTL

(* What a handler of xdwlwd gets of a message that was read whole is what  *)
(* the compositor sent, at any buffer size and after any reads.            *)
THEOREM HandlersGetTheirArguments == Spec => []ListenedIntact
<1>1. IInv => ListenedIntact
  BY DEF IInv
<1> QED
  BY <1>1, Invariance, PTL

(* As long as no read has filled the buffer, every event is handled once,  *)
(* whole and in the order sent; and no event is ever handled after a later *)
(* one.                                                                    *)
THEOREM NothingLost == Spec => []StreamKept
<1>1. IInv => StreamKept
  <2> SUFFICES ASSUME IInv PROVE StreamKept
    OBVIOUS
  <2> DEFINE h == Len(handled)
  <2>1. PICK T : handled \in Seq(T)
    BY DEF IInv, Ranges
  <2>2. DOMAIN handled = 1..h /\ h \in Nat
    BY <2>1
  <2>3. \A i, j \in DOMAIN handled : i < j => handled[i].m < handled[j].m
    BY <2>2 DEF IInv, Later
  <2>4. ASSUME ~full, undefined = "no"
        PROVE  /\ \A i \in DOMAIN handled : handled[i].m = i /\ handled[i].whole
               /\ SubSeq(buffer, at, Len(buffer)) \o stream =
                     FlattenSeq([i \in 1..(Len(sent) - Len(handled)) |->
                                    Message(Len(handled) + i, sent[Len(handled) + i])])
    <3>1. PICK j \in Nat : Exact(j)
      BY <2>4 DEF IInv, Lossless
    <3>2. \A i \in 1..h : handled[i].m = i /\ handled[i].whole
      BY <3>1 DEF Exact
    <3>3. /\ SubSeq(buffer, at, Len(buffer)) = Between(sent, h, j)
          /\ stream = Between(sent, j, Len(sent)) /\ j \in h..Len(sent)
      BY <3>1 DEF Exact
    <3>4. sent \in Seq(SentEvents) /\ Len(sent) \in Nat
      BY DEF IInv, Ranges
    <3> HIDE DEF h
    <3>5. Sound(sent, h, j) /\ Sound(sent, j, Len(sent))
      BY <2>2, <3>3, <3>4 DEF Sound
    <3>6. SubSeq(buffer, at, Len(buffer)) \o stream = Between(sent, h, Len(sent))
      BY <3>3, <3>5, BetweenJoin
    <3> QED
      BY <2>2, <3>2, <3>6 DEF Between, h
  <2> QED
    BY <2>3, <2>4 DEF StreamKept
<1> QED
  BY <1>1, Invariance, PTL

(* Nothing but an event that is not in the tables takes the daemon beyond  *)
(* them, and nothing but a read that filled the buffer makes it take       *)
(* rubbish for a message.                                                  *)
THEOREM UndefinedOnlySo == Spec => []UndefinedExplained
<1>1. IInv => UndefinedExplained
  BY DEF IInv
<1> QED
  BY <1>1, Invariance, PTL
=============================================================================
