------------------------------ MODULE Lines_proof ------------------------------
(***************************************************************************)
(* What holds of the copies of a route for lines of any length, any        *)
(* timetables and any order of edits, reverses and repairs.                *)
(***************************************************************************)
EXTENDS Lines, TLAPS, SequenceTheorems, FiniteSetTheorems, WellFoundedInduction

-----------------------------------------------------------------------------
(* Induction over numbers and lists, from a least counterexample *)

(* A non-empty set of naturals has a least element. *)
LEMMA NatMin ==
  ASSUME NEW T \in SUBSET Nat, T # {}
  PROVE  \E x \in T : \A y \in T : x <= y
<1>1. \E R : IsWellFoundedOn(R, Nat) /\ \A x, y \in Nat : y < x => <<y, x>> \in R
  <2>1. \A x, y \in Nat : y < x => <<y, x>> \in OpToRel(<, Nat)
    BY DEF OpToRel
  <2> WITNESS OpToRel(<, Nat)
  <2> QED BY <2>1, NatLessThanWellFounded, Zenon
<1>2. PICK R : IsWellFoundedOn(R, Nat) /\ \A x, y \in Nat : y < x => <<y, x>> \in R
  BY <1>1
<1>3. PICK x \in T : \A y \in T : ~(<<y, x>> \in R)
  BY <1>2, WFMin
<1>4. \A y \in T : ~(y < x)
  BY <1>2, <1>3
<1> QED BY <1>4

(* Induction on a set of naturals. *)
LEMMA NatAll ==
  ASSUME NEW P, 0 \in P, \A n \in Nat : n \in P => n + 1 \in P
  PROVE  Nat \subseteq P
<1> DEFINE T == Nat \ P
<1> SUFFICES ASSUME T # {} PROVE FALSE
  OBVIOUS
<1>0. T \in SUBSET Nat
  OBVIOUS
<1>1. PICK m \in T : \A y \in T : m <= y
  <2> HIDE DEF T
  <2> QED BY <1>0, NatMin
<1>2. m # 0 /\ m - 1 \in Nat /\ ~(m <= m - 1)
  BY <1>1
<1>3. m - 1 \in P
  BY <1>1, <1>2
<1>4. (m - 1) + 1 \in P /\ (m - 1) + 1 = m
  BY <1>1, <1>3
<1> QED BY <1>1, <1>4

(* Induction on a set of sequences. *)
LEMMA SeqAll ==
  ASSUME NEW T, NEW P, <<>> \in P, \A s \in P, e \in T : Append(s, e) \in P
  PROVE  Seq(T) \subseteq P
<1> DEFINE Q == {n \in Nat : \A s \in Seq(T) : Len(s) = n => s \in P}
<1>1. 0 \in Q
  <2>1. \A s \in Seq(T) : Len(s) = 0 => s = <<>>
    BY EmptySeq
  <2> QED BY <2>1
<1>2. ASSUME NEW n \in Q PROVE n + 1 \in Q
  <2> SUFFICES ASSUME NEW s \in Seq(T), Len(s) = n + 1 PROVE s \in P
    OBVIOUS
  <2>1. s # <<>>
    OBVIOUS
  <2>2. PICK t \in Seq(T), e \in T : s = Append(t, e)
    BY <2>1, SequenceEmptyOrAppend
  <2>3. Len(t) = n
    BY <2>2, AppendProperties
  <2> QED BY <2>2, <2>3
<1>3. Nat \subseteq Q
  <2> HIDE DEF Q
  <2> QED BY <1>1, <1>2, NatAll
<1>4. \A s \in Seq(T) : Len(s) \in Nat
  OBVIOUS
<1> QED BY <1>3, <1>4

-----------------------------------------------------------------------------
(* The recursive definition behind Keep. *)

KeptFrom(k, s, S) ==
    k = [n \in 0 .. Len(s) |->
            IF n = 0 THEN <<>>
            ELSE IF s[n] \in S THEN Append(k[n - 1], s[n]) ELSE k[n - 1]]

(* One step of the equation. *)
LEMMA KeptStep ==
  ASSUME NEW s, Len(s) \in Nat, NEW S, NEW k, KeptFrom(k, s, S), NEW n \in 1 .. Len(s)
  PROVE  k[n] = IF s[n] \in S THEN Append(k[n - 1], s[n]) ELSE k[n - 1]
<1>1. n \in 0 .. Len(s) /\ n # 0
  OBVIOUS
<1> QED BY <1>1 DEF KeptFrom

(* The equation has a solution and all solutions agree. *)
LEMMA KeptExists ==
  ASSUME NEW T, NEW s \in Seq(T), NEW S
  PROVE  \E k : KeptFrom(k, s, S)
<1> DEFINE P == {t \in Seq(T) : \E k : KeptFrom(k, t, S)}
<1>1. <<>> \in P
  <2> DEFINE k == [n \in 0 .. 0 |-> <<>>]
  <2>1. KeptFrom(k, <<>>, S)
    BY DEF KeptFrom
  <2> QED BY <2>1
<1>2. ASSUME NEW t \in P, NEW e \in T PROVE Append(t, e) \in P
  <2>1. PICK k : KeptFrom(k, t, S)
    OBVIOUS
  <2> DEFINE u == Append(t, e)
             x == IF e \in S THEN Append(k[Len(t)], e) ELSE k[Len(t)]
             h == [n \in 0 .. Len(u) |-> IF n = Len(u) THEN x ELSE k[n]]
  <2>2. Len(u) = Len(t) + 1 /\ Len(t) \in Nat /\ u \in Seq(T)
        /\ u[Len(u)] = e /\ \A n \in 1 .. Len(t) : u[n] = t[n]
    BY AppendProperties
  <2> HIDE DEF u
  <2>3. ASSUME NEW n \in 0 .. Len(u)
        PROVE  h[n] = IF n = 0 THEN <<>>
                      ELSE IF u[n] \in S THEN Append(h[n - 1], u[n]) ELSE h[n - 1]
    <3>1. CASE n = Len(u)
      BY <2>2, <3>1
    <3>2. CASE n # Len(u) /\ n # 0
      <4>1. n \in 1 .. Len(t) /\ h[n] = k[n] /\ h[n - 1] = k[n - 1]
        BY <2>2, <3>2
      <4>2. k[n] = IF u[n] \in S THEN Append(k[n - 1], u[n]) ELSE k[n - 1]
        BY <2>1, <2>2, <4>1, KeptStep
      <4> QED BY <4>1, <4>2, <3>2
    <3>3. CASE n # Len(u) /\ n = 0
      BY <2>1, <2>2, <3>3 DEF KeptFrom
    <3> QED BY <3>1, <3>2, <3>3
  <2>4. KeptFrom(h, u, S)
    BY <2>3 DEF KeptFrom
  <2> QED BY <2>2, <2>4 DEF u
<1>3. Seq(T) \subseteq P
  <2> HIDE DEF P
  <2> QED BY <1>1, <1>2, SeqAll
<1> QED BY <1>3

(* Keep is read off a solution of its equation. *)
LEMMA KeepIsKept ==
  ASSUME NEW T, NEW s \in Seq(T), NEW S
  PROVE  \E k : KeptFrom(k, s, S) /\ Keep(s, S) = k[Len(s)]
<1>1. Keep(s, S) = (CHOOSE k : KeptFrom(k, s, S))[Len(s)]
  BY DEF Keep, KeptFrom
<1>2. KeptFrom(CHOOSE k : KeptFrom(k, s, S), s, S)
  <2>1. \E k : KeptFrom(k, s, S)
    BY KeptExists
  <2> QED BY <2>1, Zenon
<1> QED BY <1>1, <1>2

(* Solutions for a list and for one that starts with it agree so far. *)
LEMMA KeptUnique ==
  ASSUME NEW T, NEW s \in Seq(T), NEW t \in Seq(T), NEW S, NEW k, NEW h,
         KeptFrom(k, s, S), KeptFrom(h, t, S),
         Len(s) <= Len(t), \A n \in 1 .. Len(s) : s[n] = t[n]
  PROVE  \A n \in 0 .. Len(s) : k[n] = h[n]
<1> DEFINE P == {n \in Nat : n <= Len(s) => k[n] = h[n]}
<1>0. Len(s) \in Nat /\ Len(t) \in Nat
  OBVIOUS
<1>1. 0 \in P
  BY <1>0 DEF KeptFrom
<1>2. ASSUME NEW n \in P PROVE n + 1 \in P
  <2> SUFFICES ASSUME n + 1 <= Len(s) PROVE k[n + 1] = h[n + 1]
    OBVIOUS
  <2>1. k[n] = h[n] /\ n + 1 \in 1 .. Len(s) /\ n + 1 \in 1 .. Len(t) /\ s[n + 1] = t[n + 1]
    BY <1>0
  <2>4. (n + 1) - 1 = n
    OBVIOUS
  <2>2. k[n + 1] = IF s[n + 1] \in S THEN Append(k[n], s[n + 1]) ELSE k[n]
    BY <1>0, <2>1, <2>4, KeptStep
  <2>3. h[n + 1] = IF t[n + 1] \in S THEN Append(h[n], t[n + 1]) ELSE h[n]
    BY <1>0, <2>1, <2>4, KeptStep
  <2> QED BY <2>1, <2>2, <2>3
<1>3. Nat \subseteq P
  <2> HIDE DEF P
  <2> QED BY <1>1, <1>2, NatAll
<1> QED BY <1>0, <1>3

(* Nothing is kept of nothing. *)
LEMMA KeepEmpty ==
  ASSUME NEW S
  PROVE  Keep(<<>>, S) = <<>>
<1>1. PICK k : KeptFrom(k, <<>>, S) /\ Keep(<<>>, S) = k[Len(<<>>)]
  <2>1. <<>> \in Seq({})
    BY EmptySeq
  <2> QED BY <2>1, KeepIsKept
<1> QED BY <1>1 DEF KeptFrom

(* What is kept of a list with one element more. *)
LEMMA KeepAppend ==
  ASSUME NEW T, NEW s \in Seq(T), NEW e \in T, NEW S
  PROVE  Keep(Append(s, e), S) = IF e \in S THEN Append(Keep(s, S), e) ELSE Keep(s, S)
<1> DEFINE u == Append(s, e)
<1>1. Len(u) = Len(s) + 1 /\ Len(s) \in Nat /\ u \in Seq(T)
      /\ u[Len(u)] = e /\ \A n \in 1 .. Len(s) : u[n] = s[n]
  BY AppendProperties
<1> HIDE DEF u
<1>2. PICK k : KeptFrom(k, s, S) /\ Keep(s, S) = k[Len(s)]
  BY KeepIsKept
<1>3. PICK h : KeptFrom(h, u, S) /\ Keep(u, S) = h[Len(u)]
  BY <1>1, KeepIsKept
<1>4. k[Len(s)] = h[Len(s)]
  <2>1. \A n \in 0 .. Len(s) : k[n] = h[n]
    BY <1>1, <1>2, <1>3, KeptUnique
  <2> QED BY <1>1, <2>1
<1>5. h[Len(u)] = IF e \in S THEN Append(h[Len(s)], e) ELSE h[Len(s)]
  <2>1. Len(u) \in 0 .. Len(u) /\ Len(u) # 0 /\ Len(u) - 1 = Len(s)
    BY <1>1
  <2> QED BY <1>1, <1>3, <2>1 DEF KeptFrom
<1> QED BY <1>2, <1>3, <1>4, <1>5 DEF u

-----------------------------------------------------------------------------
(* What is in an extended sequence, and where. *)

(* Where the elements of an extended list are. *)
LEMMA AppendShape ==
  ASSUME NEW T, NEW s \in Seq(T), NEW e \in T
  PROVE  /\ Append(s, e) \in Seq(T)
         /\ Len(s) \in Nat /\ Len(Append(s, e)) = Len(s) + 1
         /\ Append(s, e)[Len(s) + 1] = e
         /\ \A n \in 1 .. Len(s) : Append(s, e)[n] = s[n]
         /\ ToSet(Append(s, e)) = ToSet(s) \cup {e}
<1>1. /\ Append(s, e) \in Seq(T)
      /\ Len(s) \in Nat /\ Len(Append(s, e)) = Len(s) + 1
      /\ Append(s, e)[Len(s) + 1] = e
      /\ \A n \in 1 .. Len(s) : Append(s, e)[n] = s[n]
  BY AppendProperties
<1> DEFINE u == Append(s, e)
<1>2. DOMAIN s = 1 .. Len(s) /\ DOMAIN u = 1 .. Len(s) + 1
  BY <1>1
<1> HIDE DEF u
<1>3. ToSet(u) = ToSet(s) \cup {e}
  <2>1. \A n \in DOMAIN u : u[n] \in ToSet(s) \cup {e}
    BY <1>1, <1>2 DEF ToSet, u
  <2>2. e \in ToSet(u)
    BY <1>1, <1>2 DEF ToSet, u
  <2>3. \A n \in DOMAIN s : s[n] \in ToSet(u)
    BY <1>1, <1>2 DEF ToSet, u
  <2> QED BY <2>1, <2>2, <2>3 DEF ToSet
<1> QED BY <1>1, <1>3 DEF u

(* An empty list has no elements. *)
LEMMA ToSetEmpty == ToSet(<<>>) = {}
BY DEF ToSet

(* The elements of a list are of its type. *)
LEMMA ToSetType ==
  ASSUME NEW T, NEW s \in Seq(T)
  PROVE  ToSet(s) \subseteq T
BY DEF ToSet

(* Exactly the elements in S are kept. *)
LEMMA KeepSet ==
  ASSUME NEW T, NEW s \in Seq(T), NEW S
  PROVE  Keep(s, S) \in Seq(T) /\ ToSet(Keep(s, S)) = ToSet(s) \cap S
<1> DEFINE P == {t \in Seq(T) : Keep(t, S) \in Seq(T) /\ ToSet(Keep(t, S)) = ToSet(t) \cap S}
<1>1. <<>> \in P
  BY KeepEmpty, EmptySeq, ToSetEmpty
<1>2. ASSUME NEW t \in P, NEW e \in T PROVE Append(t, e) \in P
  <2>1. Append(t, e) \in Seq(T) /\ ToSet(Append(t, e)) = ToSet(t) \cup {e}
    BY AppendShape
  <2>2. CASE e \in S
    <3>1. Keep(Append(t, e), S) = Append(Keep(t, S), e)
      BY <2>2, KeepAppend
    <3>2. Append(Keep(t, S), e) \in Seq(T) /\ ToSet(Append(Keep(t, S), e)) = ToSet(Keep(t, S)) \cup {e}
      BY AppendShape
    <3> QED BY <2>1, <2>2, <3>1, <3>2
  <2>3. CASE e \notin S
    <3>1. Keep(Append(t, e), S) = Keep(t, S)
      BY <2>3, KeepAppend
    <3> QED BY <2>1, <2>3, <3>1
  <2> QED BY <2>2, <2>3
<1>3. Seq(T) \subseteq P
  <2> HIDE DEF P
  <2> QED BY <1>1, <1>2, SeqAll
<1> QED BY <1>3

(* Only the elements of the list matter to what is kept of it. *)
LEMMA KeepSame ==
  ASSUME NEW T, NEW s \in Seq(T), NEW S, NEW U, \A x \in ToSet(s) : x \in S <=> x \in U
  PROVE  Keep(s, S) = Keep(s, U)
<1> DEFINE P == {t \in Seq(T) : (\A x \in ToSet(t) : x \in S <=> x \in U) => Keep(t, S) = Keep(t, U)}
<1>1. <<>> \in P
  BY KeepEmpty, EmptySeq
<1>2. ASSUME NEW t \in P, NEW e \in T PROVE Append(t, e) \in P
  <2>1. Append(t, e) \in Seq(T) /\ ToSet(Append(t, e)) = ToSet(t) \cup {e}
    BY AppendShape
  <2>2. Keep(Append(t, e), S) = IF e \in S THEN Append(Keep(t, S), e) ELSE Keep(t, S)
    BY KeepAppend
  <2>3. Keep(Append(t, e), U) = IF e \in U THEN Append(Keep(t, U), e) ELSE Keep(t, U)
    BY KeepAppend
  <2> QED BY <2>1, <2>2, <2>3
<1>3. Seq(T) \subseteq P
  <2> HIDE DEF P
  <2> QED BY <1>1, <1>2, SeqAll
<1> QED BY <1>3

(* Everything is kept where everything is wanted. *)
LEMMA KeepAll ==
  ASSUME NEW T, NEW s \in Seq(T), NEW S, ToSet(s) \subseteq S
  PROVE  Keep(s, S) = s
<1> DEFINE P == {t \in Seq(T) : Keep(t, T) = t}
<1>1. <<>> \in P
  BY KeepEmpty, EmptySeq
<1>2. ASSUME NEW t \in P, NEW e \in T PROVE Append(t, e) \in P
  BY KeepAppend, AppendShape
<1>3. Seq(T) \subseteq P
  <2> HIDE DEF P
  <2> QED BY <1>1, <1>2, SeqAll
<1>4. Keep(s, S) = Keep(s, T)
  BY ToSetType, KeepSame
<1> QED BY <1>3, <1>4

(* Keeping twice is keeping what is in both sets. *)
LEMMA KeepKeep ==
  ASSUME NEW T, NEW s \in Seq(T), NEW S, NEW U
  PROVE  Keep(Keep(s, S), U) = Keep(s, S \cap U)
<1> DEFINE P == {t \in Seq(T) : Keep(Keep(t, S), U) = Keep(t, S \cap U)}
<1>1. <<>> \in P
  BY KeepEmpty, EmptySeq
<1>2. ASSUME NEW t \in P, NEW e \in T PROVE Append(t, e) \in P
  <2>1. Append(t, e) \in Seq(T) /\ Keep(t, S) \in Seq(T)
    BY AppendShape, KeepSet
  <2>2. Keep(Append(t, e), S) = IF e \in S THEN Append(Keep(t, S), e) ELSE Keep(t, S)
    BY KeepAppend
  <2>3. Keep(Append(t, e), S \cap U) = IF e \in S \cap U THEN Append(Keep(t, S \cap U), e) ELSE Keep(t, S \cap U)
    BY KeepAppend
  <2>4. Keep(Append(Keep(t, S), e), U) = IF e \in U THEN Append(Keep(Keep(t, S), U), e) ELSE Keep(Keep(t, S), U)
    BY <2>1, KeepAppend
  <2>5. Keep(Keep(t, S), U) = Keep(t, S \cap U)
    OBVIOUS
  <2>6. Keep(Keep(Append(t, e), S), U) = Keep(Append(t, e), S \cap U)
    <3>1. CASE e \in S /\ e \in U
      BY <2>2, <2>3, <2>4, <2>5, <3>1
    <3>3. CASE e \in S /\ e \notin U
      BY <2>2, <2>3, <2>4, <2>5, <3>3
    <3>2. CASE e \notin S
      BY <2>2, <2>3, <2>5, <3>2
    <3> QED BY <3>1, <3>2, <3>3
  <2> QED BY <2>1, <2>6
<1>3. Seq(T) \subseteq P
  <2> HIDE DEF P
  <2> QED BY <1>1, <1>2, SeqAll
<1> QED BY <1>3

(* An extended list repeats nothing when the new element is new. *)
LEMMA InjectiveAppend ==
  ASSUME NEW T, NEW s \in Seq(T), NEW e \in T
  PROVE  IsInjective(Append(s, e)) <=> IsInjective(s) /\ e \notin ToSet(s)
<1> DEFINE u == Append(s, e)
<1>1. /\ Len(s) \in Nat /\ u[Len(s) + 1] = e
      /\ \A n \in 1 .. Len(s) : u[n] = s[n]
  BY AppendShape
<1>2. DOMAIN s = 1 .. Len(s) /\ DOMAIN u = 1 .. Len(s) + 1
  BY AppendShape
<1> HIDE DEF u
<1>3. IsInjective(u) => IsInjective(s) /\ e \notin ToSet(s)
  <2> SUFFICES ASSUME IsInjective(u) PROVE IsInjective(s) /\ e \notin ToSet(s)
    OBVIOUS
  <2>1. IsInjective(s)
    BY <1>1, <1>2 DEF IsInjective
  <2>2. ASSUME NEW n \in 1 .. Len(s), s[n] = e PROVE FALSE
    <3>1. u[n] = u[Len(s) + 1] /\ n \in DOMAIN u /\ Len(s) + 1 \in DOMAIN u /\ n # Len(s) + 1
      BY <1>1, <1>2, <2>2
    <3> QED BY <3>1 DEF IsInjective
  <2> QED BY <1>2, <2>1, <2>2 DEF ToSet
<1>4. IsInjective(s) /\ e \notin ToSet(s) => IsInjective(u)
  <2> SUFFICES ASSUME IsInjective(s), e \notin ToSet(s), NEW i \in DOMAIN u, NEW j \in DOMAIN u, u[i] = u[j]
               PROVE  i = j
    BY DEF IsInjective
  <2>1. \A n \in 1 .. Len(s) : s[n] # e
    BY <1>2 DEF ToSet
  <2>2. CASE i = Len(s) + 1
    BY <1>1, <1>2, <2>1, <2>2
  <2>3. CASE j = Len(s) + 1
    BY <1>1, <1>2, <2>1, <2>3
  <2>4. CASE i # Len(s) + 1 /\ j # Len(s) + 1
    <3>1. i \in DOMAIN s /\ j \in DOMAIN s /\ s[i] = s[j]
      BY <1>1, <1>2, <2>4
    <3> QED BY <3>1 DEF IsInjective
  <2> QED BY <2>2, <2>3, <2>4
<1> QED BY <1>3, <1>4 DEF u

(* No repetition is added by leaving elements out. *)
LEMMA KeepInjective ==
  ASSUME NEW T, NEW s \in Seq(T), NEW S, IsInjective(s)
  PROVE  IsInjective(Keep(s, S))
<1> DEFINE P == {t \in Seq(T) : IsInjective(t) => IsInjective(Keep(t, S))}
<1>1. <<>> \in P
  BY KeepEmpty, EmptySeq
<1>2. ASSUME NEW t \in P, NEW e \in T PROVE Append(t, e) \in P
  <2>1. Keep(t, S) \in Seq(T) /\ ToSet(Keep(t, S)) \subseteq ToSet(t) /\ Append(t, e) \in Seq(T)
    BY KeepSet, AppendShape
  <2>2. Keep(Append(t, e), S) = IF e \in S THEN Append(Keep(t, S), e) ELSE Keep(t, S)
    BY KeepAppend
  <2>3. IsInjective(Append(t, e)) <=> IsInjective(t) /\ e \notin ToSet(t)
    BY InjectiveAppend
  <2>4. IsInjective(Append(Keep(t, S), e)) <=> IsInjective(Keep(t, S)) /\ e \notin ToSet(Keep(t, S))
    BY <2>1, InjectiveAppend
  <2> QED BY <2>1, <2>2, <2>3, <2>4
<1>3. Seq(T) \subseteq P
  <2> HIDE DEF P
  <2> QED BY <1>1, <1>2, SeqAll
<1> QED BY <1>3
(* Reversing a list moves its elements and undoes itself. *)
LEMMA ReverseShape ==
  ASSUME NEW T, NEW s \in Seq(T)
  PROVE  /\ Reverse(s) \in Seq(T) /\ Len(Reverse(s)) = Len(s) /\ Len(s) \in Nat
         /\ \A i \in 1 .. Len(s) : Reverse(s)[i] = s[Len(s) - i + 1]
         /\ ToSet(Reverse(s)) = ToSet(s)
         /\ Reverse(Reverse(s)) = s
         /\ IsInjective(s) => IsInjective(Reverse(s))
<1> DEFINE n == Len(s)
           u == Reverse(s)
<1>0. n \in Nat /\ s \in [1 .. n -> T] /\ DOMAIN s = 1 .. n
  BY LenProperties
<1>1. u = [i \in 1 .. n |-> s[n - i + 1]]
  BY DEF Reverse
<1> HIDE DEF n, u
<1>2. \A i \in 1 .. n : n - i + 1 \in 1 .. n
  BY <1>0
<1>3. u \in [1 .. n -> T]
  BY <1>0, <1>1, <1>2
<1>4. u \in Seq(T) /\ Len(u) = n /\ DOMAIN u = 1 .. n
  BY <1>0, <1>3
<1>5. ToSet(u) = ToSet(s)
  <2>1. \A i \in 1 .. n : u[i] = s[n - i + 1] /\ s[i] = u[n - i + 1]
    BY <1>0, <1>1, <1>2
  <2>2. ToSet(u) \subseteq ToSet(s)
    BY <2>1, <1>0, <1>2, <1>4 DEF ToSet
  <2>3. ToSet(s) \subseteq ToSet(u)
    BY <2>1, <1>0, <1>2, <1>4 DEF ToSet
  <2> QED BY <2>2, <2>3
<1>6. Reverse(u) = s
  <2>1. Reverse(u) = [i \in 1 .. n |-> u[n - i + 1]]
    BY <1>4 DEF Reverse
  <2>2. \A i \in 1 .. n : u[n - i + 1] = s[i]
    BY <1>0, <1>1, <1>2
  <2> QED BY <2>1, <2>2, <1>0
<1>7. IsInjective(s) => IsInjective(u)
  BY <1>0, <1>1, <1>2 DEF IsInjective
<1> QED BY <1>0, <1>1, <1>4, <1>5, <1>6, <1>7 DEF u, n

(* What is kept of a list with one element more in front. *)
LEMMA KeepCons ==
  ASSUME NEW T, NEW s \in Seq(T), NEW e \in T, NEW S
  PROVE  Keep(<<e>> \o s, S) = IF e \in S THEN <<e>> \o Keep(s, S) ELSE Keep(s, S)
<1> DEFINE P == {t \in Seq(T) : Keep(<<e>> \o t, S) = IF e \in S THEN <<e>> \o Keep(t, S) ELSE Keep(t, S)}
<1>0. <<e>> \in Seq(T)
  OBVIOUS
<1>1. <<>> \in P
  <2>1. <<e>> \o <<>> = Append(<<>>, e) /\ <<>> \in Seq(T)
    OBVIOUS
  <2>2. Keep(Append(<<>>, e), S) = IF e \in S THEN Append(Keep(<<>>, S), e) ELSE Keep(<<>>, S)
    BY <2>1, KeepAppend
  <2> QED BY <2>1, <2>2, KeepEmpty
<1>2. ASSUME NEW t \in P, NEW x \in T PROVE Append(t, x) \in P
  <2>1. /\ <<e>> \o Append(t, x) = Append(<<e>> \o t, x)
        /\ <<e>> \o t \in Seq(T) /\ Append(t, x) \in Seq(T) /\ Keep(t, S) \in Seq(T)
    BY KeepSet
  <2>2. Keep(Append(<<e>> \o t, x), S) = IF x \in S THEN Append(Keep(<<e>> \o t, S), x) ELSE Keep(<<e>> \o t, S)
    <3> DEFINE w == <<e>> \o t
    <3>1. w \in Seq(T)
      BY <2>1
    <3> HIDE DEF w
    <3>2. Keep(Append(w, x), S) = IF x \in S THEN Append(Keep(w, S), x) ELSE Keep(w, S)
      BY <3>1, KeepAppend
    <3> QED BY <3>2 DEF w
  <2>3. Keep(Append(t, x), S) = IF x \in S THEN Append(Keep(t, S), x) ELSE Keep(t, S)
    BY KeepAppend
  <2>4. <<e>> \o Append(Keep(t, S), x) = Append(<<e>> \o Keep(t, S), x)
    BY <2>1
  <2>5. Keep(<<e>> \o t, S) = IF e \in S THEN <<e>> \o Keep(t, S) ELSE Keep(t, S)
    OBVIOUS
  <2> QED BY <2>1, <2>2, <2>3, <2>4, <2>5
<1>3. Seq(T) \subseteq P
  <2> HIDE DEF P
  <2> QED BY <1>1, <1>2, SeqAll
<1> QED BY <1>3

(* The last element comes first in the reverse. *)
LEMMA ReverseAppend ==
  ASSUME NEW T, NEW s \in Seq(T), NEW e \in T
  PROVE  Reverse(Append(s, e)) = <<e>> \o Reverse(s)
<1> DEFINE u == Append(s, e)
           v == Reverse(u)
           r == Reverse(s)
           w == <<e>> \o r
<1>0. Len(s) \in Nat /\ <<e>> \in Seq(T) /\ Len(<<e>>) = 1 /\ <<e>>[1] = e
  OBVIOUS
<1>1. /\ u \in Seq(T) /\ Len(u) = Len(s) + 1 /\ u[Len(s) + 1] = e
      /\ \A i \in 1 .. Len(s) : u[i] = s[i]
  BY AppendShape
<1>2. r \in Seq(T) /\ Len(r) = Len(s) /\ \A i \in 1 .. Len(s) : r[i] = s[Len(s) - i + 1]
  BY ReverseShape
<1> HIDE DEF u, r
<1>3. /\ v \in Seq(T) /\ Len(v) = Len(s) + 1
      /\ \A i \in 1 .. Len(s) + 1 : v[i] = u[Len(s) + 1 - i + 1]
  BY <1>1, ReverseShape
<1>4. /\ w \in Seq(T) /\ Len(w) = Len(s) + 1
      /\ \A i \in 1 .. Len(s) + 1 : w[i] = IF i <= 1 THEN <<e>>[i] ELSE r[i - 1]
  <2>1. /\ w \in Seq(T) /\ Len(w) = 1 + Len(r)
        /\ \A i \in 1 .. 1 + Len(r) : w[i] = IF i <= 1 THEN <<e>>[i] ELSE r[i - 1]
    BY <1>0, <1>2, ConcatProperties
  <2> QED BY <1>0, <1>2, <2>1
<1> HIDE DEF v, w
<1>5. ASSUME NEW i \in 1 .. Len(s) + 1 PROVE v[i] = w[i]
  <2>1. CASE i = 1
    BY <1>0, <1>1, <1>3, <1>4, <2>1
  <2>2. CASE i # 1
    <3>1. i - 1 \in 1 .. Len(s) /\ Len(s) + 1 - i + 1 \in 1 .. Len(s)
          /\ Len(s) - (i - 1) + 1 = Len(s) + 1 - i + 1
      BY <1>0, <2>2
    <3>2. w[i] = r[i - 1] /\ r[i - 1] = s[Len(s) - (i - 1) + 1]
      BY <1>0, <1>2, <1>4, <2>2, <3>1
    <3>3. v[i] = u[Len(s) + 1 - i + 1] /\ u[Len(s) + 1 - i + 1] = s[Len(s) + 1 - i + 1]
      BY <1>1, <1>3, <3>1
    <3> QED BY <3>1, <3>2, <3>3
  <2> QED BY <2>1, <2>2
<1>6. v = w
  BY <1>3, <1>4, <1>5, SeqEqual
<1> QED BY <1>6 DEF v, w, u, r

(* Leaving out and turning round can change places. *)
LEMMA KeepReverse ==
  ASSUME NEW T, NEW s \in Seq(T), NEW S
  PROVE  Keep(Reverse(s), S) = Reverse(Keep(s, S))
<1> DEFINE P == {t \in Seq(T) : Keep(Reverse(t), S) = Reverse(Keep(t, S))}
<1>1. <<>> \in P
  <2>1. Reverse(<<>>) = <<>>
    BY DEF Reverse
  <2> QED BY <2>1, KeepEmpty, EmptySeq
<1>2. ASSUME NEW t \in P, NEW e \in T PROVE Append(t, e) \in P
  <2>1. Append(t, e) \in Seq(T) /\ Keep(t, S) \in Seq(T) /\ Reverse(t) \in Seq(T)
    BY KeepSet, AppendShape, ReverseShape
  <2>2. Keep(Append(t, e), S) = IF e \in S THEN Append(Keep(t, S), e) ELSE Keep(t, S)
    BY KeepAppend
  <2>3. Reverse(Append(t, e)) = <<e>> \o Reverse(t)
    BY ReverseAppend
  <2>4. Reverse(Append(Keep(t, S), e)) = <<e>> \o Reverse(Keep(t, S))
    BY <2>1, ReverseAppend
  <2>5. Keep(<<e>> \o Reverse(t), S) = IF e \in S THEN <<e>> \o Keep(Reverse(t), S) ELSE Keep(Reverse(t), S)
    BY <2>1, KeepCons
  <2> QED BY <2>1, <2>2, <2>3, <2>4, <2>5
<1>3. Seq(T) \subseteq P
  <2> HIDE DEF P
  <2> QED BY <1>1, <1>2, SeqAll
<1> QED BY <1>3

(* A list through a function. *)
Maps(G, T, V) == G \in [T -> V]

Through(G, s) == [i \in DOMAIN s |-> G[s[i]]]

(* Where the elements of a mapped list are. *)
LEMMA ThroughShape ==
  ASSUME NEW T, NEW V, NEW G, Maps(G, T, V), NEW s \in Seq(T)
  PROVE  /\ Through(G, s) \in Seq(V) /\ Len(Through(G, s)) = Len(s)
         /\ \A i \in 1 .. Len(s) : Through(G, s)[i] = G[s[i]]
         /\ ToSet(Through(G, s)) = {G[x] : x \in ToSet(s)}
<1>1. Len(s) \in Nat /\ DOMAIN s = 1 .. Len(s) /\ s \in [1 .. Len(s) -> T]
  BY LenProperties
<1>2. Through(G, s) = [i \in 1 .. Len(s) |-> G[s[i]]]
  BY <1>1 DEF Through
<1>3. Through(G, s) \in [1 .. Len(s) -> V]
  BY <1>1, <1>2 DEF Maps
<1>4. Through(G, s) \in Seq(V) /\ Len(Through(G, s)) = Len(s)
  BY <1>1, <1>3
<1>5. ToSet(Through(G, s)) = {G[x] : x \in ToSet(s)}
  BY <1>1, <1>2 DEF ToSet
<1> QED BY <1>2, <1>4, <1>5

(* Mapping an extended list. *)
LEMMA ThroughAppend ==
  ASSUME NEW T, NEW V, NEW G, Maps(G, T, V), NEW s \in Seq(T), NEW e \in T
  PROVE  Through(G, Append(s, e)) = Append(Through(G, s), G[e])
<1> DEFINE u == Append(s, e)
           v == Through(G, u)
           r == Through(G, s)
           w == Append(r, G[e])
<1>0. G[e] \in V /\ Len(s) \in Nat
  BY DEF Maps
<1>1. /\ u \in Seq(T) /\ Len(u) = Len(s) + 1 /\ u[Len(s) + 1] = e
      /\ \A i \in 1 .. Len(s) : u[i] = s[i]
  BY AppendShape
<1>2. r \in Seq(V) /\ Len(r) = Len(s) /\ \A i \in 1 .. Len(s) : r[i] = G[s[i]]
  BY ThroughShape
<1> HIDE DEF u, r
<1>3. v \in Seq(V) /\ Len(v) = Len(s) + 1 /\ \A i \in 1 .. Len(s) + 1 : v[i] = G[u[i]]
  <2> HIDE DEF w
  <2>0. u \in Seq(T)
    BY <1>1
  <2>1. v \in Seq(V) /\ Len(v) = Len(u) /\ \A i \in 1 .. Len(u) : v[i] = G[u[i]]
    BY <2>0, ThroughShape
  <2> QED BY <1>1, <2>1
<1>4. /\ w \in Seq(V) /\ Len(w) = Len(s) + 1 /\ w[Len(s) + 1] = G[e]
      /\ \A i \in 1 .. Len(s) : w[i] = r[i]
  BY <1>0, <1>2, AppendShape
<1> HIDE DEF v, w
<1>5. ASSUME NEW i \in 1 .. Len(s) + 1 PROVE v[i] = w[i]
  <2>1. CASE i = Len(s) + 1
    <3>1. v[i] = G[u[i]]
      BY <1>3
    <3>2. u[i] = e /\ w[i] = G[e]
      BY <1>1, <1>4, <2>1
    <3> QED BY <3>1, <3>2
  <2>2. CASE i # Len(s) + 1
    <3>1. i \in 1 .. Len(s)
      BY <1>0, <2>2
    <3> QED BY <1>1, <1>2, <1>3, <1>4, <3>1
  <2> QED BY <2>1, <2>2
<1>6. v = w
  BY <1>3, <1>4, <1>5, SeqEqual
<1> QED BY <1>6 DEF v, w, u, r

(* Leaving out and mapping can change places. *)
LEMMA KeepThrough ==
  ASSUME NEW T, NEW V, NEW G, Maps(G, T, V), NEW s \in Seq(T), NEW S, NEW U,
         \A x \in ToSet(s) : G[x] \in S <=> x \in U
  PROVE  Keep(Through(G, s), S) = Through(G, Keep(s, U))
<1> DEFINE P == {t \in Seq(T) : (\A x \in ToSet(t) : G[x] \in S <=> x \in U)
                               => Keep(Through(G, t), S) = Through(G, Keep(t, U))}
<1>1. <<>> \in P
  <2>1. Through(G, <<>>) = <<>>
    BY DEF Through
  <2> QED BY <2>1, KeepEmpty, EmptySeq
<1>2. ASSUME NEW t \in P, NEW e \in T PROVE Append(t, e) \in P
  <2>1. /\ Append(t, e) \in Seq(T) /\ ToSet(Append(t, e)) = ToSet(t) \cup {e}
        /\ Keep(t, U) \in Seq(T) /\ Through(G, t) \in Seq(V) /\ G[e] \in V
    BY KeepSet, AppendShape, ThroughShape DEF Maps
  <2>2. Keep(Append(t, e), U) = IF e \in U THEN Append(Keep(t, U), e) ELSE Keep(t, U)
    BY KeepAppend
  <2>3. Through(G, Append(t, e)) = Append(Through(G, t), G[e])
    BY ThroughAppend
  <2>4. Through(G, Append(Keep(t, U), e)) = Append(Through(G, Keep(t, U)), G[e])
    <3> DEFINE w == Keep(t, U)
    <3>1. w \in Seq(T)
      BY <2>1
    <3> HIDE DEF w
    <3>2. Through(G, Append(w, e)) = Append(Through(G, w), G[e])
      BY <3>1, ThroughAppend
    <3> QED BY <3>2 DEF w
  <2>5. Keep(Append(Through(G, t), G[e]), S)
        = IF G[e] \in S THEN Append(Keep(Through(G, t), S), G[e]) ELSE Keep(Through(G, t), S)
    <3> DEFINE w == Through(G, t)
               y == G[e]
    <3>1. w \in Seq(V) /\ y \in V
      BY <2>1
    <3> HIDE DEF w, y
    <3>2. Keep(Append(w, y), S) = IF y \in S THEN Append(Keep(w, S), y) ELSE Keep(w, S)
      BY <3>1, KeepAppend
    <3> QED BY <3>2 DEF w, y
  <2> SUFFICES ASSUME \A x \in ToSet(Append(t, e)) : G[x] \in S <=> x \in U
               PROVE  Keep(Through(G, Append(t, e)), S) = Through(G, Keep(Append(t, e), U))
    BY <2>1
  <2>6. Keep(Through(G, t), S) = Through(G, Keep(t, U)) /\ (G[e] \in S <=> e \in U)
    BY <2>1
  <2> QED BY <2>2, <2>3, <2>4, <2>5, <2>6
<1>3. Seq(T) \subseteq P
  <2> HIDE DEF P
  <2> QED BY <1>1, <1>2, SeqAll
<1> QED BY <1>3

-----------------------------------------------------------------------------
(* Stops, routes and schedules *)

TimeStop == [station: Station, time: Time \cup {None}]

(* The stations of a list of stops or of times, one by one. *)
LEMMA StationsShape ==
  ASSUME NEW T, NEW s \in Seq(T), \A x \in T : x.station \in Station
  PROVE  /\ StationsOf(s) \in Seq(Station) /\ Len(StationsOf(s)) = Len(s) /\ Len(s) \in Nat
         /\ \A i \in 1 .. Len(s) : StationsOf(s)[i] = s[i].station
         /\ ToSet(StationsOf(s)) = {x.station : x \in ToSet(s)}
<1>1. Len(s) \in Nat /\ DOMAIN s = 1 .. Len(s) /\ s \in [1 .. Len(s) -> T]
  BY LenProperties
<1>2. StationsOf(s) = [i \in 1 .. Len(s) |-> s[i].station]
  BY <1>1 DEF StationsOf, Map
<1>3. StationsOf(s) \in [1 .. Len(s) -> Station]
  BY <1>1, <1>2
<1>4. StationsOf(s) \in Seq(Station) /\ Len(StationsOf(s)) = Len(s)
  BY <1>1, <1>3
<1>5. ToSet(StationsOf(s)) = {x.station : x \in ToSet(s)}
  BY <1>1, <1>2 DEF ToSet
<1> QED BY <1>1, <1>2, <1>4, <1>5

LEMMA StopStations ==
  ASSUME NEW s \in Seq(Stop)
  PROVE  /\ StationsOf(s) \in Seq(Station) /\ Len(StationsOf(s)) = Len(s) /\ Len(s) \in Nat
         /\ \A i \in 1 .. Len(s) : StationsOf(s)[i] = s[i].station
         /\ ToSet(StationsOf(s)) = {x.station : x \in ToSet(s)}
<1>1. \A x \in Stop : x.station \in Station
  BY DEF Stop
<1> QED BY <1>1, StationsShape

LEMMA TimeStations ==
  ASSUME NEW s \in Seq(TimeStop)
  PROVE  /\ StationsOf(s) \in Seq(Station) /\ Len(StationsOf(s)) = Len(s) /\ Len(s) \in Nat
         /\ \A i \in 1 .. Len(s) : StationsOf(s)[i] = s[i].station
         /\ ToSet(StationsOf(s)) = {x.station : x \in ToSet(s)}
<1>1. \A x \in TimeStop : x.station \in Station
  BY DEF TimeStop
<1> QED BY <1>1, StationsShape

(* A route begins and ends at the termini and calls at the stops between. *)
LEMMA RouteShape ==
  ASSUME NEW row \in LineRow
  PROVE  /\ Route(row) \in Seq(Station) /\ Len(row.stops) \in Nat
         /\ Len(Route(row)) = Len(row.stops) + 2
         /\ Route(row)[1] = row.departure
         /\ Route(row)[Len(row.stops) + 2] = row.arrival
         /\ \A i \in 1 .. Len(row.stops) : Route(row)[i + 1] = row.stops[i].station
<1> DEFINE n == Len(row.stops)
           d == <<row.departure>>
           m == StationsOf(row.stops)
           a == <<row.arrival>>
<1>1. row.departure \in Station /\ row.arrival \in Station /\ row.stops \in Seq(Stop)
  BY DEF LineRow
<1>2. m \in Seq(Station) /\ Len(m) = n /\ n \in Nat /\ \A i \in 1 .. n : m[i] = row.stops[i].station
  BY <1>1, StopStations
<1>3. /\ d \in Seq(Station) /\ Len(d) = 1 /\ d[1] = row.departure
      /\ a \in Seq(Station) /\ Len(a) = 1 /\ a[1] = row.arrival
  BY <1>1
<1> HIDE DEF d, m, a
<1>4. /\ d \o m \in Seq(Station) /\ Len(d \o m) = n + 1
      /\ \A i \in 1 .. n + 1 : (d \o m)[i] = IF i <= 1 THEN d[i] ELSE m[i - 1]
  <2>1. /\ d \o m \in Seq(Station) /\ Len(d \o m) = Len(d) + Len(m)
        /\ \A i \in 1 .. Len(d) + Len(m) : (d \o m)[i] = IF i <= Len(d) THEN d[i] ELSE m[i - Len(d)]
    <3>1. d \in Seq(Station) /\ m \in Seq(Station)
      BY <1>2, <1>3
    <3> QED BY <3>1, ConcatProperties
  <2> QED BY <1>2, <1>3, <2>1
<1> DEFINE h == d \o m
<1>5. /\ h \o a \in Seq(Station) /\ Len(h \o a) = n + 2
      /\ \A i \in 1 .. n + 2 : (h \o a)[i] = IF i <= n + 1 THEN h[i] ELSE a[i - (n + 1)]
  <2>1. h \in Seq(Station) /\ Len(h) = n + 1
    BY <1>4
  <2> HIDE DEF h
  <2>2. /\ h \o a \in Seq(Station) /\ Len(h \o a) = Len(h) + Len(a)
        /\ \A i \in 1 .. Len(h) + Len(a) : (h \o a)[i] = IF i <= Len(h) THEN h[i] ELSE a[i - Len(h)]
    BY <1>3, <2>1, ConcatProperties
  <2> QED BY <1>2, <1>3, <2>1, <2>2
<1>6. Route(row) = h \o a
  BY DEF Route, h, d, m, a
<1>7. (h \o a)[1] = d[1] /\ (h \o a)[n + 2] = a[1]
  BY <1>2, <1>4, <1>5
<1>8. ASSUME NEW i \in 1 .. n PROVE (h \o a)[i + 1] = m[i]
  <2>1. i + 1 \in 1 .. n + 1 /\ ~(i + 1 <= 1) /\ i + 1 <= n + 1 /\ i + 1 \in 1 .. n + 2
    BY <1>2
  <2>2. (h \o a)[i + 1] = h[i + 1] /\ h[i + 1] = m[i + 1 - 1]
    BY <1>4, <1>5, <2>1
  <2>3. i + 1 - 1 = i
    BY <1>2
  <2> QED BY <2>2, <2>3
<1> QED BY <1>2, <1>3, <1>5, <1>6, <1>7, <1>8

(* A valid route repeats no station. *)
LEMMA ValidStops ==
  ASSUME NEW row \in LineRow
  PROVE  ValidRoute(row) <=> /\ row.departure # row.arrival
                             /\ IsInjective(StationsOf(row.stops))
                             /\ \A s \in ToSet(StationsOf(row.stops)) : NotAnEndpoint(row, s)
<1> DEFINE m == StationsOf(row.stops)
<1>1. row.stops \in Seq(Stop)
  BY DEF LineRow
<1>2. /\ m \in Seq(Station) /\ Len(m) = Len(row.stops) /\ Len(row.stops) \in Nat
      /\ \A i \in 1 .. Len(row.stops) : m[i] = row.stops[i].station
  BY <1>1, StopStations
<1>3. DOMAIN m = 1 .. Len(row.stops) /\ DOMAIN row.stops = 1 .. Len(row.stops)
  BY <1>1, <1>2
<1> HIDE DEF m
<1>4. IsInjective(m) <=> \A i, j \in DOMAIN row.stops : row.stops[i].station = row.stops[j].station => i = j
  BY <1>2, <1>3 DEF IsInjective
<1>5. (\A s \in ToSet(m) : NotAnEndpoint(row, s)) <=> \A i \in DOMAIN row.stops : NotAnEndpoint(row, row.stops[i].station)
  BY <1>2, <1>3 DEF ToSet
<1> QED BY <1>4, <1>5 DEF ValidRoute, m

LEMMA RouteInjective ==
  ASSUME NEW row \in LineRow, ValidRoute(row)
  PROVE  IsInjective(Route(row))
<1> DEFINE n == Len(row.stops)
           u == Route(row)
<1>1. /\ u \in Seq(Station) /\ n \in Nat /\ Len(u) = n + 2
      /\ u[1] = row.departure /\ u[n + 2] = row.arrival
      /\ \A i \in 1 .. n : u[i + 1] = row.stops[i].station
  BY RouteShape
<1>2. DOMAIN u = 1 .. n + 2 /\ DOMAIN row.stops = 1 .. n
  BY <1>1 DEF LineRow
<1> HIDE DEF u, n
<1>3. /\ row.departure # row.arrival
      /\ \A i \in 1 .. n : row.stops[i].station # row.departure /\ row.stops[i].station # row.arrival
      /\ \A i, j \in 1 .. n : row.stops[i].station = row.stops[j].station => i = j
  BY <1>2 DEF ValidRoute, NotAnEndpoint
<1>4. ASSUME NEW i \in 1 .. n + 2
      PROVE  \/ i = 1 /\ u[i] = row.departure
             \/ i = n + 2 /\ u[i] = row.arrival
             \/ i - 1 \in 1 .. n /\ u[i] = row.stops[i - 1].station
  <2>1. CASE i # 1 /\ i # n + 2
    <3>1. i - 1 \in 1 .. n /\ (i - 1) + 1 = i
      BY <1>1, <2>1
    <3>2. u[(i - 1) + 1] = row.stops[i - 1].station
      BY <1>1, <3>1
    <3> QED BY <3>1, <3>2
  <2> QED BY <1>1, <2>1
<1>5. ASSUME NEW i \in 1 .. n + 2, NEW j \in 1 .. n + 2, u[i] = u[j] PROVE i = j
  <2>1. CASE i - 1 \in 1 .. n /\ j - 1 \in 1 .. n /\ u[i] = row.stops[i - 1].station /\ u[j] = row.stops[j - 1].station
    <3>1. i - 1 = j - 1
      BY <1>3, <1>5, <2>1
    <3> QED BY <1>1, <3>1
  <2>2. CASE ~(i - 1 \in 1 .. n /\ j - 1 \in 1 .. n /\ u[i] = row.stops[i - 1].station /\ u[j] = row.stops[j - 1].station)
    BY <1>3, <1>4, <1>5, <2>2
  <2> QED BY <2>1, <2>2
<1> QED BY <1>2, <1>5 DEF IsInjective, u

StationIn == [x \in Stop |-> x.station]

Between(row) == {s \in Station : NotAnEndpoint(row, s)}

LEMMA StopsThrough ==
  ASSUME NEW s \in Seq(Stop)
  PROVE  Maps(StationIn, Stop, Station) /\ StationsOf(s) = Through(StationIn, s)
<1>1. Maps(StationIn, Stop, Station)
  BY DEF Maps, StationIn, Stop
<1>2. \A i \in DOMAIN s : s[i] \in Stop
  OBVIOUS
<1> QED BY <1>1, <1>2 DEF StationsOf, Map, Through, StationIn

(* The stations of the stops that are kept. *)
LEMMA StationsKept ==
  ASSUME NEW s \in Seq(Stop), NEW S
  PROVE  StationsOf(Keep(s, {x \in Stop : x.station \in S})) = Keep(StationsOf(s), S)
<1> DEFINE U == {x \in Stop : x.station \in S}
<1>1. Maps(StationIn, Stop, Station) /\ StationsOf(s) = Through(StationIn, s)
  BY StopsThrough
<1>2. Keep(s, U) \in Seq(Stop)
  BY KeepSet
<1>3. \A x \in ToSet(s) : StationIn[x] \in S <=> x \in U
  <2>1. ToSet(s) \subseteq Stop
    BY ToSetType
  <2> QED BY <2>1 DEF StationIn
<1> HIDE DEF U
<1>4. StationsOf(Keep(s, U)) = Through(StationIn, Keep(s, U))
  BY <1>2, StopsThrough
<1>5. Keep(Through(StationIn, s), S) = Through(StationIn, Keep(s, U))
  BY <1>1, <1>3, KeepThrough
<1> QED BY <1>1, <1>4, <1>5 DEF U

(* The other way round, by the same stations. *)
LEMMA ReversedShape ==
  ASSUME NEW s \in Seq(Stop)
  PROVE  ReversedStops(s) \in Seq(Stop) /\ StationsOf(ReversedStops(s)) = Reverse(StationsOf(s))
<1> DEFINE n == Len(s)
           u == Reverse(s)
           v == ReversedStops(s)
           m == StationsOf(s)
<1>1. u \in Seq(Stop) /\ Len(u) = n /\ n \in Nat /\ \A i \in 1 .. n : u[i] = s[n - i + 1]
  BY ReverseShape
<1>2. DOMAIN u = 1 .. n
  BY <1>1
<1> HIDE DEF u
<1>3. v = [i \in 1 .. n |-> Flipped(u[i])]
  BY <1>2 DEF ReversedStops, Map, u
<1>4. ASSUME NEW x \in Stop PROVE Flipped(x) \in Stop /\ Flipped(x).station = x.station
  BY DEF Flipped, Stop
<1>5. \A i \in 1 .. n : u[i] \in Stop
  BY <1>1
<1>6. v \in [1 .. n -> Stop]
  BY <1>3, <1>4, <1>5
<1>7. v \in Seq(Stop) /\ Len(v) = n
  <2> HIDE DEF v, n
  <2> QED BY <1>1, <1>6
<1>8. \A i \in 1 .. n : v[i].station = u[i].station
  BY <1>3, <1>4, <1>5
<1> HIDE DEF v
<1>9. /\ StationsOf(v) \in Seq(Station) /\ Len(StationsOf(v)) = n
      /\ \A i \in 1 .. n : StationsOf(v)[i] = v[i].station
  BY <1>7, StopStations
<1>10. m \in Seq(Station) /\ Len(m) = n /\ \A i \in 1 .. n : m[i] = s[i].station
  BY StopStations
<1> HIDE DEF m
<1>11. Reverse(m) \in Seq(Station) /\ Len(Reverse(m)) = n /\ \A i \in 1 .. n : Reverse(m)[i] = m[n - i + 1]
  BY <1>10, ReverseShape
<1>12. ASSUME NEW i \in 1 .. n PROVE StationsOf(v)[i] = Reverse(m)[i]
  <2>1. n - i + 1 \in 1 .. n
    BY <1>1
  <2>2. StationsOf(v)[i] = s[n - i + 1].station
    BY <1>1, <1>8, <1>9
  <2>3. Reverse(m)[i] = s[n - i + 1].station
    BY <1>10, <1>11, <2>1
  <2> QED BY <2>2, <2>3
<1>13. StationsOf(v) = Reverse(m)
  BY <1>9, <1>11, <1>12, SeqEqual
<1> QED BY <1>7, <1>13 DEF v, m

(* What an edit mirrors onto the other direction. *)
LEMMA MirroredShape ==
  ASSUME NEW row \in LineRow, NEW s \in Seq(Stop)
  PROVE  /\ MirroredStops(row, s) \in Seq(Stop)
         /\ StationsOf(MirroredStops(row, s)) = Keep(Reverse(StationsOf(s)), Between(row))
<1> DEFINE v == ReversedStops(s)
           U == {x \in Stop : NotAnEndpoint(row, x.station)}
           W == {x \in Stop : x.station \in Between(row)}
<1>1. v \in Seq(Stop) /\ StationsOf(v) = Reverse(StationsOf(s))
  BY ReversedShape
<1>2. U = W
  BY DEF Between, Stop
<1>3. MirroredStops(row, s) = Keep(v, W)
  BY <1>2 DEF MirroredStops
<1> HIDE DEF v, U
<1>4. Keep(v, W) \in Seq(Stop)
  BY <1>1, KeepSet
<1>5. StationsOf(Keep(v, W)) = Keep(StationsOf(v), Between(row))
  BY <1>1, StationsKept
<1> QED BY <1>1, <1>3, <1>4, <1>5

(* What the repair writes: the agreed order less the line's termini, each stop
   the line's own where it has it. *)
LEMMA DirectionShape ==
  ASSUME NEW row \in LineRow, NEW other \in LineRow, NEW ordered \in Seq(Station)
  PROVE  \E G : /\ Maps(G, Station, Stop)
                /\ \A s \in Station : G[s].station = s
                /\ \A x \in ToSet(row.stops) : G[x.station] \in ToSet(row.stops)
                /\ StopsForDirection(row, ordered, other) = Through(G, Keep(ordered, Between(row)))
<1> DEFINE Own(s) == {x \in ToSet(row.stops) : x.station = s}
           Other(s) == {x \in ToSet(ReversedStops(other.stops)) : x.station = s}
           G == [s \in Station |->
                   IF Own(s) # {} THEN CHOOSE x \in Own(s) : TRUE
                   ELSE IF Other(s) # {} THEN CHOOSE x \in Other(s) : TRUE
                   ELSE [station |-> s, boarding |-> TRUE, dropoff |-> TRUE]]
<1>1. ToSet(row.stops) \subseteq Stop /\ ToSet(ReversedStops(other.stops)) \subseteq Stop
  <2>1. row.stops \in Seq(Stop) /\ other.stops \in Seq(Stop)
    BY DEF LineRow
  <2>2. ReversedStops(other.stops) \in Seq(Stop)
    BY <2>1, ReversedShape
  <2> QED BY <2>1, <2>2, ToSetType
<1>2. ASSUME NEW s \in Station
      PROVE  G[s] \in Stop /\ G[s].station = s /\ (Own(s) # {} => G[s] \in Own(s))
  <2>1. CASE Own(s) # {}
    <3>1. G[s] \in Own(s)
      BY <2>1
    <3> QED BY <1>1, <3>1
  <2>2. CASE Own(s) = {} /\ Other(s) # {}
    <3>1. G[s] \in Other(s)
      BY <2>2
    <3> QED BY <1>1, <2>2, <3>1
  <2>3. CASE Own(s) = {} /\ Other(s) = {}
    <3>1. G[s] = [station |-> s, boarding |-> TRUE, dropoff |-> TRUE]
      BY <2>3
    <3> QED BY <2>3, <3>1 DEF Stop
  <2> QED BY <2>1, <2>2, <2>3
<1>3. Maps(G, Station, Stop)
  BY <1>2 DEF Maps
<1>4. ASSUME NEW x \in ToSet(row.stops) PROVE G[x.station] \in ToSet(row.stops)
  <2>1. x \in Own(x.station) /\ x.station \in Station
    BY <1>1 DEF Stop
  <2> QED BY <1>2, <2>1
<1>5. StopsForDirection(row, ordered, other) = Through(G, Keep(ordered, Between(row)))
  <2> DEFINE k == Keep(ordered, Between(row))
  <2>1. k \in Seq(Station)
    BY KeepSet
  <2>2. \A i \in DOMAIN k : k[i] \in Station
    BY <2>1
  <2>3. StopsForDirection(row, ordered, other) =
        [i \in DOMAIN k |-> IF Own(k[i]) # {} THEN CHOOSE x \in Own(k[i]) : TRUE
                   ELSE IF Other(k[i]) # {} THEN CHOOSE x \in Other(k[i]) : TRUE
                   ELSE [station |-> k[i], boarding |-> TRUE, dropoff |-> TRUE]]
    BY DEF StopsForDirection, Map, Between
  <2> HIDE DEF k, Own, Other
  <2> QED BY <2>2, <2>3 DEF Through, k
<1> HIDE DEF G
<1> QED BY <1>2, <1>3, <1>4, <1>5

LEMMA DirectionStations ==
  ASSUME NEW row \in LineRow, NEW other \in LineRow, NEW ordered \in Seq(Station)
  PROVE  /\ StopsForDirection(row, ordered, other) \in Seq(Stop)
         /\ StationsOf(StopsForDirection(row, ordered, other)) = Keep(ordered, Between(row))
<1>1. PICK G : /\ Maps(G, Station, Stop)
               /\ \A s \in Station : G[s].station = s
               /\ StopsForDirection(row, ordered, other) = Through(G, Keep(ordered, Between(row)))
  BY DirectionShape
<1> DEFINE k == Keep(ordered, Between(row))
           v == Through(G, k)
<1>2. k \in Seq(Station) /\ Len(k) \in Nat
  BY KeepSet
<1> HIDE DEF k
<1>3. v \in Seq(Stop) /\ Len(v) = Len(k) /\ \A i \in 1 .. Len(k) : v[i] = G[k[i]]
  BY <1>1, <1>2, ThroughShape
<1> HIDE DEF v
<1>4. /\ StationsOf(v) \in Seq(Station) /\ Len(StationsOf(v)) = Len(v)
      /\ \A i \in 1 .. Len(v) : StationsOf(v)[i] = v[i].station
  BY <1>3, StopStations
<1>5. ASSUME NEW i \in 1 .. Len(k) PROVE StationsOf(v)[i] = k[i]
  <2>1. k[i] \in Station
    BY <1>2
  <2> QED BY <1>1, <1>3, <1>4, <2>1
<1>6. StationsOf(v) = k
  BY <1>2, <1>3, <1>4, <1>5, SeqEqual
<1> QED BY <1>1, <1>3, <1>6 DEF v, k

(* The order both directions are to have holds what either has, in its order. *)
LEMMA MergedShape ==
  ASSUME NEW rows, NEW p, NEW a \in LineRow, NEW b \in LineRow,
         rows[p[1]] = a, rows[p[2]] = b, ValidRoute(a), ValidRoute(b),
         NEW merged \in MergedStops(rows, p)
  PROVE  /\ merged \in Seq(Station) /\ IsInjective(merged)
         /\ Keep(merged, ToSet(StationsOf(a.stops))) = StationsOf(a.stops)
         /\ Keep(Reverse(merged), ToSet(StationsOf(b.stops))) = StationsOf(b.stops)
<1> DEFINE f == StationsOf(a.stops)
           g == StationsOf(b.stops)
           o == Reverse(g)
<1>1. a.stops \in Seq(Stop) /\ b.stops \in Seq(Stop)
  BY DEF LineRow
<1>2. f \in Seq(Station) /\ g \in Seq(Station)
  BY <1>1, StopStations
<1>3. IsInjective(f) /\ IsInjective(g)
  BY ValidStops
<1>4. MergedStops(rows, p) =
        CASE IsSubsequence(o, f) -> {f}
          [] ~IsSubsequence(o, f) /\ IsSubsequence(f, o) -> {o}
          [] OTHER -> {}
  BY DEF MergedStops
<1> HIDE DEF f, g
<1>5. o \in Seq(Station) /\ IsInjective(o) /\ ToSet(o) = ToSet(g) /\ Reverse(o) = g
  BY <1>2, <1>3, ReverseShape
<1>6. Keep(f, ToSet(f)) = f /\ Keep(o, ToSet(o)) = o
  BY <1>2, <1>5, KeepAll
<1> HIDE DEF o
<1>7. \/ merged = f /\ Keep(f, ToSet(o)) = o
      \/ merged = o /\ Keep(o, ToSet(f)) = f
  BY <1>4 DEF IsSubsequence
<1>8. merged \in Seq(Station) /\ IsInjective(merged)
      /\ Keep(merged, ToSet(f)) = f /\ Keep(merged, ToSet(o)) = o
  BY <1>2, <1>3, <1>5, <1>6, <1>7
<1>9. Keep(Reverse(merged), ToSet(g)) = Reverse(Keep(merged, ToSet(g)))
  BY <1>8, KeepReverse
<1> QED BY <1>5, <1>8, <1>9 DEF f, g

-----------------------------------------------------------------------------
(* Times *)

(* The time a schedule has for a station. *)
LEMMA TimeAtType ==
  ASSUME NEW times \in Seq(TimeStop), NEW s
  PROVE  TimeAt(times, s) \in Time \cup {None}
<1>1. CASE \E i \in DOMAIN times : times[i].station = s
  <2> DEFINE t == CHOOSE x \in ToSet(times) : x.station = s
  <2>1. t \in ToSet(times)
    BY <1>1 DEF ToSet
  <2>2. t \in TimeStop
    BY <2>1, ToSetType
  <2>3. TimeAt(times, s) = t.time
    BY <1>1 DEF TimeAt
  <2> HIDE DEF t
  <2> QED BY <2>2, <2>3 DEF TimeStop
<1>2. CASE ~\E i \in DOMAIN times : times[i].station = s
  BY <1>2 DEF TimeAt
<1> QED BY <1>1, <1>2

(* Any number of minutes is some time of the day. *)
LEMMA TimeStringType ==
  ASSUME NEW m \in Int
  PROVE  ToTimeString(m) \in Time
BY ClockAssumption DEF ToTimeString, Time

Share(S, a, b) == Rounded(S * a, b)

(* A share of a gap, rounded, stays within the gap. *)
LEMMA RoundedWithin ==
  ASSUME NEW S \in Nat, NEW a \in Nat, NEW b \in Nat \ {0}, a <= b
  PROVE  Share(S, a, b) \in 0 .. S
<1> DEFINE x == 2 * (S * a) + b
           d == 2 * b
           q == x \div d
<1>1. S * a \in Nat /\ S * b \in Nat /\ S * a <= S * b
  OBVIOUS
<1>2. d * (S + 1) = 2 * (S * b) + 2 * b
  OBVIOUS
<1>3. x \in Nat /\ d \in Nat /\ d > 0 /\ x < d * (S + 1)
  BY <1>1, <1>2
<1> HIDE DEF x, d
<1>4. q \in Int /\ d * q <= x /\ x < d * (q + 1)
  BY <1>3
<1> HIDE DEF q
<1>5. 0 <= q
  <2> SUFFICES ASSUME q + 1 <= 0 PROVE FALSE
    BY <1>4
  <2>1. d * (q + 1) <= 0
    BY <1>3, <1>4
  <2> QED BY <1>3, <1>4, <2>1
<1>6. q <= S
  <2> SUFFICES ASSUME S + 1 <= q PROVE FALSE
    BY <1>4
  <2>1. d * (S + 1) <= d * q
    BY <1>3, <1>4
  <2>2. d * (S + 1) \in Int /\ d * q \in Int
    BY <1>3, <1>4
  <2> QED BY <1>3, <1>4, <2>1, <2>2
<1> QED BY <1>4, <1>5, <1>6 DEF Share, Rounded, q, x, d

(* The gap between two times is less than a day. *)
LEMMA SpanShape ==
  ASSUME NEW t \in Time, NEW u \in Time
  PROVE  Span(t, u) \in 0 .. MinutesPerDay - 1 /\ After(t, u) = Span(t, u)
<1>1. MinutesPerDay \in Nat /\ MinutesPerDay > 0 /\ t \in 0 .. MinutesPerDay - 1 /\ u \in 0 .. MinutesPerDay - 1
  BY ClockAssumption DEF Time
<1>2. CASE u >= t
  <2>1. Span(t, u) = u - t /\ u - t \in 0 .. MinutesPerDay - 1
    BY <1>1, <1>2 DEF Span
  <2>2. (u - t) % MinutesPerDay = u - t
    BY <1>1, <2>1
  <2> QED BY <2>1, <2>2 DEF After
<1>3. CASE ~(u >= t)
  <2>1. Span(t, u) = u + MinutesPerDay - t /\ u + MinutesPerDay - t \in 0 .. MinutesPerDay - 1
    BY <1>1, <1>3 DEF Span
  <2>2. (u - t) % MinutesPerDay = u + MinutesPerDay - t
    BY <1>1, <2>1
  <2> QED BY <2>1, <2>2 DEF After
<1> QED BY <1>2, <1>3

(* Going on by less than a day takes just that long. *)
LEMMA AfterAdding ==
  ASSUME NEW t \in Time, NEW m \in 0 .. MinutesPerDay - 1
  PROVE  After(t, ToTimeString(t + m)) = m
<1>1. MinutesPerDay \in Nat /\ MinutesPerDay > 0 /\ t \in 0 .. MinutesPerDay - 1
  BY ClockAssumption DEF Time
<1>2. CASE t + m < MinutesPerDay
  <2>1. (t + m) % MinutesPerDay = t + m
    BY <1>1, <1>2
  <2> DEFINE u == ToTimeString(t + m)
  <2>2. u = t + m
    BY <2>1 DEF ToTimeString
  <2> HIDE DEF u
  <2>3. u - t = m
    BY <1>1, <2>2
  <2>4. m % MinutesPerDay = m
    BY <1>1
  <2> QED BY <2>3, <2>4 DEF After, u
<1>3. CASE ~(t + m < MinutesPerDay)
  <2>1. (t + m) % MinutesPerDay = t + m - MinutesPerDay
    BY <1>1, <1>3
  <2> DEFINE u == ToTimeString(t + m)
  <2>2. u = t + m - MinutesPerDay
    BY <2>1 DEF ToTimeString
  <2> HIDE DEF u
  <2>3. u - t = m - MinutesPerDay
    BY <1>1, <2>2
  <2>4. (m - MinutesPerDay) % MinutesPerDay = m
    BY <1>1
  <2> QED BY <2>3, <2>4 DEF After, u
<1> QED BY <1>2, <1>3

(* The last and the first of some positions. *)
LEMMA NatMax ==
  ASSUME NEW n \in Nat, NEW T \in SUBSET (1 .. n), T # {}
  PROVE  \E x \in T : \A y \in T : y <= x
<1> DEFINE U == {n - y : y \in T}
<1>1. U \in SUBSET Nat /\ U # {}
  <2>1. \A y \in T : y \in 1 .. n
    OBVIOUS
  <2>2. \A y \in T : n - y \in Nat
    BY <2>1
  <2> QED BY <2>2
<1>2. PICK u \in U : \A v \in U : u <= v
  BY <1>1, NatMin
<1>3. PICK x \in T : u = n - x
  BY <1>2
<1>4. ASSUME NEW y \in T PROVE y <= x
  <2>1. n - y \in U
    OBVIOUS
  <2>2. n - x <= n - y
    BY <1>2, <1>3, <2>1
  <2>3. x \in Int /\ y \in Int
    OBVIOUS
  <2> QED BY <2>2, <2>3
<1> QED BY <1>4

(* The time estimated for a station: anchored by any time known before or after
   it, and between the nearest two by their gap. *)
LEMMA EstimatedShape ==
  ASSUME NEW known \in Seq(Time \cup {None}), NEW i \in 1 .. Len(known), known[i] = None
  PROVE  /\ EstimatedTime(known, i) \in Time \cup {None}
         /\ (\E j \in 1 .. Len(known) : known[j] # None) => EstimatedTime(known, i) \in Time
         /\ \A p \in 1 .. i - 1, n \in i + 1 .. Len(known) :
               known[p] # None /\ known[n] # None
               /\ (\A j \in p + 1 .. n - 1 : known[j] = None)
               => EstimatedTime(known, i)
                  = ToTimeString(known[p] + Rounded(Span(known[p], known[n]) * (i - p), n - p))
<1> DEFINE before == {j \in 1 .. i - 1 : known[j] # None}
           after == {j \in i + 1 .. Len(known) : known[j] # None}
           p == CHOOSE j \in before : \A k \in before : k <= j
           n == CHOOSE j \in after : \A k \in after : j <= k
           between == ToTimeString(known[p] + Rounded(Span(known[p], known[n]) * (i - p), n - p))
           E == EstimatedTime(known, i)
<1>1. Len(known) \in Nat /\ i \in Nat /\ 1 <= i /\ i <= Len(known)
  OBVIOUS
<1>2. E = CASE before # {} /\ after # {} -> between
            [] before # {} /\ after = {} -> ToTimeString(known[p] + StopInterval * (i - p))
            [] before = {} /\ after # {} -> ToTimeString(known[n] - StopInterval * (n - i))
            [] OTHER -> None
  BY DEF EstimatedTime
<1>3. ASSUME before # {}
      PROVE  p \in before /\ \A k \in before : k <= p
  <2>1. before \in SUBSET (1 .. Len(known))
    BY <1>1
  <2>2. \E x \in before : \A y \in before : y <= x
    <3> HIDE DEF before
    <3> QED BY <1>1, <1>3, <2>1, NatMax
  <2> QED BY <2>2
<1>4. ASSUME after # {}
      PROVE  n \in after /\ \A k \in after : n <= k
  <2>1. after \in SUBSET Nat
    BY <1>1
  <2>2. \E x \in after : \A y \in after : x <= y
    <3> HIDE DEF after
    <3> QED BY <1>4, <2>1, NatMin
  <2> QED BY <2>2
<1> HIDE DEF E, p, n
<1>5. ASSUME NEW j \in 1 .. Len(known), known[j] # None PROVE known[j] \in Time /\ known[j] \in Int
  BY <1>5 DEF Time
<1>6. CASE before # {} /\ after # {}
  <2>1. /\ p \in 1 .. i - 1 /\ n \in i + 1 .. Len(known) /\ known[p] # None /\ known[n] # None
        /\ known[p] \in Time /\ known[n] \in Time /\ known[p] \in Int
        /\ E = between
    <3>1. p \in before /\ n \in after
      BY <1>3, <1>4, <1>6
    <3>2. p \in 1 .. i - 1 /\ n \in i + 1 .. Len(known) /\ known[p] # None /\ known[n] # None
      BY <3>1
    <3>3. p \in 1 .. Len(known) /\ n \in 1 .. Len(known)
      BY <1>1, <3>2
    <3>4. E = between
      BY <1>2, <1>6
    <3> QED BY <1>5, <3>2, <3>3, <3>4
  <2>2. Span(known[p], known[n]) \in Nat /\ i - p \in Nat /\ n - p \in Nat \ {0} /\ i - p <= n - p
    BY <1>1, <2>1, SpanShape, ClockAssumption
  <2> DEFINE S == Span(known[p], known[n])
             a == i - p
             b == n - p
  <2>3. Rounded(S * a, b) \in Int
    <3> HIDE DEF S, a, b
    <3>1. Share(S, a, b) \in 0 .. S
      BY <2>2, RoundedWithin DEF S, a, b
    <3> QED BY <3>1 DEF Share
  <2>4. E \in Time
    <3> DEFINE m == Rounded(S * a, b)
    <3>1. E = ToTimeString(known[p] + m)
      BY <2>1
    <3>2. known[p] + m \in Int
      <4> HIDE DEF m
      <4>1. m \in Int
        BY <2>3 DEF m
      <4> QED BY <2>1, <4>1
    <3> HIDE DEF m
    <3> QED BY <3>1, <3>2, TimeStringType
  <2>5. ASSUME NEW q \in 1 .. i - 1, NEW m \in i + 1 .. Len(known), known[q] # None, known[m] # None,
               \A j \in q + 1 .. m - 1 : known[j] = None
        PROVE  q = p /\ m = n
    <3>1. q <= p /\ n <= m
      BY <1>3, <1>4, <1>6, <2>5
    <3>2. ~(p \in q + 1 .. m - 1) /\ ~(n \in q + 1 .. m - 1)
      BY <2>1, <2>5
    <3> QED BY <1>1, <2>1, <3>1, <3>2
  <2>6. ASSUME NEW q \in 1 .. i - 1, NEW m \in i + 1 .. Len(known), known[q] # None, known[m] # None,
               \A j \in q + 1 .. m - 1 : known[j] = None
        PROVE  E = ToTimeString(known[q] + Rounded(Span(known[q], known[m]) * (i - q), m - q))
    BY <2>1, <2>5, <2>6
  <2> QED BY <2>4, <2>6 DEF E
<1>7. CASE before # {} /\ after = {}
  <2>1. p \in 1 .. i - 1 /\ known[p] \in Int /\ E = ToTimeString(known[p] + StopInterval * (i - p))
    BY <1>1, <1>2, <1>3, <1>5, <1>7
  <2>2. known[p] + StopInterval * (i - p) \in Int
    BY <1>1, <2>1, ClockAssumption
  <2>3. E \in Time
    BY <2>1, <2>2, TimeStringType
  <2>4. ASSUME NEW m \in i + 1 .. Len(known), known[m] # None PROVE FALSE
    BY <1>7, <2>4
  <2> QED BY <2>3, <2>4 DEF E
<1>8. CASE before = {} /\ after # {}
  <2>1. n \in i + 1 .. Len(known) /\ known[n] \in Int /\ E = ToTimeString(known[n] - StopInterval * (n - i))
    BY <1>1, <1>2, <1>4, <1>5, <1>8
  <2>2. known[n] - StopInterval * (n - i) \in Int
    BY <1>1, <2>1, ClockAssumption
  <2>3. E \in Time
    BY <2>1, <2>2, TimeStringType
  <2>4. ASSUME NEW m \in 1 .. i - 1, known[m] # None PROVE FALSE
    BY <1>8, <2>4
  <2> QED BY <2>3, <2>4 DEF E
<1>9. CASE before = {} /\ after = {}
  <2>1. E = None
    BY <1>2, <1>9
  <2>2. ASSUME NEW j \in 1 .. Len(known), known[j] # None PROVE FALSE
    <3>1. j # i
      BY <2>2
    <3>2. j \in 1 .. i - 1 \/ j \in i + 1 .. Len(known)
      BY <1>1, <3>1
    <3> QED BY <1>9, <2>2, <3>2
  <2> QED BY <1>1, <2>1, <2>2 DEF E
<1> QED BY <1>6, <1>7, <1>8, <1>9

Known(route, times) == [i \in DOMAIN route |-> TimeAt(times, route[i])]

(* A realigned schedule calls where the route does; what was known is kept and
   the rest is estimated from it. *)
LEMMA AlignedShape ==
  ASSUME NEW route \in Seq(Station), NEW times \in Seq(TimeStop)
  PROVE  LET k == Known(route, times)
             new == AlignedStationTimes(route, times)
         IN /\ k \in Seq(Time \cup {None}) /\ Len(k) = Len(route) /\ Len(route) \in Nat
            /\ \A i \in 1 .. Len(route) : k[i] = TimeAt(times, route[i])
            /\ new \in Seq(TimeStop) /\ Len(new) = Len(route) /\ StationsOf(new) = route
            /\ \A i \in 1 .. Len(route) :
                  /\ new[i].station = route[i]
                  /\ new[i].time = IF k[i] # None THEN k[i] ELSE EstimatedTime(k, i)
<1> DEFINE k == Known(route, times)
           new == AlignedStationTimes(route, times)
           T(i) == IF k[i] # None THEN k[i] ELSE EstimatedTime(k, i)
<1>1. Len(route) \in Nat /\ DOMAIN route = 1 .. Len(route) /\ \A i \in 1 .. Len(route) : route[i] \in Station
  OBVIOUS
<1>2. k = [i \in 1 .. Len(route) |-> TimeAt(times, route[i])]
  BY <1>1 DEF Known
<1>3. k \in [1 .. Len(route) -> Time \cup {None}]
  BY <1>2, TimeAtType
<1>4. new = [i \in 1 .. Len(route) |-> [station |-> route[i], time |-> T(i)]]
  BY <1>1 DEF AlignedStationTimes, Known, Map
<1> HIDE DEF k, new
<1>5. k \in Seq(Time \cup {None}) /\ Len(k) = Len(route)
  BY <1>1, <1>3
<1>6. ASSUME NEW i \in 1 .. Len(route) PROVE T(i) \in Time \cup {None}
  <2>1. CASE k[i] # None
    BY <1>3, <2>1
  <2>2. CASE k[i] = None
    BY <1>5, <2>2, EstimatedShape
  <2> QED BY <2>1, <2>2
<1> HIDE DEF T
<1>7. \A i \in 1 .. Len(route) : new[i].station = route[i] /\ new[i].time = T(i) /\ new[i] \in TimeStop
  BY <1>1, <1>4, <1>6 DEF TimeStop
<1>8. new \in [1 .. Len(route) -> TimeStop]
  BY <1>4, <1>7
<1>9. new \in Seq(TimeStop) /\ Len(new) = Len(route)
  BY <1>1, <1>8
<1>10. /\ StationsOf(new) \in Seq(Station) /\ Len(StationsOf(new)) = Len(route)
       /\ \A i \in 1 .. Len(route) : StationsOf(new)[i] = new[i].station
  BY <1>9, TimeStations
<1>11. \A i \in 1 .. Len(route) : StationsOf(new)[i] = route[i]
  BY <1>7, <1>10
<1>12. StationsOf(new) = route
  BY <1>10, <1>11, SeqEqual
<1> QED BY <1>1, <1>2, <1>5, <1>7, <1>9, <1>12 DEF k, new, T

-----------------------------------------------------------------------------
(* Rows a step writes *)

(* A patched row is a row, with the fields the patch names. *)
LEMMA PatchedShape ==
  ASSUME NEW row \in LineRow, NEW p \in LinePatch
  PROVE  /\ Patched(row, p) \in LineRow
         /\ Patched(row, p).departure = Given(p.departure, row.departure)
         /\ Patched(row, p).arrival = Given(p.arrival, row.arrival)
         /\ Patched(row, p).stops = Given(p.stops, row.stops)
<1>1. DOMAIN row = {"departure", "arrival", "mode", "direction", "pairKey", "active", "stops"}
  BY DEF LineRow
<1>2. /\ Given(p.departure, row.departure) \in Station /\ Given(p.arrival, row.arrival) \in Station
      /\ Given(p.mode, row.mode) \in {"BOTH", "SINGLE"}
      /\ Given(p.direction, row.direction) \in {"OUTBOUND", "RETURN"}
      /\ Given(p.pairKey, row.pairKey) \in LineId \cup {None}
      /\ Given(p.active, row.active) \in BOOLEAN
      /\ Given(p.stops, row.stops) \in Seq(Stop)
  BY DEF LineRow, LinePatch, Given
<1>3. Patched(row, p) =
        [departure |-> Given(p.departure, row.departure), arrival |-> Given(p.arrival, row.arrival),
         mode |-> Given(p.mode, row.mode), direction |-> Given(p.direction, row.direction),
         pairKey |-> Given(p.pairKey, row.pairKey), active |-> Given(p.active, row.active),
         stops |-> Given(p.stops, row.stops)]
  BY <1>1 DEF Patched
<1> QED BY <1>2, <1>3 DEF LineRow

(* New stops between its termini, none twice, keep a line's route valid. *)
LEMMA WithStops ==
  ASSUME NEW row \in LineRow, NEW s \in Seq(Stop), row.departure # row.arrival,
         IsInjective(StationsOf(s)), ToSet(StationsOf(s)) \subseteq Between(row)
  PROVE  LET new == [row EXCEPT !.stops = s]
         IN /\ new \in LineRow /\ ValidRoute(new)
            /\ new.departure = row.departure /\ new.arrival = row.arrival /\ new.stops = s
            /\ new.mode = row.mode /\ new.direction = row.direction /\ new.pairKey = row.pairKey
<1> DEFINE new == [row EXCEPT !.stops = s]
<1>1. /\ new \in LineRow /\ new.departure = row.departure /\ new.arrival = row.arrival
      /\ new.stops = s /\ new.mode = row.mode /\ new.direction = row.direction
      /\ new.pairKey = row.pairKey
  BY DEF LineRow
<1>2. \A x \in ToSet(StationsOf(s)) : NotAnEndpoint(new, x)
  BY <1>1 DEF Between, NotAnEndpoint
<1> HIDE DEF new
<1>3. ValidRoute(new)
  BY <1>1, <1>2, ValidStops
<1> QED BY <1>1, <1>3 DEF new

(* What mirroring writes is a valid row. *)
LEMMA MirroredRow ==
  ASSUME NEW row \in LineRow, NEW s \in Seq(Stop), ValidRoute(row), IsInjective(StationsOf(s))
  PROVE  LET new == [row EXCEPT !.stops = MirroredStops(row, s)]
         IN /\ new \in LineRow /\ ValidRoute(new)
            /\ new.departure = row.departure /\ new.arrival = row.arrival
            /\ new.stops = MirroredStops(row, s)
            /\ new.mode = row.mode /\ new.direction = row.direction /\ new.pairKey = row.pairKey
<1> DEFINE g == StationsOf(s)
           k == Keep(Reverse(g), Between(row))
<1>1. g \in Seq(Station) /\ MirroredStops(row, s) \in Seq(Stop) /\ StationsOf(MirroredStops(row, s)) = k
  BY StopStations, MirroredShape
<1>2. Reverse(g) \in Seq(Station) /\ IsInjective(Reverse(g))
  <2> HIDE DEF g
  <2> QED BY <1>1, ReverseShape DEF g
<1>3. IsInjective(k) /\ ToSet(k) \subseteq Between(row)
  <2> DEFINE h == Reverse(g)
  <2>1. h \in Seq(Station) /\ IsInjective(h)
    BY <1>2
  <2> HIDE DEF h
  <2>2. IsInjective(Keep(h, Between(row))) /\ ToSet(Keep(h, Between(row))) = ToSet(h) \cap Between(row)
    BY <2>1, KeepSet, KeepInjective
  <2> QED BY <2>2 DEF h
<1>4. row.departure # row.arrival
  BY DEF ValidRoute
<1> HIDE DEF k
<1> QED BY <1>1, <1>3, <1>4, WithStops

(* What the repair writes is a valid row. *)
LEMMA DirectionRow ==
  ASSUME NEW row \in LineRow, NEW other \in LineRow, NEW ordered \in Seq(Station),
         ValidRoute(row), IsInjective(ordered)
  PROVE  LET new == [row EXCEPT !.stops = StopsForDirection(row, ordered, other)]
         IN /\ new \in LineRow /\ ValidRoute(new)
            /\ new.departure = row.departure /\ new.arrival = row.arrival
            /\ new.stops = StopsForDirection(row, ordered, other)
            /\ new.mode = row.mode /\ new.direction = row.direction /\ new.pairKey = row.pairKey
<1> DEFINE k == Keep(ordered, Between(row))
           s == StopsForDirection(row, ordered, other)
<1>1. s \in Seq(Stop) /\ StationsOf(s) = k
  BY DirectionStations
<1>2. IsInjective(k) /\ ToSet(k) \subseteq Between(row)
  BY KeepSet, KeepInjective
<1>3. row.departure # row.arrival
  BY DEF ValidRoute
<1> HIDE DEF k, s
<1>4. IsInjective(StationsOf(s)) /\ ToSet(StationsOf(s)) \subseteq Between(row)
  BY <1>1, <1>2
<1>5. [row EXCEPT !.stops = s] \in LineRow /\ ValidRoute([row EXCEPT !.stops = s])
  BY <1>1, <1>3, <1>4, WithStops
<1> QED BY <1>1, <1>3, <1>4, <1>5, WithStops DEF s

(* The way back of a valid row is valid. *)
LEMMA BackRow ==
  ASSUME NEW row \in LineRow, NEW back \in LineRow, ValidRoute(row),
         back.departure = row.arrival, back.arrival = row.departure,
         back.stops = ReversedStops(row.stops)
  PROVE  ValidRoute(back)
<1> DEFINE g == StationsOf(row.stops)
<1>1. row.stops \in Seq(Stop)
  BY DEF LineRow
<1>2. StationsOf(back.stops) = Reverse(g)
  BY <1>1, ReversedShape
<1>3. g \in Seq(Station)
  BY <1>1, StopStations
<1>4. IsInjective(g) /\ row.departure # row.arrival /\ \A s \in ToSet(g) : NotAnEndpoint(row, s)
  BY ValidStops
<1> HIDE DEF g
<1>5. IsInjective(Reverse(g)) /\ ToSet(Reverse(g)) = ToSet(g)
  BY <1>3, <1>4, ReverseShape
<1>6. \A s \in ToSet(g) : NotAnEndpoint(back, s)
  BY <1>4 DEF NotAnEndpoint
<1> QED BY <1>2, <1>4, <1>5, <1>6, ValidStops

(* A realigned ride is a ride of the same line, and its schedule follows. *)
FollowsRoute(new, old, route) ==
    \/ new = old
    \/ /\ ~IsScheduleAligned(old.times, route)
       /\ new.times = AlignedStationTimes(route, old.times)
       /\ StationsOf(new.times) = route

BroughtAlong(new, old, route, follows) ==
    /\ new \in RideRow \cup {None}
    /\ new = None <=> old = None
    /\ old # None =>
          /\ new.line = old.line /\ new.status = old.status
          /\ FollowsRoute(new, old, route)
          /\ follows => IsScheduleAligned(new.times, route)
          /\ ~follows => new = old

LEMMA RealignedShape ==
  ASSUME NEW rides \in [RideId -> RideRow \cup {None}], NEW rows, NEW ls, NEW r \in RideId,
         rides[r] # None => rows[rides[r].line] \in LineRow
  PROVE  BroughtAlong(Realigned(rides, rows, ls)[r], rides[r], Route(rows[rides[r].line]),
                      rides[r].line \in ls)
<1> DEFINE new == Realigned(rides, rows, ls)
           route == Route(rows[rides[r].line])
           ride1 == rides[r]
           cond == /\ ride1 # None /\ ride1.line \in ls
                   /\ ~IsScheduleAligned(ride1.times, route)
           times1 == AlignedStationTimes(route, ride1.times)
<1>1. new[r] = IF cond THEN [ride1 EXCEPT !.times = times1] ELSE ride1
  BY DEF Realigned
<1>2. ride1 \in RideRow \cup {None}
  OBVIOUS
<1>3. CASE ~cond
  <2>1. new[r] = ride1
    BY <1>1, <1>3
  <2>2. ride1 # None /\ ride1.line \in ls => IsScheduleAligned(ride1.times, route)
    BY <1>3
  <2> HIDE DEF new, ride1, cond, route, times1
  <2>3. /\ new[r] \in RideRow \cup {None}
        /\ new[r] = None <=> ride1 = None
        /\ ride1 # None =>
                  /\ new[r].line = ride1.line /\ new[r].status = ride1.status
                  /\ ride1.line \in ls => IsScheduleAligned(new[r].times, route)
    BY <1>2, <2>1, <2>2
  <2>4. BroughtAlong(new[r], ride1, route, ride1.line \in ls)
    BY <2>1, <2>3 DEF BroughtAlong, FollowsRoute
  <2> QED BY <2>4 DEF new, ride1, route
<1>4. CASE cond
  <2>1. ride1 \in RideRow /\ ride1.times \in Seq(TimeStop)
    BY <1>2, <1>4 DEF RideRow, TimeStop
  <2>2. route \in Seq(Station)
    BY <1>4, RouteShape
  <2>3. times1 \in Seq(TimeStop) /\ StationsOf(times1) = route
    <3> HIDE DEF route, ride1
    <3> QED BY <2>1, <2>2, AlignedShape
  <2>4. new[r] = [ride1 EXCEPT !.times = times1]
    BY <1>1, <1>4
  <2>5. ride1.line \in ls /\ ~IsScheduleAligned(ride1.times, route)
    BY <1>4
  <2> HIDE DEF new, ride1, cond, route, times1
  <2>6. new[r] \in RideRow /\ new[r].line = ride1.line /\ new[r].status = ride1.status /\ new[r].times = times1
    BY <2>1, <2>3, <2>4 DEF RideRow, TimeStop
  <2>7. IsScheduleAligned(new[r].times, route)
    BY <2>3, <2>6 DEF IsScheduleAligned
  <2>8. new[r] # None /\ ride1 # None
    BY <2>1, <2>6, RowsAssumption
  <2>9. BroughtAlong(new[r], ride1, route, ride1.line \in ls)
    BY <2>3, <2>5, <2>6, <2>7, <2>8 DEF BroughtAlong, FollowsRoute, times1
  <2> QED BY <2>9 DEF new, ride1, route
<1> QED BY <1>3, <1>4

-----------------------------------------------------------------------------
(* The inductive invariant *)

\* What a request for a reverse line has read is a row.
CallInput == \A c \in Caller : call[c].step # "idle" => call[c].input \in LineRow

\* A ride's line is stored.
RidesRun == \A r \in StoredIn(ride) : line[ride[r].line] # None

\* A schedule has a station once.
SchedulesOnce == \A r \in StoredIn(ride) : IsInjective(StationsOf(ride[r].times))

Inv == TypeOK /\ RouteVisitsOnce /\ CallInput /\ RidesRun /\ SchedulesOnce

(* The parts of the invariant about the stored rows. *)
GoodRows(rows) ==
    /\ rows \in [LineId -> LineRow \cup {None}]
    /\ \A l \in LineId : rows[l] # None => rows[l] \in LineRow /\ ValidRoute(rows[l])

GoodRides(rides, rows) ==
    /\ rides \in [RideId -> RideRow \cup {None}]
    /\ \A r \in RideId : rides[r] # None =>
          /\ rides[r] \in RideRow /\ rides[r].line \in LineId /\ rides[r].times \in Seq(TimeStop)
          /\ rows[rides[r].line] # None /\ IsInjective(StationsOf(rides[r].times))

LEMMA InvRows ==
  Inv <=> /\ GoodRows(line) /\ GoodRides(ride, line) /\ CallInput
          /\ call \in [Caller -> Call]
          /\ repair \in [pairs: SUBSET LineId, rides: SUBSET RideId]
          /\ edits \in 0 .. MaxEdits
<1>1. ASSUME line \in [LineId -> LineRow \cup {None}]
      PROVE  GoodRows(line) <=> RouteVisitsOnce
  BY <1>1 DEF GoodRows, RouteVisitsOnce, StoredIn
<1>2. ASSUME ride \in [RideId -> RideRow \cup {None}]
      PROVE  GoodRides(ride, line) <=> RidesRun /\ SchedulesOnce
  BY <1>2 DEF GoodRides, RidesRun, SchedulesOnce, StoredIn, RideRow, TimeStop
<1>3. (GoodRows(line) => line \in [LineId -> LineRow \cup {None}])
      /\ (GoodRides(ride, line) => ride \in [RideId -> RideRow \cup {None}])
  BY DEF GoodRows, GoodRides
<1> QED BY <1>1, <1>2, <1>3 DEF Inv, TypeOK

LEMMA InvRowsNext ==
  /\ GoodRows(line') /\ GoodRides(ride', line') /\ CallInput'
  /\ call' \in [Caller -> Call]
  /\ repair' \in [pairs: SUBSET LineId, rides: SUBSET RideId]
  /\ edits' \in 0 .. MaxEdits
  => Inv'
<1>1. ASSUME GoodRows(line')
      PROVE  RouteVisitsOnce' /\ line' \in [LineId -> LineRow \cup {None}]
  BY <1>1 DEF GoodRows, RouteVisitsOnce, StoredIn
<1>2. ASSUME GoodRides(ride', line')
      PROVE  RidesRun' /\ SchedulesOnce' /\ ride' \in [RideId -> RideRow \cup {None}]
  BY <1>2 DEF GoodRides, RidesRun, SchedulesOnce, StoredIn
<1> QED BY <1>1, <1>2 DEF Inv, TypeOK

(* No station repeats in an empty list. *)
LEMMA NoTimes == <<>> \in Seq(TimeStop) /\ IsInjective(StationsOf(<<>>))
BY DEF IsInjective, StationsOf, Map

(* What an operator enters is a schedule of the route. *)
LEMMA FilledShape ==
  ASSUME NEW route \in Seq(Station), NEW table \in Timetables
  PROVE  Filled(route, table) \in Seq(TimeStop)
<1>1. table \in [Station -> Time \cup {None}]
  BY RowsAssumption
<1>2. DOMAIN route = 1 .. Len(route) /\ Len(route) \in Nat
      /\ \A i \in 1 .. Len(route) : route[i] \in Station
  OBVIOUS
<1>3. Filled(route, table) = [i \in 1 .. Len(route) |-> [station |-> route[i], time |-> table[route[i]]]]
  BY <1>2 DEF Filled, Map
<1>4. Filled(route, table) \in [1 .. Len(route) -> TimeStop]
  BY <1>1, <1>2, <1>3 DEF TimeStop
<1> QED BY <1>2, <1>4

(* Rides brought along with routes stay good. *)
LEMMA RealignedGood ==
  ASSUME NEW rides, NEW rows, NEW rows2, NEW ls,
         GoodRides(rides, rows), GoodRows(rows2),
         \A l \in LineId : rows[l] # None => rows2[l] # None
  PROVE  GoodRides(Realigned(rides, rows2, ls), rows2)
<1> DEFINE new == Realigned(rides, rows2, ls)
<1>1. ASSUME NEW r \in RideId
      PROVE  /\ new[r] \in RideRow \cup {None}
             /\ new[r] # None =>
                  /\ new[r] \in RideRow /\ new[r].line \in LineId /\ new[r].times \in Seq(TimeStop)
                  /\ rows2[new[r].line] # None /\ IsInjective(StationsOf(new[r].times))
  <2>1. /\ rides \in [RideId -> RideRow \cup {None}]
        /\ rides[r] # None =>
            /\ rides[r] \in RideRow /\ rides[r].line \in LineId
            /\ rows2[rides[r].line] \in LineRow /\ ValidRoute(rows2[rides[r].line])
            /\ rows2[rides[r].line] # None
            /\ IsInjective(StationsOf(rides[r].times))
    BY DEF GoodRides, GoodRows
  <2> DEFINE route == Route(rows2[rides[r].line])
  <2>2. BroughtAlong(new[r], rides[r], route, rides[r].line \in ls)
    BY <2>1, RealignedShape
  <2>3. rides[r] # None => IsInjective(route)
    BY <2>1, RouteInjective
  <2> HIDE DEF new, route
  <2>4. new[r] # None => new[r] \in RideRow /\ new[r].times \in Seq(TimeStop)
    BY <2>2 DEF RideRow, TimeStop, BroughtAlong
  <2>5. ASSUME new[r] # None
        PROVE  new[r].line = rides[r].line /\ new[r].line \in LineId /\ rows2[new[r].line] # None
    BY <2>1, <2>2, <2>5 DEF BroughtAlong
  <2>6. ASSUME new[r] # None
        PROVE  IsInjective(StationsOf(new[r].times))
    <3>1. CASE new[r] = rides[r]
      BY <2>1, <2>2, <2>6, <3>1 DEF BroughtAlong
    <3>2. CASE StationsOf(new[r].times) = route
      BY <2>2, <2>3, <2>6, <3>2 DEF BroughtAlong
    <3> QED BY <2>2, <2>6, <3>1, <3>2 DEF BroughtAlong, FollowsRoute
  <2> QED BY <2>2, <2>4, <2>5, <2>6 DEF BroughtAlong
<1>2. new \in [RideId -> RideRow \cup {None}]
  <2>1. new = [r \in RideId |-> new[r]]
    BY DEF Realigned
  <2> HIDE DEF new
  <2> QED BY <1>1, <2>1
<1> HIDE DEF new
<1> QED BY <1>1, <1>2 DEF GoodRides, new

-----------------------------------------------------------------------------
(* What the actions do to the rows *)

\* The row an edit of line l writes, and the other lines it reaches.
NewRow(l, p) == Patched(line[l], p)
Mates(l, p) == IF p.stops # Unset THEN PairedLines([line EXCEPT ![l] = NewRow(l, p)], l) ELSE {}
Led(l, p) == IF RouteChanged(p) THEN {l} ELSE {}

MateRow(l, p, b) == [line[b] EXCEPT !.stops = MirroredStops(line[b], NewRow(l, p).stops)]

(* An edit writes its row, mirrors new stops onto the other lines of the pair
   and brings the rides of all of them along; every row stays valid. *)
LEMMA UpdateShape ==
  ASSUME Inv, NEW l \in LineId, NEW p \in LinePatch, UpdateLine(l, p)
  PROVE  /\ line[l] \in LineRow /\ NewRow(l, p) \in LineRow /\ ValidRoute(NewRow(l, p))
         /\ Mates(l, p) \subseteq LineId /\ l \notin Mates(l, p)
         /\ \A b \in Mates(l, p) :
               /\ line[b] \in LineRow /\ ValidRoute(line[b])
               /\ MateRow(l, p, b) \in LineRow /\ ValidRoute(MateRow(l, p, b))
         /\ line' = [b \in LineId |-> IF b \in Mates(l, p) THEN MateRow(l, p, b)
                                      ELSE IF b = l THEN NewRow(l, p) ELSE line[b]]
         /\ ride' = Realigned(ride, line', Led(l, p) \cup Mates(l, p))
         /\ GoodRows(line') /\ \A b \in LineId : line[b] # None <=> line'[b] # None
<1> DEFINE row == NewRow(l, p)
           rows == [line EXCEPT ![l] = row]
           mates == Mates(l, p)
<1>1. GoodRows(line)
  BY InvRows
<1>2. /\ line[l] # None /\ ValidRoute(row)
      /\ line' = [b \in LineId |->
                     IF p.stops # Unset /\ b \in PairedLines(rows, l)
                     THEN [rows[b] EXCEPT !.stops = MirroredStops(rows[b], row.stops)]
                     ELSE rows[b]]
      /\ ride' = Realigned(ride, line', FollowingLines(rows, l, p))
  BY DEF UpdateLine, NewRow
<1>3. line[l] \in LineRow /\ line \in [LineId -> LineRow \cup {None}]
  BY <1>1, <1>2 DEF GoodRows
<1>4. row \in LineRow
  BY <1>3, PatchedShape DEF NewRow
<1> HIDE DEF row
<1>5. /\ DOMAIN rows = LineId /\ rows[l] = row
      /\ \A b \in LineId : b # l => rows[b] = line[b]
  BY <1>3
<1> HIDE DEF rows
<1>6. /\ mates = IF p.stops # Unset THEN PairedLines(rows, l) ELSE {}
      /\ FollowingLines(rows, l, p) = Led(l, p) \cup mates
  BY DEF Mates, FollowingLines, Led, rows, row
<1> HIDE DEF mates
<1>7. /\ mates \subseteq LineId /\ l \notin mates /\ \A b \in mates : rows[b] # None
  BY <1>5, <1>6 DEF PairedLines, Group, StoredIn
<1>8. ASSUME NEW b \in mates
      PROVE  /\ line[b] \in LineRow /\ ValidRoute(line[b])
             /\ MateRow(l, p, b) \in LineRow /\ ValidRoute(MateRow(l, p, b))
  <2>1. b \in LineId /\ rows[b] = line[b]
    BY <1>5, <1>7
  <2>2. line[b] \in LineRow /\ ValidRoute(line[b])
    BY <1>1, <1>7, <2>1 DEF GoodRows
  <2>3. row.stops \in Seq(Stop) /\ IsInjective(StationsOf(row.stops))
    BY <1>2, <1>4, ValidStops DEF LineRow
  <2>4. LET new == [line[b] EXCEPT !.stops = MirroredStops(line[b], row.stops)]
        IN new \in LineRow /\ ValidRoute(new)
    BY <2>2, <2>3, MirroredRow
  <2> QED BY <2>2, <2>4 DEF MateRow, row
<1>9. line' = [b \in LineId |-> IF b \in mates THEN MateRow(l, p, b)
                                ELSE IF b = l THEN row ELSE line[b]]
  <2>1. ASSUME NEW b \in LineId
        PROVE  (IF p.stops # Unset /\ b \in PairedLines(rows, l)
                THEN [rows[b] EXCEPT !.stops = MirroredStops(rows[b], row.stops)]
                ELSE rows[b])
               = IF b \in mates THEN MateRow(l, p, b) ELSE IF b = l THEN row ELSE line[b]
    <3>1. CASE b \in mates
      <4>1. p.stops # Unset /\ b \in PairedLines(rows, l) /\ rows[b] = line[b]
        BY <1>5, <1>6, <1>7, <3>1
      <4>2. [rows[b] EXCEPT !.stops = MirroredStops(rows[b], row.stops)] = MateRow(l, p, b)
        BY <4>1 DEF MateRow, row
      <4> QED BY <3>1, <4>1, <4>2
    <3>2. CASE b \notin mates
      <4>1. ~(p.stops # Unset /\ b \in PairedLines(rows, l))
        BY <1>6, <3>2
      <4> QED BY <1>5, <3>2, <4>1
    <3> QED BY <3>1, <3>2
  <2> QED BY <1>2, <2>1
<1>10. ASSUME NEW b \in LineId
       PROVE  /\ line'[b] \in LineRow \cup {None}
              /\ line[b] # None <=> line'[b] # None
              /\ line'[b] # None => line'[b] \in LineRow /\ ValidRoute(line'[b])
  <2>1. line[b] # None => line[b] \in LineRow /\ ValidRoute(line[b])
    BY <1>1 DEF GoodRows
  <2>2. \A x \in LineRow : x # None
    BY RowsAssumption
  <2>3. CASE b \in mates
    <3>1. line'[b] = MateRow(l, p, b)
      BY <1>9, <2>3
    <3> QED BY <1>8, <2>2, <2>3, <3>1
  <2>4. CASE b \notin mates /\ b = l
    <3>1. line'[b] = row
      BY <1>9, <2>4
    <3> QED BY <1>2, <1>4, <2>2, <2>4, <3>1
  <2>5. CASE b \notin mates /\ b # l
    <3>1. line'[b] = line[b]
      BY <1>9, <2>5
    <3> QED BY <2>1, <3>1
  <2> QED BY <2>3, <2>4, <2>5
<1>11. GoodRows(line')
  <2>1. line' = [b \in LineId |-> line'[b]]
    BY <1>9
  <2>2. line' \in [LineId -> LineRow \cup {None}]
    BY <1>10, <2>1
  <2> QED BY <1>10, <2>2 DEF GoodRows
<1> QED BY <1>2, <1>3, <1>4, <1>6, <1>7, <1>8, <1>9, <1>10, <1>11 DEF mates, row

(* An insert fills free rows with the input and, for a pair, its way back. *)
LEMMA InsertShape ==
  ASSUME Inv, NEW input \in LineRow, NEW l \in LineId, NEW b \in LineId, InsertLine(input, l, b)
  PROVE  /\ GoodRows(line') /\ line' # line
         /\ \A x \in LineId : line[x] # None => line'[x] = line[x] /\ line'[x] # None
<1> DEFINE key == IF input.pairKey # None THEN input.pairKey ELSE l
           own == [input EXCEPT !.pairKey = key]
           back == [input EXCEPT !.departure = input.arrival, !.arrival = input.departure,
                                 !.direction = "RETURN", !.pairKey = key,
                                 !.stops = ReversedStops(input.stops)]
<1>1. GoodRows(line)
  BY InvRows
<1>2. /\ line[l] = None /\ ValidRoute(input)
      /\ \/ line[b] = None /\ l # b /\ line' = [line EXCEPT ![l] = own, ![b] = back]
         \/ line' = [line EXCEPT ![l] = input]
  BY DEF InsertLine
<1>3. key \in LineId \cup {None}
  BY DEF LineRow
<1> HIDE DEF key
<1>4. own \in LineRow /\ own.departure = input.departure /\ own.arrival = input.arrival
      /\ own.stops = input.stops
  BY <1>3 DEF LineRow
<1>5. ReversedStops(input.stops) \in Seq(Stop)
  BY ReversedShape DEF LineRow
<1>6. back \in LineRow /\ back.departure = input.arrival /\ back.arrival = input.departure
      /\ back.stops = ReversedStops(input.stops)
  BY <1>3, <1>5 DEF LineRow
<1> HIDE DEF own, back
<1>7. ValidRoute(back)
  BY <1>2, <1>6, BackRow
<1>8. ValidRoute(own)
  BY <1>2, <1>4 DEF ValidRoute, NotAnEndpoint
<1>9. line \in [LineId -> LineRow \cup {None}]
      /\ \A x \in LineId : line[x] # None => line[x] \in LineRow /\ ValidRoute(line[x])
  BY <1>1 DEF GoodRows
<1>10. input # None /\ own # None /\ back # None
  BY <1>4, <1>6, RowsAssumption
<1>11. CASE line[b] = None /\ l # b /\ line' = [line EXCEPT ![l] = own, ![b] = back]
  <2>1. /\ line' \in [LineId -> LineRow \cup {None}]
        /\ \A x \in LineId : line'[x] = IF x = b THEN back ELSE IF x = l THEN own ELSE line[x]
    BY <1>2, <1>4, <1>6, <1>9, <1>11
  <2> QED BY <1>2, <1>4, <1>6, <1>7, <1>8, <1>9, <1>10, <2>1 DEF GoodRows
<1>12. CASE line' = [line EXCEPT ![l] = input]
  <2>1. /\ line' \in [LineId -> LineRow \cup {None}]
        /\ \A x \in LineId : line'[x] = IF x = l THEN input ELSE line[x]
    BY <1>9, <1>12
  <2> QED BY <1>2, <1>9, <1>10, <2>1 DEF GoodRows
<1> QED BY <1>2, <1>11, <1>12

(* Rides stay good while no line of theirs goes away. *)
LEMMA RidesStay ==
  ASSUME Inv, \A x \in LineId : line[x] # None => line'[x] # None, ride' = ride
  PROVE  GoodRides(ride', line')
BY InvRows DEF GoodRides

(* Removing a line leaves its route and everyone's schedule. *)
LEMMA RemoveShape ==
  ASSUME Inv, NEW l \in LineId, NEW cascade \in BOOLEAN, RemoveLine(l, cascade)
  PROVE  /\ GoodRows(line') /\ GoodRides(ride', line')
         /\ \A x \in LineId : line[x] # None =>
               /\ line'[x] # None /\ line'[x].departure = line[x].departure
               /\ line'[x].arrival = line[x].arrival /\ line'[x].stops = line[x].stops
         /\ \A r \in RideId : ride[r] # None =>
               /\ ride'[r] # None /\ ride'[r].line = ride[r].line
               /\ ride'[r].times = ride[r].times
<1> DEFINE row == [line[l] EXCEPT !.active = FALSE]
<1>1. /\ line \in [LineId -> LineRow \cup {None}]
      /\ \A x \in LineId : line[x] # None => line[x] \in LineRow /\ ValidRoute(line[x])
  BY InvRows DEF GoodRows
<1>2. line[l] # None /\ line' = [line EXCEPT ![l].active = FALSE]
      /\ ride' = [r \in RideId |->
                   IF cascade /\ ride[r] # None /\ ride[r].line = l
                   THEN [ride[r] EXCEPT !.status = "INACTIVE"] ELSE ride[r]]
  BY DEF RemoveLine
<1>3. row \in LineRow /\ row.departure = line[l].departure /\ row.arrival = line[l].arrival
      /\ row.stops = line[l].stops
  BY <1>1, <1>2 DEF LineRow
<1>4. ValidRoute(row)
  BY <1>1, <1>2, <1>3 DEF ValidRoute, NotAnEndpoint
<1>5. line' = [line EXCEPT ![l] = row]
  BY <1>2
<1> HIDE DEF row
<1>6. row # None
  BY <1>3, RowsAssumption
<1>7. line' \in [LineId -> LineRow \cup {None}]
      /\ \A x \in LineId : line'[x] = IF x = l THEN row ELSE line[x]
  BY <1>1, <1>3, <1>5
<1>8. /\ GoodRows(line')
      /\ \A x \in LineId : line[x] # None =>
               /\ line'[x] # None /\ line'[x].departure = line[x].departure
               /\ line'[x].arrival = line[x].arrival /\ line'[x].stops = line[x].stops
  BY <1>1, <1>2, <1>3, <1>4, <1>6, <1>7 DEF GoodRows
<1>9. GoodRides(ride, line)
  BY InvRows
<1>10. ASSUME NEW r \in RideId
       PROVE  /\ ride'[r] \in RideRow \cup {None}
              /\ ride'[r] # None <=> ride[r] # None
              /\ ride[r] # None =>
                    /\ ride'[r] \in RideRow /\ ride'[r].line = ride[r].line
                    /\ ride'[r].times = ride[r].times
  <2>1. ride[r] # None => ride[r] \in RideRow /\ [ride[r] EXCEPT !.status = "INACTIVE"] \in RideRow
        /\ [ride[r] EXCEPT !.status = "INACTIVE"].line = ride[r].line
        /\ [ride[r] EXCEPT !.status = "INACTIVE"].times = ride[r].times
    BY <1>9 DEF GoodRides, RideRow
  <2>2. ride'[r] = ride[r] \/ (ride[r] # None /\ ride'[r] = [ride[r] EXCEPT !.status = "INACTIVE"])
    BY <1>2
  <2>3. \A x \in RideRow : x # None
    BY RowsAssumption
  <2> QED BY <2>1, <2>2, <2>3
<1>11. ride' \in [RideId -> RideRow \cup {None}]
  <2>1. ride' = [r \in RideId |-> ride'[r]]
    BY <1>2
  <2> QED BY <1>10, <2>1
<1>12. GoodRides(ride', line')
  BY <1>8, <1>9, <1>10, <1>11 DEF GoodRides
<1> QED BY <1>8, <1>10, <1>12

\* The rows a repair of pair p writes.
FirstRow(p, merged) ==
    [line[p[1]] EXCEPT !.stops = StopsForDirection(line[p[1]], merged, line[p[2]])]
SecondRow(p, merged) ==
    [line[p[2]] EXCEPT !.stops = StopsForDirection(line[p[2]], Reverse(merged), line[p[1]])]

PairSynced(p, merged) ==
    /\ p[1] \in LineId /\ p[2] \in LineId /\ p[1] # p[2]
    /\ line[p[1]] \in LineRow /\ line[p[2]] \in LineRow
    /\ ValidRoute(line[p[1]]) /\ ValidRoute(line[p[2]])
    /\ line[p[1]].mode = "BOTH" /\ line[p[2]].mode = "BOTH"
    /\ line[p[1]].pairKey = line[p[2]].pairKey
    /\ merged \in MergedStops(line, p) /\ merged \in Seq(Station) /\ IsInjective(merged)
    /\ Group(line, line[p[1]].pairKey) = {p[1], p[2]}
    /\ line' = [line EXCEPT ![p[1]] = FirstRow(p, merged), ![p[2]] = SecondRow(p, merged)]
    /\ ride' = Realigned(ride, line', {p[1], p[2]})

(* A repair writes one pair, from the order its two lines merge to. *)
LEMMA SyncShape ==
  ASSUME Inv, NEW k \in LineId, SyncPair(k)
  PROVE  \/ UNCHANGED <<line, ride>>
         \/ \E p, merged : PairSynced(p, merged)
<1>1. CASE UNCHANGED <<line, ride>>
  BY <1>1
<1>2. CASE ~UNCHANGED <<line, ride>>
  <2>1. PICK p \in PairsOf(line, k) : \E merged \in MergedStops(line, p) :
          /\ line' = [line EXCEPT
                 ![p[1]].stops = StopsForDirection(line[p[1]], merged, line[p[2]]),
                 ![p[2]].stops = StopsForDirection(line[p[2]], Reverse(merged), line[p[1]])]
          /\ ride' = Realigned(ride, line', {p[1], p[2]})
    BY <1>2 DEF SyncPair
  <2> PICK merged \in MergedStops(line, p) :
          /\ line' = [line EXCEPT
                 ![p[1]].stops = StopsForDirection(line[p[1]], merged, line[p[2]]),
                 ![p[2]].stops = StopsForDirection(line[p[2]], Reverse(merged), line[p[1]])]
          /\ ride' = Realigned(ride, line', {p[1], p[2]})
    BY <2>1
  <2>2. /\ p[1] \in Group(line, k) /\ p[2] \in Group(line, k) /\ p[1] # p[2]
        /\ Group(line, k) = {p[1], p[2]}
    BY DEF PairsOf
  <2>3. /\ line \in [LineId -> LineRow \cup {None}]
        /\ \A x \in LineId : line[x] # None => line[x] \in LineRow /\ ValidRoute(line[x])
    BY InvRows DEF GoodRows
  <2>4. \A x \in Group(line, k) : x \in LineId /\ line[x] # None /\ line[x].mode = "BOTH" /\ line[x].pairKey = k
    BY <2>3 DEF Group, StoredIn
  <2>5. /\ p[1] \in LineId /\ p[2] \in LineId
        /\ line[p[1]] \in LineRow /\ line[p[2]] \in LineRow
        /\ ValidRoute(line[p[1]]) /\ ValidRoute(line[p[2]])
        /\ line[p[1]].mode = "BOTH" /\ line[p[2]].mode = "BOTH"
        /\ line[p[1]].pairKey = k /\ line[p[2]].pairKey = k
    BY <2>2, <2>3, <2>4
  <2>6. merged \in Seq(Station) /\ IsInjective(merged)
    BY <2>5, MergedShape
  <2>7. line' = [line EXCEPT ![p[1]] = FirstRow(p, merged), ![p[2]] = SecondRow(p, merged)]
    BY <2>2, <2>3, <2>5 DEF FirstRow, SecondRow
  <2> QED BY <2>2, <2>5, <2>6, <2>7 DEF PairSynced
<1> QED BY <1>1, <1>2

(* Both rows stay valid. *)
LEMMA SyncedRows ==
  ASSUME Inv, NEW p, NEW merged, PairSynced(p, merged)
  PROVE  /\ FirstRow(p, merged) \in LineRow /\ ValidRoute(FirstRow(p, merged))
         /\ FirstRow(p, merged).departure = line[p[1]].departure
         /\ FirstRow(p, merged).arrival = line[p[1]].arrival
         /\ FirstRow(p, merged).stops = StopsForDirection(line[p[1]], merged, line[p[2]])
         /\ FirstRow(p, merged).mode = "BOTH"
         /\ FirstRow(p, merged).pairKey = line[p[1]].pairKey
         /\ SecondRow(p, merged) \in LineRow /\ ValidRoute(SecondRow(p, merged))
         /\ SecondRow(p, merged).departure = line[p[2]].departure
         /\ SecondRow(p, merged).arrival = line[p[2]].arrival
         /\ SecondRow(p, merged).stops = StopsForDirection(line[p[2]], Reverse(merged), line[p[1]])
         /\ SecondRow(p, merged).mode = "BOTH"
         /\ SecondRow(p, merged).pairKey = line[p[2]].pairKey
         /\ Reverse(merged) \in Seq(Station) /\ IsInjective(Reverse(merged))
         /\ \A x \in LineId : line'[x] = IF x = p[1] THEN FirstRow(p, merged)
                                         ELSE IF x = p[2] THEN SecondRow(p, merged) ELSE line[x]
         /\ GoodRows(line') /\ \A x \in LineId : line[x] # None <=> line'[x] # None
<1> DEFINE a == line[p[1]]
           b == line[p[2]]
           r == Reverse(merged)
<1>1. /\ p[1] \in LineId /\ p[2] \in LineId /\ p[1] # p[2]
      /\ a \in LineRow /\ b \in LineRow /\ ValidRoute(a) /\ ValidRoute(b)
      /\ a.mode = "BOTH" /\ b.mode = "BOTH"
      /\ merged \in Seq(Station) /\ IsInjective(merged)
      /\ line' = [line EXCEPT ![p[1]] = FirstRow(p, merged), ![p[2]] = SecondRow(p, merged)]
  BY DEF PairSynced
<1>2. r \in Seq(Station) /\ IsInjective(r)
  BY <1>1, ReverseShape
<1>3. FirstRow(p, merged) = [a EXCEPT !.stops = StopsForDirection(a, merged, b)]
  BY DEF FirstRow
<1>4. SecondRow(p, merged) = [b EXCEPT !.stops = StopsForDirection(b, r, a)]
  BY DEF SecondRow
<1> HIDE DEF a, b, r
<1>5. LET new == [a EXCEPT !.stops = StopsForDirection(a, merged, b)]
      IN /\ new \in LineRow /\ ValidRoute(new)
         /\ new.departure = a.departure /\ new.arrival = a.arrival
         /\ new.stops = StopsForDirection(a, merged, b)
         /\ new.mode = a.mode /\ new.direction = a.direction /\ new.pairKey = a.pairKey
  BY ONLY <1>1, DirectionRow
<1>6. LET new == [b EXCEPT !.stops = StopsForDirection(b, r, a)]
      IN /\ new \in LineRow /\ ValidRoute(new)
         /\ new.departure = b.departure /\ new.arrival = b.arrival
         /\ new.stops = StopsForDirection(b, r, a)
         /\ new.mode = b.mode /\ new.direction = b.direction /\ new.pairKey = b.pairKey
  BY ONLY <1>1, <1>2, DirectionRow
<1> DEFINE f == FirstRow(p, merged)
           g == SecondRow(p, merged)
<1>7. /\ f \in LineRow /\ ValidRoute(f) /\ f.departure = a.departure /\ f.arrival = a.arrival
      /\ f.stops = StopsForDirection(a, merged, b) /\ f.mode = "BOTH" /\ f.pairKey = a.pairKey
  BY <1>1, <1>3, <1>5
<1>8. /\ g \in LineRow /\ ValidRoute(g) /\ g.departure = b.departure /\ g.arrival = b.arrival
      /\ g.stops = StopsForDirection(b, r, a) /\ g.mode = "BOTH" /\ g.pairKey = b.pairKey
  BY <1>1, <1>4, <1>6
<1>9. line' = [line EXCEPT ![p[1]] = f, ![p[2]] = g]
  BY <1>1
<1> HIDE DEF f, g
<1>10. /\ line \in [LineId -> LineRow \cup {None}]
       /\ \A x \in LineId : line[x] # None => line[x] \in LineRow /\ ValidRoute(line[x])
  BY InvRows DEF GoodRows
<1>11. /\ line' \in [LineId -> LineRow \cup {None}]
       /\ \A x \in LineId : line'[x] = IF x = p[1] THEN f ELSE IF x = p[2] THEN g ELSE line[x]
  BY <1>1, <1>7, <1>8, <1>9, <1>10
<1>12. \A x \in LineRow : x # None
  BY RowsAssumption
<1>13. GoodRows(line') /\ \A x \in LineId : line[x] # None <=> line'[x] # None
  BY <1>1, <1>7, <1>8, <1>10, <1>11, <1>12 DEF GoodRows, a, b
<1> QED BY <1>1, <1>2, <1>7, <1>8, <1>11, <1>13 DEF a, b, r, f, g

(* A validated schedule calls where the route does, at no station twice. *)
LEMMA NewTimes ==
  ASSUME NEW row \in LineRow, ValidRoute(row), NEW times, ValidDaySchedule(times, Route(row))
  PROVE  IsScheduleAligned(times, Route(row)) /\ IsInjective(StationsOf(times))
<1>1. times = <<>> \/ StationsOf(times) = Route(row)
  BY DEF ValidDaySchedule
<1> QED BY <1>1, NoTimes, RouteInjective DEF IsScheduleAligned

(* One ride row written or rewritten. *)
LEMMA RideWritten ==
  ASSUME Inv, NEW r \in RideId, NEW row \in RideRow, line[row.line] # None,
         ValidDaySchedule(row.times, Route(line[row.line])),
         ride' = [ride EXCEPT ![r] = row], line' = line
  PROVE  /\ GoodRides(ride', line')
         /\ \A q \in RideId : ride[q] # None =>
               /\ ride'[q] # None
               /\ \/ ride'[q].line = ride[q].line /\ ride'[q].times = ride[q].times
                  \/ IsScheduleAligned(ride'[q].times, Route(line'[ride'[q].line]))
<1>1. row.line \in LineId /\ row.times \in Seq(TimeStop)
  BY DEF RideRow, TimeStop
<1>2. line[row.line] \in LineRow /\ ValidRoute(line[row.line])
  BY <1>1, InvRows DEF GoodRows
<1>3. IsScheduleAligned(row.times, Route(line[row.line])) /\ IsInjective(StationsOf(row.times))
  BY <1>2, NewTimes
<1>4. GoodRides(ride, line)
  BY InvRows
<1>5. ride' \in [RideId -> RideRow \cup {None}]
      /\ \A q \in RideId : ride'[q] = IF q = r THEN row ELSE ride[q]
  BY <1>4 DEF GoodRides
<1>6. row # None
  BY RowsAssumption
<1>7. ASSUME NEW q \in RideId, ride'[q] # None
      PROVE  /\ ride'[q] \in RideRow /\ ride'[q].line \in LineId /\ ride'[q].times \in Seq(TimeStop)
             /\ line[ride'[q].line] # None /\ IsInjective(StationsOf(ride'[q].times))
  <2>1. CASE q = r
    BY <1>1, <1>3, <1>5, <2>1
  <2>2. CASE q # r
    BY <1>4, <1>5, <1>7, <2>2 DEF GoodRides
  <2> QED BY <2>1, <2>2
<1>8. GoodRides(ride', line')
  BY <1>5, <1>7 DEF GoodRides
<1>9. ASSUME NEW q \in RideId, ride[q] # None
      PROVE  /\ ride'[q] # None
             /\ \/ ride'[q].line = ride[q].line /\ ride'[q].times = ride[q].times
                \/ IsScheduleAligned(ride'[q].times, Route(line'[ride'[q].line]))
  <2>1. CASE q = r
    BY <1>3, <1>5, <1>6, <2>1
  <2>2. CASE q # r
    BY <1>5, <1>9, <2>2
  <2> QED BY <2>1, <2>2
<1> QED BY <1>8, <1>9

(* A ride's row is written by an operator or keeps its line and its times. *)
LEMMA RideShape ==
  ASSUME Inv, RideOperation
  PROVE  /\ UNCHANGED <<line, call, repair>> /\ Edited
         /\ GoodRides(ride', line')
         /\ \A q \in RideId : ride[q] # None =>
               /\ ride'[q] # None
               /\ \/ ride'[q].line = ride[q].line /\ ride'[q].times = ride[q].times
                  \/ IsScheduleAligned(ride'[q].times, Route(line'[ride'[q].line]))
<1>1. GoodRows(line) /\ GoodRides(ride, line)
  BY InvRows
<1>2. ASSUME NEW l \in LineId, line[l] # None, NEW times \in Entered(l)
      PROVE  times \in Seq(TimeStop)
  <2>1. Route(line[l]) \in Seq(Station)
    BY <1>1, <1>2, RouteShape DEF GoodRows
  <2> QED BY <1>2, <2>1, FilledShape DEF Entered
<1>3. ASSUME NEW r \in RideId, NEW l \in StoredIn(line), NEW status \in AskedStatus,
             NEW times \in Seq(TimeStop)
      PROVE  l \in LineId /\ line[l] # None
             /\ [line |-> l, status |-> status, times |-> times] \in RideRow
  BY <1>1, RowsAssumption DEF StoredIn, RideRow, TimeStop, GoodRows
<1>4. ASSUME NEW r \in RideId, NEW l \in StoredIn(line), NEW status \in AskedStatus,
             NEW times \in {<<>>} \cup Entered(l), CreateRide(r, l, times, status)
      PROVE  /\ UNCHANGED <<line, call, repair>> /\ Edited
             /\ \E row \in RideRow : /\ line[row.line] # None
                                     /\ ValidDaySchedule(row.times, Route(line[row.line]))
                                     /\ ride' = [ride EXCEPT ![r] = row]
  <2>1. l \in LineId /\ line[l] # None
    BY <1>3, NoTimes
  <2>2. times \in Seq(TimeStop)
    BY <1>2, <2>1, NoTimes
  <2> DEFINE row == [line |-> l, status |-> status, times |-> times]
  <2>3. row \in RideRow
    BY <1>3, <2>2
  <2> QED BY <1>4, <2>1, <2>3 DEF CreateRide
<1>5. ASSUME NEW r \in RideId, NEW l \in StoredIn(line), NEW status \in AskedStatus,
             NEW times \in {<<>>} \cup Entered(l) \cup IF ride[r] = None THEN {} ELSE {ride[r].times},
             UpdateRide(r, l, times, status)
      PROVE  /\ UNCHANGED <<line, call, repair>> /\ Edited
             /\ \E row \in RideRow : /\ line[row.line] # None
                                     /\ ValidDaySchedule(row.times, Route(line[row.line]))
                                     /\ ride' = [ride EXCEPT ![r] = row]
  <2>1. l \in LineId /\ line[l] # None
    BY <1>3, NoTimes
  <2>2. times \in Seq(TimeStop)
    BY <1>1, <1>2, <2>1, NoTimes DEF GoodRides
  <2> DEFINE row == [line |-> l, status |-> status, times |-> times]
  <2>3. row \in RideRow
    BY <1>3, <2>2
  <2> QED BY <1>5, <2>1, <2>3 DEF UpdateRide
<1>6. ASSUME NEW r \in RideId, ride[r] # None,
             NEW times \in {<<>>} \cup Entered(ride[r].line), ReplaceDayTimes(r, times)
      PROVE  /\ UNCHANGED <<line, call, repair>> /\ Edited
             /\ \E row \in RideRow : /\ line[row.line] # None
                                     /\ ValidDaySchedule(row.times, Route(line[row.line]))
                                     /\ ride' = [ride EXCEPT ![r] = row]
  <2>1. ride[r] \in RideRow /\ ride[r].line \in LineId /\ line[ride[r].line] # None
    BY <1>1, <1>6 DEF GoodRides
  <2>2. times \in Seq(TimeStop)
    BY <1>2, <2>1, NoTimes
  <2> DEFINE row == [ride[r] EXCEPT !.times = times]
  <2>3. row \in RideRow /\ row.line = ride[r].line /\ row.times = times
    BY <2>1, <2>2 DEF RideRow, TimeStop
  <2>4. /\ UNCHANGED <<line, call, repair>> /\ Edited
        /\ ValidDaySchedule(times, Route(line[ride[r].line]))
        /\ ride' = [ride EXCEPT ![r] = row]
    BY <1>6 DEF ReplaceDayTimes
  <2> HIDE DEF row
  <2> QED BY <2>1, <2>3, <2>4
<1>7. ASSUME NEW r \in RideId, RemoveRide(r)
      PROVE  /\ UNCHANGED <<line, call, repair>> /\ Edited
             /\ GoodRides(ride', line')
             /\ \A q \in RideId : ride[q] # None =>
                   /\ ride'[q] # None
                   /\ ride'[q].line = ride[q].line /\ ride'[q].times = ride[q].times
  <2> DEFINE row == [ride[r] EXCEPT !.status = "INACTIVE"]
  <2>1. /\ ride[r] # None /\ Edited /\ UNCHANGED <<line, call, repair>>
        /\ ride' = [ride EXCEPT ![r] = row]
    BY <1>7 DEF RemoveRide
  <2>2. row \in RideRow /\ row.line = ride[r].line /\ row.times = ride[r].times
    BY <1>1, <2>1 DEF GoodRides, RideRow
  <2> HIDE DEF row
  <2>3. ride' \in [RideId -> RideRow \cup {None}]
        /\ \A q \in RideId : ride'[q] = IF q = r THEN row ELSE ride[q]
    BY <1>1, <2>1, <2>2 DEF GoodRides
  <2>4. row # None
    BY <2>2, RowsAssumption
  <2>5. \A q \in RideId : ride[q] # None =>
                   /\ ride'[q] # None
                   /\ ride'[q].line = ride[q].line /\ ride'[q].times = ride[q].times
    BY <2>2, <2>3, <2>4
  <2>6. \A q \in RideId : ride'[q] # None => ride[q] # None /\ ride'[q] \in RideRow
    BY <2>1, <2>2, <2>3, <1>1 DEF GoodRides
  <2>7. GoodRides(ride', line')
    BY <1>1, <2>1, <2>3, <2>5, <2>6 DEF GoodRides
  <2> QED BY <2>1, <2>5, <2>7
<1>8. ASSUME NEW r \in RideId, UNCHANGED <<line, call, repair>>, Edited,
             \E row \in RideRow : /\ line[row.line] # None
                                  /\ ValidDaySchedule(row.times, Route(line[row.line]))
                                  /\ ride' = [ride EXCEPT ![r] = row]
      PROVE  /\ GoodRides(ride', line')
             /\ \A q \in RideId : ride[q] # None =>
                   /\ ride'[q] # None
                   /\ \/ ride'[q].line = ride[q].line /\ ride'[q].times = ride[q].times
                      \/ IsScheduleAligned(ride'[q].times, Route(line'[ride'[q].line]))
  BY <1>8, RideWritten
<1> QED BY <1>4, <1>5, <1>6, <1>7, <1>8 DEF RideOperation

(* The repair of one schedule. *)
LEMMA RealignOne ==
  ASSUME Inv, NEW r \in RideId, RealignSchedule(r)
  PROVE  /\ GoodRides(ride', line') /\ UNCHANGED <<line, call, edits>>
         /\ \A q \in RideId : q # r => ride'[q] = ride[q]
         /\ BroughtAlong(ride'[r], ride[r], Route(line[ride[r].line]), TRUE)
<1> DEFINE new == Realigned(ride, line, {ride[r].line})
<1>1. UNCHANGED <<line, call, edits>> /\ ride' = [ride EXCEPT ![r] = new[r]]
  BY DEF RealignSchedule
<1>2. GoodRows(line) /\ GoodRides(ride, line)
  BY InvRows
<1>3. GoodRides(new, line)
  BY <1>2, RealignedGood
<1>4. ride \in [RideId -> RideRow \cup {None}]
      /\ (ride[r] # None => line[ride[r].line] \in LineRow)
  BY <1>2 DEF GoodRides, GoodRows
<1>5. BroughtAlong(new[r], ride[r], Route(line[ride[r].line]), ride[r].line \in {ride[r].line})
  BY <1>4, RealignedShape
<1> HIDE DEF new
<1>6. ride' \in [RideId -> RideRow \cup {None}]
      /\ \A q \in RideId : ride'[q] = IF q = r THEN new[r] ELSE ride[q]
  BY <1>1, <1>3, <1>4 DEF GoodRides
<1>7. GoodRides(ride', line')
  <2>1. ASSUME NEW q \in RideId, ride'[q] # None
        PROVE  /\ ride'[q] \in RideRow /\ ride'[q].line \in LineId /\ ride'[q].times \in Seq(TimeStop)
               /\ line[ride'[q].line] # None /\ IsInjective(StationsOf(ride'[q].times))
    <3>1. CASE q = r
      <4>1. ride'[q] = new[r] /\ new[r] # None
        BY <1>6, <2>1, <3>1
      <4> QED BY <1>3, <4>1 DEF GoodRides
    <3>2. CASE q # r
      <4>1. ride'[q] = ride[q] /\ ride[q] # None
        BY <1>6, <2>1, <3>2
      <4> QED BY <1>2, <4>1 DEF GoodRides
    <3> QED BY <3>1, <3>2
  <2> QED BY <1>1, <1>6, <2>1 DEF GoodRides
<1>8. BroughtAlong(ride'[r], ride[r], Route(line[ride[r].line]), TRUE)
  <2>1. (ride[r].line \in {ride[r].line}) = TRUE /\ ride'[r] = new[r]
    BY <1>6
  <2> QED BY <1>5, <2>1 DEF BroughtAlong
<1> QED BY <1>1, <1>6, <1>7, <1>8

(* The key of a complete pair is the ID of a line. *)
LEMMA PairKeys ==
  ASSUME Inv, NEW p \in Pairs(line)
  PROVE  KeyOf(line, p) \in LineId
<1>1. GoodRows(line)
  BY InvRows
<1>2. PICK k \in {line[l].pairKey : l \in StoredIn(line)} \ {None} : p \in PairsOf(line, k)
  BY DEF Pairs
<1>3. k \in LineId
  BY <1>1, <1>2 DEF GoodRows, StoredIn, LineRow
<1>4. p[1] \in Group(line, k)
  BY <1>2 DEF PairsOf
<1> QED BY <1>3, <1>4 DEF KeyOf, Group

LEMMA InitInv == Init => Inv
<1> SUFFICES ASSUME Init PROVE Inv
  OBVIOUS
<1>1. PICK world \in Stored : line = world.line /\ ride = world.ride
  BY DEF Init
<1>2. /\ line \in [LineId -> LineRow \cup {None}] /\ ride \in [RideId -> RideRow \cup {None}]
      /\ RouteVisitsOnce /\ RidesRun /\ SchedulesOnce
  BY <1>1, StoredAssumption DEF RouteVisitsOnce, RidesRun, SchedulesOnce
<1>3. call \in [Caller -> Call] /\ CallInput
  BY DEF Init, NoCall, Call, CallInput
<1>4. repair \in [pairs: SUBSET LineId, rides: SUBSET RideId] /\ edits \in 0 .. MaxEdits
  BY BoundAssumption DEF Init
<1> QED BY <1>2, <1>3, <1>4 DEF Inv, TypeOK

(* The edits counted so far stay within their bound. *)
LEMMA EditCounted ==
  ASSUME edits \in 0 .. MaxEdits, Edited
  PROVE  edits' \in 0 .. MaxEdits
BY BoundAssumption DEF Edited

LEMMA LineStep ==
  ASSUME Inv, LineOperation
  PROVE  Inv'
<1>1. /\ GoodRows(line) /\ GoodRides(ride, line) /\ CallInput /\ call \in [Caller -> Call]
      /\ repair \in [pairs: SUBSET LineId, rides: SUBSET RideId] /\ edits \in 0 .. MaxEdits
  BY InvRows
<1>2. ASSUME NEW input \in NewLines, NEW l \in LineId, NEW b \in LineId, CreateLine(input, l, b)
      PROVE  Inv'
  <2>1. input \in LineRow /\ InsertLine(input, l, b) /\ UNCHANGED <<ride, call, repair>> /\ Edited
    BY <1>2, RowsAssumption DEF CreateLine
  <2>2. GoodRows(line') /\ GoodRides(ride', line')
    BY <2>1, InsertShape, RidesStay
  <2> QED BY <1>1, <2>1, <2>2, EditCounted, InvRowsNext DEF CallInput
<1>3. ASSUME NEW l \in LineId, NEW p \in LinePatches, UpdateLine(l, p)
      PROVE  Inv'
  <2>1. p \in LinePatch /\ UNCHANGED <<call, repair>> /\ Edited
    BY <1>3, RowsAssumption DEF UpdateLine
  <2>2. GoodRows(line') /\ ride' = Realigned(ride, line', Led(l, p) \cup Mates(l, p))
        /\ \A b \in LineId : line[b] # None => line'[b] # None
    BY <1>3, <2>1, UpdateShape
  <2>3. GoodRides(ride', line')
    BY <1>1, <2>2, RealignedGood
  <2> QED BY <1>1, <2>1, <2>2, <2>3, EditCounted, InvRowsNext DEF CallInput
<1>4. ASSUME NEW l \in LineId, NEW cascade \in BOOLEAN, RemoveLine(l, cascade)
      PROVE  Inv'
  <2>1. UNCHANGED <<call, repair>> /\ Edited
    BY <1>4 DEF RemoveLine
  <2>2. GoodRows(line') /\ GoodRides(ride', line')
    BY <1>4, RemoveShape
  <2> QED BY <1>1, <2>1, <2>2, EditCounted, InvRowsNext DEF CallInput
<1> QED BY <1>2, <1>3, <1>4 DEF LineOperation

LEMMA ReverseStep ==
  ASSUME Inv, ReverseOperation
  PROVE  Inv'
<1>1. /\ GoodRows(line) /\ GoodRides(ride, line) /\ CallInput /\ call \in [Caller -> Call]
      /\ repair \in [pairs: SUBSET LineId, rides: SUBSET RideId] /\ edits \in 0 .. MaxEdits
  BY InvRows
<1>2. NoCall \in Call /\ NoCall.step = "idle"
  BY DEF NoCall, Call
<1>3. ASSUME NEW c \in Caller, NEW x \in Call, x.step # "idle" => x.input \in LineRow,
             call' = [call EXCEPT ![c] = x]
      PROVE  call' \in [Caller -> Call] /\ CallInput'
  BY <1>1, <1>3 DEF CallInput
<1>4. ASSUME NEW c \in Caller, NEW l \in LineId, ReadSource(c, l)
      PROVE  Inv'
  <2> DEFINE row == line[l]
             dir == IF row.mode = "BOTH" /\ row.direction = "OUTBOUND" THEN "RETURN" ELSE "OUTBOUND"
             key == IF row.mode = "SINGLE" THEN None
                    ELSE IF row.pairKey = None THEN l ELSE row.pairKey
             back == [row EXCEPT !.departure = row.arrival, !.arrival = row.departure,
                                 !.direction = dir, !.pairKey = key,
                                 !.stops = ReversedStops(row.stops)]
             x == [step |-> "read", source |-> l, input |-> back]
  <2>1. row # None /\ UNCHANGED <<line, ride, repair, edits>>
    BY <1>4 DEF ReadSource
  <2>2. row \in LineRow
    BY <1>1, <2>1 DEF GoodRows
  <2>3. call' = [call EXCEPT ![c] = x]
    BY <1>4, <2>2 DEF ReadSource, LineRow
  <2>4. dir \in {"OUTBOUND", "RETURN"} /\ key \in LineId \cup {None}
        /\ ReversedStops(row.stops) \in Seq(Stop)
    BY <2>2, ReversedShape DEF LineRow
  <2> HIDE DEF dir, key
  <2>5. back \in LineRow
    BY <2>2, <2>4 DEF LineRow
  <2> HIDE DEF back
  <2>6. x \in Call /\ x.input \in LineRow
    BY <2>5 DEF Call
  <2> HIDE DEF x
  <2>7. call' \in [Caller -> Call] /\ CallInput'
    BY <1>3, <2>3, <2>6
  <2> QED BY <1>1, <2>1, <2>7, InvRowsNext
<1>5. ASSUME NEW c \in Caller, CheckReverse(c)
      PROVE  Inv'
  <2> DEFINE y == [call[c] EXCEPT !.step = "checked"]
             x == IF SameRoute(line, call[c].input) # {} THEN NoCall ELSE y
  <2>1. call[c].step = "read" /\ call' = [call EXCEPT ![c] = x] /\ UNCHANGED <<line, ride, repair, edits>>
    BY <1>5 DEF CheckReverse
  <2>2. call[c].input \in LineRow
    BY <1>1, <2>1 DEF CallInput
  <2>3. y \in Call /\ y.input \in LineRow
    BY <1>1, <2>2 DEF Call
  <2> HIDE DEF y
  <2>4. x \in Call /\ (x.step # "idle" => x.input \in LineRow)
    BY <1>2, <2>3
  <2> HIDE DEF x
  <2>5. call' \in [Caller -> Call] /\ CallInput'
    BY <1>3, <2>1, <2>4
  <2> QED BY <1>1, <2>1, <2>5, InvRowsNext
<1>6. ASSUME NEW c \in Caller, ReverseFails(c)
      PROVE  Inv'
  <2>1. call' = [call EXCEPT ![c] = NoCall] /\ UNCHANGED <<line, ride, repair, edits>>
    BY <1>6 DEF ReverseFails
  <2>2. call' \in [Caller -> Call] /\ CallInput'
    BY <1>2, <1>3, <2>1
  <2> QED BY <1>1, <2>1, <2>2, InvRowsNext
<1>7. ASSUME NEW c \in Caller, NEW l \in LineId, NEW b \in LineId, CommitReverse(c, l, b)
      PROVE  Inv'
  <2>1. /\ call[c].step = "checked" /\ InsertLine(call[c].input, l, b)
        /\ call' = [call EXCEPT ![c] = NoCall] /\ UNCHANGED <<ride, repair, edits>>
    BY <1>7 DEF CommitReverse
  <2>2. call[c].input \in LineRow
    BY <1>1, <2>1 DEF CallInput
  <2>3. GoodRows(line') /\ GoodRides(ride', line')
    BY <2>1, <2>2, InsertShape, RidesStay
  <2>4. call' \in [Caller -> Call] /\ CallInput'
    BY <1>2, <1>3, <2>1
  <2> QED BY <1>1, <2>1, <2>3, <2>4, InvRowsNext
<1> QED BY <1>4, <1>5, <1>6, <1>7 DEF ReverseOperation

LEMMA RideStep ==
  ASSUME Inv, RideOperation
  PROVE  Inv'
<1>1. /\ GoodRows(line) /\ CallInput /\ call \in [Caller -> Call]
      /\ repair \in [pairs: SUBSET LineId, rides: SUBSET RideId] /\ edits \in 0 .. MaxEdits
  BY InvRows
<1>2. UNCHANGED <<line, call, repair>> /\ Edited /\ GoodRides(ride', line')
  BY RideShape
<1> QED BY <1>1, <1>2, EditCounted, InvRowsNext DEF CallInput

LEMMA RepairStep ==
  ASSUME Inv, RepairOperation
  PROVE  Inv'
<1>1. /\ GoodRows(line) /\ GoodRides(ride, line) /\ CallInput /\ call \in [Caller -> Call]
      /\ repair \in [pairs: SUBSET LineId, rides: SUBSET RideId] /\ edits \in 0 .. MaxEdits
  BY InvRows
<1>2. ASSUME NEW ps \in SUBSET LineId, repair' = [repair EXCEPT !.pairs = ps]
      PROVE  repair' \in [pairs: SUBSET LineId, rides: SUBSET RideId]
  BY <1>1, <1>2
<1>3. ASSUME NEW rs \in SUBSET RideId, repair' = [repair EXCEPT !.rides = rs]
      PROVE  repair' \in [pairs: SUBSET LineId, rides: SUBSET RideId]
  BY <1>1, <1>3
<1>4. CASE ScanPairs
  <2> DEFINE found == {p \in Pairs(line) : Drifted(line, p) /\ MergedStops(line, p) # {}}
  <2>1. /\ repair' = [repair EXCEPT !.pairs = {KeyOf(line, p) : p \in found}]
        /\ UNCHANGED <<line, ride, call, edits>>
    BY <1>4 DEF ScanPairs
  <2>2. {KeyOf(line, p) : p \in found} \in SUBSET LineId
    BY PairKeys
  <2> QED BY <1>1, <1>2, <2>1, <2>2, InvRowsNext DEF CallInput
<1>5. CASE ScanSchedules
  <2> DEFINE found == {r \in StoredIn(ride) :
                          ~IsScheduleAligned(ride[r].times, Route(line[ride[r].line]))}
  <2>1. repair' = [repair EXCEPT !.rides = found] /\ UNCHANGED <<line, ride, call, edits>>
    BY <1>5 DEF ScanSchedules
  <2>2. found \in SUBSET RideId
    BY <1>1 DEF StoredIn, GoodRides
  <2> HIDE DEF found
  <2> QED BY <1>1, <1>3, <2>1, <2>2, InvRowsNext DEF CallInput
<1>6. CASE RepairFails
  <2>1. /\ repair' \in [pairs: SUBSET LineId, rides: SUBSET RideId]
        /\ UNCHANGED <<line, ride, call, edits>>
    BY <1>1, <1>6 DEF RepairFails
  <2> QED BY <1>1, <2>1, InvRowsNext DEF CallInput
<1>7. ASSUME NEW k \in LineId, SyncPair(k)
      PROVE  Inv'
  <2>1. repair' = [repair EXCEPT !.pairs = repair.pairs \ {k}] /\ UNCHANGED <<call, edits>>
    BY <1>7 DEF SyncPair
  <2>2. repair' \in [pairs: SUBSET LineId, rides: SUBSET RideId]
    BY <1>1, <2>1
  <2>3. GoodRows(line') /\ GoodRides(ride', line')
    <3>1. CASE UNCHANGED <<line, ride>>
      BY <1>1, <3>1
    <3>2. ASSUME NEW p, NEW merged, PairSynced(p, merged)
          PROVE  GoodRows(line') /\ GoodRides(ride', line')
      <4>1. GoodRows(line') /\ \A x \in LineId : line[x] # None => line'[x] # None
        BY <3>2, SyncedRows
      <4>2. ride' = Realigned(ride, line', {p[1], p[2]})
        BY <3>2 DEF PairSynced
      <4> QED BY <1>1, <4>1, <4>2, RealignedGood
    <3> QED BY <1>7, <3>1, <3>2, SyncShape
  <2> QED BY <1>1, <2>1, <2>2, <2>3, InvRowsNext DEF CallInput
<1>8. ASSUME NEW r \in RideId, RealignSchedule(r)
      PROVE  Inv'
  <2>1. repair' = [repair EXCEPT !.rides = repair.rides \ {r}]
    BY <1>8 DEF RealignSchedule
  <2>2. repair' \in [pairs: SUBSET LineId, rides: SUBSET RideId]
    BY <1>1, <2>1
  <2>3. GoodRides(ride', line') /\ UNCHANGED <<line, call, edits>>
    BY <1>8, RealignOne
  <2> QED BY <1>1, <2>2, <2>3, InvRowsNext DEF CallInput
<1> QED BY <1>4, <1>5, <1>6, <1>7, <1>8 DEF RepairOperation

(* Every step keeps the invariant. *)
LEMMA StepInv == Inv /\ [Next]_vars => Inv'
<1>1. ASSUME Inv, UNCHANGED vars PROVE Inv'
  BY <1>1 DEF vars, Inv, TypeOK, RouteVisitsOnce, CallInput, RidesRun, SchedulesOnce
<1> QED BY <1>1, LineStep, ReverseStep, RideStep, RepairStep DEF Next

LEMMA InvHolds == Spec => []Inv
BY InitInv, StepInv, PTL DEF Spec

(* Every reachable state is typed: the rows of lines, rides and schedules, what
   a request for a reverse line has read, and what a repair has to visit. *)
THEOREM TypeCorrect == Spec => []TypeOK
BY InvHolds, PTL DEF Inv

(* A line's route never visits a station twice, whichever edit, mirroring onto
   the other direction, repair or late reverse of a line wrote its stops
   (lines.service.ts ensureStopsDoNotUseRouteEndpoints, syncPairedLineStopsTx). *)
THEOREM RoutesVisitOnce == Spec => []RouteVisitsOnce
BY InvHolds, PTL DEF Inv

-----------------------------------------------------------------------------
(* Schedules and the route of their line *)

\* Every schedule that mirrors its route does so after the step.
Mirrored ==
    \A r \in StoredIn(ride) :
        IsScheduleAligned(ride[r].times, Route(line[ride[r].line]))
        => IsScheduleAligned(ride'[r].times, Route(line'[ride'[r].line]))

(* Realigning the rides of every line whose route changed keeps them all. *)
LEMMA RealignedMirrors ==
  ASSUME Inv, GoodRows(line'), NEW ls, ride' = Realigned(ride, line', ls),
         \A b \in LineId : line[b] # None =>
             line'[b] # None /\ (b \notin ls => Route(line'[b]) = Route(line[b]))
  PROVE  Mirrored
<1> SUFFICES ASSUME NEW r \in StoredIn(ride),
                    IsScheduleAligned(ride[r].times, Route(line[ride[r].line]))
             PROVE  IsScheduleAligned(ride'[r].times, Route(line'[ride'[r].line]))
  BY DEF Mirrored
<1>1. GoodRides(ride, line)
  BY InvRows
<1>2. /\ r \in RideId /\ ride[r] # None /\ ride[r].line \in LineId /\ line[ride[r].line] # None
      /\ ride \in [RideId -> RideRow \cup {None}]
  BY <1>1 DEF GoodRides, StoredIn
<1>3. line'[ride[r].line] \in LineRow
  BY <1>2 DEF GoodRows
<1> DEFINE rows == line'
<1>4. rows[ride[r].line] \in LineRow
  BY <1>3
<1>5. BroughtAlong(Realigned(ride, rows, ls)[r], ride[r], Route(rows[ride[r].line]),
                   ride[r].line \in ls)
  <2> HIDE DEF rows
  <2> QED BY <1>2, <1>4, RealignedShape
<1>6. BroughtAlong(ride'[r], ride[r], Route(line'[ride[r].line]), ride[r].line \in ls)
  BY <1>5
<1>7. CASE ride[r].line \in ls
  BY <1>2, <1>6, <1>7 DEF BroughtAlong
<1>8. CASE ride[r].line \notin ls
  <2>1. ride'[r] = ride[r]
    BY <1>2, <1>6, <1>8 DEF BroughtAlong
  <2> QED BY <1>2, <1>8, <2>1
<1> QED BY <1>7, <1>8

(* A route is made of the termini and the stops. *)
LEMMA SameRow ==
  ASSUME NEW row, NEW new, new.departure = row.departure, new.arrival = row.arrival,
         new.stops = row.stops
  PROVE  Route(new) = Route(row)
BY DEF Route

LEMMA StepMirrors == Inv /\ [Next]_vars => Mirrored
<1> SUFFICES ASSUME Inv, [Next]_vars PROVE Mirrored
  OBVIOUS
<1>1. GoodRows(line) /\ GoodRides(ride, line)
  BY InvRows
<1>2. ASSUME \A r \in RideId : ride[r] # None =>
                /\ ride'[r].line = ride[r].line /\ ride'[r].times = ride[r].times
                /\ Route(line'[ride[r].line]) = Route(line[ride[r].line])
      PROVE  Mirrored
  <2>1. \A r \in StoredIn(ride) : r \in RideId /\ ride[r] # None
    BY <1>1 DEF StoredIn, GoodRides
  <2> QED BY <1>2, <2>1 DEF Mirrored
<1>3. ASSUME UNCHANGED <<line, ride>> PROVE Mirrored
  BY <1>2, <1>3
<1>4. ASSUME NEW input \in LineRow, NEW l \in LineId, NEW b \in LineId,
             InsertLine(input, l, b), UNCHANGED ride
      PROVE  Mirrored
  <2>1. \A x \in LineId : line[x] # None => line'[x] = line[x]
    BY <1>4, InsertShape
  <2>2. \A r \in RideId : ride[r] # None => ride[r].line \in LineId /\ line[ride[r].line] # None
    BY <1>1 DEF GoodRides
  <2> QED BY <1>2, <1>4, <2>1, <2>2
<1>5. CASE LineOperation
  <2>1. ASSUME NEW input \in NewLines, NEW l \in LineId, NEW b \in LineId, CreateLine(input, l, b)
        PROVE  Mirrored
    BY <1>4, <2>1, RowsAssumption DEF CreateLine
  <2>2. ASSUME NEW l \in LineId, NEW p \in LinePatches, UpdateLine(l, p)
        PROVE  Mirrored
    <3> DEFINE ls == Led(l, p) \cup Mates(l, p)
    <3>1. p \in LinePatch
      BY RowsAssumption
    <3>2. /\ line[l] \in LineRow /\ NewRow(l, p) \in LineRow
          /\ line' = [b \in LineId |-> IF b \in Mates(l, p) THEN MateRow(l, p, b)
                                       ELSE IF b = l THEN NewRow(l, p) ELSE line[b]]
          /\ ride' = Realigned(ride, line', ls)
          /\ GoodRows(line') /\ \A b \in LineId : line[b] # None <=> line'[b] # None
          /\ l \notin Mates(l, p)
      BY <2>2, <3>1, UpdateShape
    <3>3. ASSUME NEW b \in LineId, b \notin ls PROVE Route(line'[b]) = Route(line[b])
      <4>1. CASE b = l
        <5>1. ~RouteChanged(p)
          BY <3>3, <4>1 DEF Led
        <5>2. /\ NewRow(l, p).departure = line[l].departure /\ NewRow(l, p).arrival = line[l].arrival
              /\ NewRow(l, p).stops = line[l].stops
          BY <3>1, <3>2, <5>1, PatchedShape DEF NewRow, RouteChanged, Given
        <5>3. line'[b] = NewRow(l, p)
          BY <3>2, <4>1
        <5> QED BY <4>1, <5>2, <5>3, SameRow
      <4>2. CASE b # l
        <5>1. line'[b] = line[b]
          BY <3>2, <3>3, <4>2
        <5> QED BY <5>1
      <4> QED BY <4>1, <4>2
    <3> HIDE DEF ls
    <3> QED BY <3>2, <3>3, RealignedMirrors
  <2>3. ASSUME NEW l \in LineId, NEW cascade \in BOOLEAN, RemoveLine(l, cascade)
        PROVE  Mirrored
    <3>1. \A x \in LineId : line[x] # None =>
               /\ line'[x].departure = line[x].departure
               /\ line'[x].arrival = line[x].arrival /\ line'[x].stops = line[x].stops
      BY <2>3, RemoveShape
    <3>2. \A r \in RideId : ride[r] # None =>
               ride'[r].line = ride[r].line /\ ride'[r].times = ride[r].times
      BY <2>3, RemoveShape
    <3>3. \A r \in RideId : ride[r] # None => ride[r].line \in LineId /\ line[ride[r].line] # None
      BY <1>1 DEF GoodRides
    <3>4. \A x \in LineId : line[x] # None => Route(line'[x]) = Route(line[x])
      BY <3>1, SameRow
    <3> QED BY <1>2, <3>2, <3>3, <3>4
  <2> QED BY <1>5, <2>1, <2>2, <2>3 DEF LineOperation
<1>6. CASE ReverseOperation
  <2>1. ASSUME NEW c \in Caller, NEW l \in LineId, NEW b \in LineId, CommitReverse(c, l, b)
        PROVE  Mirrored
    <3>1. call[c].step = "checked" /\ InsertLine(call[c].input, l, b) /\ UNCHANGED ride
      BY <2>1 DEF CommitReverse
    <3>2. call[c].input \in LineRow
      BY <3>1, InvRows DEF CallInput
    <3> QED BY <1>4, <3>1, <3>2
  <2> QED BY <1>3, <1>6, <2>1 DEF ReverseOperation, ReadSource, CheckReverse, ReverseFails
<1>7. CASE RideOperation
  <2>1. UNCHANGED line
        /\ \A q \in RideId : ride[q] # None =>
               \/ ride'[q].line = ride[q].line /\ ride'[q].times = ride[q].times
               \/ IsScheduleAligned(ride'[q].times, Route(line'[ride'[q].line]))
    BY <1>7, RideShape
  <2>2. \A r \in StoredIn(ride) : r \in RideId /\ ride[r] # None
    BY <1>1 DEF StoredIn, GoodRides
  <2> QED BY <2>1, <2>2 DEF Mirrored
<1>8. CASE RepairOperation
  <2>1. ASSUME NEW k \in LineId, SyncPair(k) PROVE Mirrored
    <3>1. ASSUME NEW p, NEW merged, PairSynced(p, merged) PROVE Mirrored
      <4>1. /\ GoodRows(line') /\ \A x \in LineId : line[x] # None <=> line'[x] # None
            /\ \A x \in LineId : x \notin {p[1], p[2]} => line'[x] = line[x]
        BY <3>1, SyncedRows
      <4>2. ride' = Realigned(ride, line', {p[1], p[2]})
        BY <3>1 DEF PairSynced
      <4> QED BY <4>1, <4>2, RealignedMirrors
    <3> QED BY <1>3, <2>1, <3>1, SyncShape
  <2>2. ASSUME NEW r \in RideId, RealignSchedule(r) PROVE Mirrored
    <3>1. /\ UNCHANGED line /\ \A q \in RideId : q # r => ride'[q] = ride[q]
          /\ BroughtAlong(ride'[r], ride[r], Route(line[ride[r].line]), TRUE)
      BY <2>2, RealignOne
    <3>2. \A q \in StoredIn(ride) : q \in RideId /\ ride[q] # None
      BY <1>1 DEF StoredIn, GoodRides
    <3> QED BY <3>1, <3>2 DEF Mirrored, BroughtAlong
  <2> QED BY <1>3, <1>8, <2>1, <2>2 DEF RepairOperation, ScanPairs, ScanSchedules, RepairFails
<1> QED BY <1>3, <1>5, <1>6, <1>7, <1>8 DEF Next, vars

(* A day schedule that mirrors the route of its line still does after any step:
   a route edited on this direction or on the other one, a repair of the pair,
   a ride moved to another line (ride-schedule-alignment.ts). *)
THEOREM SchedulesStayMirrored == Spec => StaysMirrored
<1>1. Inv /\ [Next]_vars => [Mirrored]_vars
  BY StepMirrors
<1>2. Spec => [][Next]_vars
  BY DEF Spec
<1>3. [][Mirrored]_vars <=> StaysMirrored
  BY DEF Mirrored, StaysMirrored
<1> QED BY <1>1, <1>2, <1>3, InvHolds, PTL

-----------------------------------------------------------------------------
(* The times of a schedule that follows its route *)

(* An estimate between two known times is one the bus can be there at. *)
LEMMA BetweenKnown ==
  ASSUME NEW known \in Seq(Time \cup {None}), NEW i \in 1 .. Len(known),
         NEW p \in 1 .. i - 1, NEW n \in i + 1 .. Len(known),
         known[p] # None, known[n] # None, \A j \in p + 1 .. n - 1 : known[j] = None
  PROVE  After(known[p], EstimatedTime(known, i)) <= After(known[p], known[n])
<1> DEFINE S == Span(known[p], known[n])
           a == i - p
           b == n - p
           m == Share(S, a, b)
<1>1. /\ Len(known) \in Nat /\ i \in Int /\ p \in Int /\ n \in Int
      /\ p < i /\ i < n /\ n <= Len(known) /\ 1 <= p
  OBVIOUS
<1>2. known[i] = None
  BY <1>1
<1>3. known[p] \in Time /\ known[n] \in Time
  <2>1. p \in 1 .. Len(known) /\ n \in 1 .. Len(known)
    BY <1>1
  <2> QED BY <2>1
<1>4. EstimatedTime(known, i) = ToTimeString(known[p] + Rounded(Span(known[p], known[n]) * (i - p), n - p))
  BY <1>2, EstimatedShape
<1>5. S \in 0 .. MinutesPerDay - 1 /\ After(known[p], known[n]) = S
  BY <1>3, SpanShape
<1>6. a \in Nat /\ b \in Nat \ {0} /\ a <= b
  BY <1>1
<1>7. EstimatedTime(known, i) = ToTimeString(known[p] + m)
  BY <1>4 DEF Share
<1> HIDE DEF S, a, b
<1>8. m \in 0 .. S
  <2>1. S \in Nat
    BY <1>5, ClockAssumption
  <2> QED BY <1>6, <2>1, RoundedWithin
<1> HIDE DEF m
<1>9. m \in 0 .. MinutesPerDay - 1 /\ m <= S
  BY <1>5, <1>8, ClockAssumption
<1>10. After(known[p], ToTimeString(known[p] + m)) = m
  BY <1>3, <1>9, AfterAdding
<1> QED BY <1>5, <1>7, <1>9, <1>10

\* What KnownTimesKept and StaysOnTimetable ask of one rewritten schedule.
TimesKept(times, old) ==
    LET Before(i) == TimeAt(old, times[i].station)
    IN /\ \A i \in DOMAIN times : Before(i) # None => times[i].time = Before(i)
       /\ \A i, j, k \in DOMAIN times :
             i < j /\ j < k /\ Before(i) # None /\ Before(k) # None
             /\ (\A n \in i + 1 .. k - 1 : Before(n) = None)
             => After(times[i].time, times[j].time) <= After(times[i].time, times[k].time)

Timetabled(times, old) ==
    (\E s \in ToSet(StationsOf(times)) : TimeAt(old, s) # None)
    => times[1].time # None /\ times[Len(times)].time # None

(* What the schedule knew is kept, and what joins lies in between. *)
LEMMA AlignedKeeps ==
  ASSUME NEW route \in Seq(Station), NEW old \in Seq(TimeStop)
  PROVE  TimesKept(AlignedStationTimes(route, old), old)
<1> DEFINE k == Known(route, old)
           new == AlignedStationTimes(route, old)
<1>1. /\ k \in Seq(Time \cup {None}) /\ Len(k) = Len(route) /\ Len(route) \in Nat
      /\ \A i \in 1 .. Len(route) : k[i] = TimeAt(old, route[i])
      /\ new \in Seq(TimeStop) /\ Len(new) = Len(route)
      /\ \A i \in 1 .. Len(route) :
            /\ new[i].station = route[i]
            /\ new[i].time = IF k[i] # None THEN k[i] ELSE EstimatedTime(k, i)
  BY AlignedShape
<1> HIDE DEF k, new
<1>2. DOMAIN new = 1 .. Len(route)
  BY <1>1
<1>3. \A i \in 1 .. Len(route) : TimeAt(old, new[i].station) = k[i]
  BY <1>1
<1>4. ASSUME NEW i \in 1 .. Len(route), TimeAt(old, new[i].station) # None
      PROVE  new[i].time = TimeAt(old, new[i].station)
  BY <1>1, <1>3, <1>4
<1>5. ASSUME NEW i \in 1 .. Len(route), NEW j \in 1 .. Len(route), NEW m \in 1 .. Len(route),
             i < j, j < m, TimeAt(old, new[i].station) # None, TimeAt(old, new[m].station) # None,
             \A n \in i + 1 .. m - 1 : TimeAt(old, new[n].station) = None
      PROVE  After(new[i].time, new[j].time) <= After(new[i].time, new[m].time)
  <2>1. k[i] # None /\ k[m] # None /\ new[i].time = k[i] /\ new[m].time = k[m]
    BY <1>1, <1>3, <1>5
  <2>2. ASSUME NEW n \in i + 1 .. m - 1 PROVE k[n] = None
    <3>1. n \in 1 .. Len(route)
      BY <1>1
    <3> QED BY <1>3, <1>5, <3>1
  <2>3. j \in i + 1 .. m - 1
    BY <1>5
  <2>4. k[j] = None /\ new[j].time = EstimatedTime(k, j)
    BY <1>1, <2>2, <2>3
  <2>5. j \in 1 .. Len(k) /\ i \in 1 .. j - 1 /\ m \in j + 1 .. Len(k)
    BY <1>1, <1>5
  <2>6. After(k[i], EstimatedTime(k, j)) <= After(k[i], k[m])
    BY <1>1, <2>1, <2>2, <2>5, BetweenKnown
  <2> QED BY <2>1, <2>4, <2>6
<1>6. TimesKept(new, old)
  BY <1>2, <1>4, <1>5 DEF TimesKept
<1> QED BY <1>6 DEF new

(* With one time known, every station of a route has one. *)
LEMMA AlignedTimetabled ==
  ASSUME NEW route \in Seq(Station), Len(route) >= 1, NEW old \in Seq(TimeStop)
  PROVE  Timetabled(AlignedStationTimes(route, old), old)
<1> DEFINE k == Known(route, old)
           new == AlignedStationTimes(route, old)
<1>1. /\ k \in Seq(Time \cup {None}) /\ Len(k) = Len(route) /\ Len(route) \in Nat
      /\ \A i \in 1 .. Len(route) : k[i] = TimeAt(old, route[i])
      /\ new \in Seq(TimeStop) /\ Len(new) = Len(route) /\ StationsOf(new) = route
      /\ \A i \in 1 .. Len(route) :
            /\ new[i].station = route[i]
            /\ new[i].time = IF k[i] # None THEN k[i] ELSE EstimatedTime(k, i)
  BY AlignedShape
<1> HIDE DEF k, new
<1>2. ASSUME NEW s \in ToSet(StationsOf(new)), TimeAt(old, s) # None, NEW i \in 1 .. Len(route)
      PROVE  new[i].time # None
  <2>1. PICK j \in 1 .. Len(route) : route[j] = s
    BY <1>1 DEF ToSet
  <2>2. j \in 1 .. Len(k) /\ k[j] # None
    BY <1>1, <1>2, <2>1
  <2>3. CASE k[i] # None
    BY <1>1, <2>3
  <2>4. CASE k[i] = None
    <3>1. i \in 1 .. Len(k)
      BY <1>1
    <3>2. EstimatedTime(k, i) \in Time
      BY <1>1, <2>2, <2>4, <3>1, EstimatedShape
    <3>3. EstimatedTime(k, i) # None
      BY <3>2, RowsAssumption
    <3> QED BY <1>1, <2>4, <3>3
  <2> QED BY <2>3, <2>4
<1>3. 1 \in 1 .. Len(route) /\ Len(new) \in 1 .. Len(route)
  BY <1>1
<1>4. Timetabled(new, old)
  BY <1>2, <1>3 DEF Timetabled
<1> QED BY <1>4 DEF new

(* A schedule that nobody edited changes only by being aligned with a route. *)
LEMMA Rewritten ==
  ASSUME Inv, [Next]_vars, NEW r \in RideId, RewrittenByRoute(r), ride'[r].times # ride[r].times
  PROVE  /\ ride[r].times \in Seq(TimeStop)
         /\ \E route \in Seq(Station) :
               Len(route) >= 1 /\ ride'[r].times = AlignedStationTimes(route, ride[r].times)
<1>1. GoodRows(line) /\ GoodRides(ride, line)
  BY InvRows
<1>2. /\ ride[r] # None /\ ride[r].line \in LineId /\ line[ride[r].line] # None
      /\ ride[r].times \in Seq(TimeStop) /\ ride \in [RideId -> RideRow \cup {None}]
  BY <1>1 DEF RewrittenByRoute, GoodRides
<1> DEFINE Goal == \E route \in Seq(Station) :
               Len(route) >= 1 /\ ride'[r].times = AlignedStationTimes(route, ride[r].times)
<1>3. ride' # ride
  BY DEF RewrittenByRoute
<1>4. ASSUME NEW row \in LineRow, FollowsRoute(ride'[r], ride[r], Route(row))
      PROVE  Goal
  <2>1. Route(row) \in Seq(Station) /\ Len(Route(row)) >= 1
    BY RouteShape
  <2>2. ride'[r].times = AlignedStationTimes(Route(row), ride[r].times)
    BY <1>4 DEF FollowsRoute
  <2> QED BY <2>1, <2>2
<1>5. ASSUME NEW ls, GoodRows(line'), ride' = Realigned(ride, line', ls),
             line'[ride[r].line] # None
      PROVE  Goal
  <2> DEFINE rows == line'
             row == rows[ride[r].line]
  <2>1. row \in LineRow
    BY <1>2, <1>5 DEF GoodRows
  <2>2. BroughtAlong(Realigned(ride, rows, ls)[r], ride[r], Route(rows[ride[r].line]),
                     ride[r].line \in ls)
    <3> HIDE DEF rows
    <3> QED BY <1>2, <2>1, RealignedShape
  <2>3. FollowsRoute(ride'[r], ride[r], Route(row))
    BY <1>2, <1>5, <2>2 DEF BroughtAlong
  <2> HIDE DEF row
  <2> QED BY <1>4, <2>1, <2>3
<1> SUFFICES Goal
  BY <1>2
<1> HIDE DEF Goal
<1>6. CASE LineOperation
  <2>1. ASSUME NEW input \in NewLines, NEW l \in LineId, NEW b \in LineId, CreateLine(input, l, b)
        PROVE  Goal
    BY <1>3, <2>1 DEF CreateLine
  <2>2. ASSUME NEW l \in LineId, NEW p \in LinePatches, UpdateLine(l, p) PROVE Goal
    <3>1. p \in LinePatch
      BY RowsAssumption
    <3>2. /\ GoodRows(line') /\ \A b \in LineId : line[b] # None <=> line'[b] # None
          /\ ride' = Realigned(ride, line', Led(l, p) \cup Mates(l, p))
      BY <2>2, <3>1, UpdateShape
    <3> QED BY <1>2, <1>5, <3>2
  <2>3. ASSUME NEW l \in LineId, NEW cascade \in BOOLEAN, RemoveLine(l, cascade) PROVE Goal
    BY <1>2, <2>3, RemoveShape
  <2> QED BY <1>6, <2>1, <2>2, <2>3 DEF LineOperation
<1>7. CASE ReverseOperation
  BY <1>3, <1>7 DEF ReverseOperation, ReadSource, CheckReverse, ReverseFails, CommitReverse
<1>8. CASE RideOperation
  BY <1>8, RideShape DEF RewrittenByRoute
<1>9. CASE RepairOperation
  <2>1. ASSUME NEW k \in LineId, SyncPair(k) PROVE Goal
    <3>1. ASSUME NEW p, NEW merged, PairSynced(p, merged) PROVE Goal
      <4>1. /\ GoodRows(line') /\ \A x \in LineId : line[x] # None <=> line'[x] # None
        BY <3>1, SyncedRows
      <4>2. ride' = Realigned(ride, line', {p[1], p[2]})
        BY <3>1 DEF PairSynced
      <4> QED BY <1>2, <1>5, <4>1, <4>2
    <3> QED BY <1>3, <2>1, <3>1, SyncShape
  <2>2. ASSUME NEW q \in RideId, RealignSchedule(q) PROVE Goal
    <3>1. /\ \A x \in RideId : x # q => ride'[x] = ride[x]
          /\ BroughtAlong(ride'[q], ride[q], Route(line[ride[q].line]), TRUE)
      BY <2>2, RealignOne
    <3>2. q = r
      BY <3>1
    <3>3. line[ride[r].line] \in LineRow
      BY <1>1, <1>2 DEF GoodRows
    <3>4. FollowsRoute(ride'[r], ride[r], Route(line[ride[r].line]))
      BY <1>2, <3>1, <3>2 DEF BroughtAlong
    <3> QED BY <1>4, <3>3, <3>4
  <2> QED BY <1>3, <1>9, <2>1, <2>2 DEF RepairOperation, ScanPairs, ScanSchedules, RepairFails
<1> QED BY <1>3, <1>6, <1>7, <1>8, <1>9 DEF Next, vars

AllTimesKept ==
    \A r \in RideId : RewrittenByRoute(r) /\ ride'[r].times # ride[r].times
        => TimesKept(ride'[r].times, ride[r].times)

AllTimetabled ==
    \A r \in RideId : RewrittenByRoute(r) /\ ride'[r].times # ride[r].times
        => Timetabled(ride'[r].times, ride[r].times)

(* A station that stays on the route keeps the time an operator entered for it,
   whatever rewrites the schedule and however often; one that joins between two
   such gets a time not before the one and not after the other, round the clock
   (ride-schedule-alignment.ts buildAlignedStationTimes). *)
THEOREM EnteredTimesKept == Spec => KnownTimesKept
<1>1. Inv /\ [Next]_vars => [AllTimesKept]_vars
  BY Rewritten, AlignedKeeps DEF AllTimesKept
<1>2. Spec => [][Next]_vars
  BY DEF Spec
<1>3. [][AllTimesKept]_vars <=> KnownTimesKept
  BY DEF AllTimesKept, TimesKept, KnownTimesKept
<1> QED BY <1>1, <1>2, <1>3, InvHolds, PTL

(* A route edit or a repair never takes a ride off the timetable: while one
   surviving station has a time, its first and its last station have one
   (buildAlignedStationTimes, listInstancesByDate). *)
THEOREM RidesStayListed == Spec => StaysOnTimetable
<1>1. Inv /\ [Next]_vars => [AllTimetabled]_vars
  BY Rewritten, AlignedTimetabled DEF AllTimetabled
<1>2. Spec => [][Next]_vars
  BY DEF Spec
<1>3. [][AllTimetabled]_vars <=> StaysOnTimetable
  BY DEF AllTimetabled, Timetabled, StaysOnTimetable
<1> QED BY <1>1, <1>2, <1>3, InvHolds, PTL

-----------------------------------------------------------------------------
(* The two directions of a pair *)

(* Two lines carry the same stops, one the other way round, but for stops that
   are termini of either. *)
Facing(a, b) ==
    Keep(StationsOf(a.stops), Between(a) \cap Between(b))
    = Reverse(Keep(StationsOf(b.stops), Between(a) \cap Between(b)))

LEMMA FacingBack ==
  ASSUME NEW a \in LineRow, NEW b \in LineRow, Facing(a, b)
  PROVE  Facing(b, a)
<1> DEFINE C == Between(a) \cap Between(b)
           x == Keep(StationsOf(a.stops), C)
           y == Keep(StationsOf(b.stops), C)
<1>1. StationsOf(a.stops) \in Seq(Station) /\ StationsOf(b.stops) \in Seq(Station)
  BY StopStations DEF LineRow
<1>2. y \in Seq(Station)
  BY <1>1, KeepSet
<1>3. x = Reverse(y)
  BY DEF Facing
<1> HIDE DEF x, y
<1>4. y = Reverse(x)
  BY <1>2, <1>3, ReverseShape
<1>5. Between(b) \cap Between(a) = C
  OBVIOUS
<1> HIDE DEF C
<1>6. y = Keep(StationsOf(b.stops), Between(b) \cap Between(a))
      /\ x = Keep(StationsOf(a.stops), Between(b) \cap Between(a))
  BY <1>5 DEF x, y
<1> QED BY <1>4, <1>6 DEF Facing

(* Stops mirrored from one direction face it. *)
LEMMA MirroredFaces ==
  ASSUME NEW a \in LineRow, NEW b \in LineRow,
         StationsOf(b.stops) = Keep(Reverse(StationsOf(a.stops)), Between(b))
  PROVE  Facing(a, b)
<1> DEFINE C == Between(a) \cap Between(b)
           g == StationsOf(a.stops)
           r == Reverse(g)
           B == Between(b)
<1>1. g \in Seq(Station)
  BY StopStations DEF LineRow
<1>2. B \cap C = C
  OBVIOUS
<1> HIDE DEF g, C, B
<1>3. r \in Seq(Station)
  BY <1>1, ReverseShape
<1>4. Keep(r, C) = Reverse(Keep(g, C))
  BY <1>1, KeepReverse
<1> HIDE DEF r
<1>5. Keep(Keep(r, B), C) = Keep(r, B \cap C)
  BY <1>3, KeepKeep
<1>6. Keep(StationsOf(b.stops), C) = Reverse(Keep(g, C))
  BY <1>2, <1>4, <1>5 DEF r, g, B
<1>7. Keep(g, C) \in Seq(Station)
  BY <1>1, KeepSet
<1>8. Reverse(Reverse(Keep(g, C))) = Keep(g, C)
  <2> DEFINE k == Keep(g, C)
  <2> HIDE DEF k
  <2> QED BY <1>7, ReverseShape DEF k
<1> QED BY <1>6, <1>8 DEF Facing, C, g

(* Two directions given one order face each other. *)
LEMMA SyncedFaces ==
  ASSUME NEW a, NEW b, NEW m \in Seq(Station),
         StationsOf(a.stops) = Keep(m, Between(a)),
         StationsOf(b.stops) = Keep(Reverse(m), Between(b))
  PROVE  Facing(a, b)
<1> DEFINE A == Between(a)
           B == Between(b)
           C == A \cap B
           r == Reverse(m)
<1>1. A \cap C = C /\ B \cap C = C
  OBVIOUS
<1>2. r \in Seq(Station)
  BY ReverseShape
<1>3. Keep(r, C) = Reverse(Keep(m, C))
  BY KeepReverse
<1> HIDE DEF A, B, C, r
<1>4. Keep(Keep(m, A), C) = Keep(m, A \cap C)
  BY KeepKeep
<1>5. Keep(Keep(r, B), C) = Keep(r, B \cap C)
  BY <1>2, KeepKeep
<1>6. Keep(StationsOf(a.stops), C) = Keep(m, C) /\ Keep(StationsOf(b.stops), C) = Reverse(Keep(m, C))
  BY <1>1, <1>3, <1>4, <1>5 DEF A, B, r
<1>7. Keep(m, C) \in Seq(Station)
  BY KeepSet
<1>8. Reverse(Reverse(Keep(m, C))) = Keep(m, C)
  <2> DEFINE k == Keep(m, C)
  <2> HIDE DEF k
  <2> QED BY <1>7, ReverseShape DEF k
<1> QED BY <1>6, <1>8 DEF Facing, A, B, C

LEMMA AgreeIsFacing ==
  ASSUME NEW rows, NEW p
  PROVE  Agree(rows, p) <=> Facing(rows[p[1]], rows[p[2]])
<1>1. Between(rows[p[1]]) \cap Between(rows[p[2]])
      = {x \in Station : NotAnEndpoint(rows[p[1]], x) /\ NotAnEndpoint(rows[p[2]], x)}
  BY DEF Between
<1> QED BY <1>1 DEF Agree, Facing

(* The same modes and keys make the same pairs. *)
LEMMA GroupsStay ==
  ASSUME NEW rows, NEW new, DOMAIN new = DOMAIN rows,
         \A x \in DOMAIN rows :
            /\ new[x] # None <=> rows[x] # None
            /\ rows[x] # None => new[x].mode = rows[x].mode /\ new[x].pairKey = rows[x].pairKey
  PROVE  \A k : Group(new, k) = Group(rows, k)
BY DEF Group, StoredIn

(* A complete pair is a line and the one other of its key. *)
OtherOf(rows, p, l, o) ==
    /\ o # l /\ ((p[1] = l /\ p[2] = o) \/ (p[1] = o /\ p[2] = l))
    /\ Group(rows, rows[l].pairKey) = {l, o}
    /\ rows[l].mode = "BOTH" /\ rows[l].pairKey # None
    /\ rows[o].mode = "BOTH" /\ rows[o].pairKey = rows[l].pairKey

LEMMA PairOther ==
  ASSUME NEW rows, NEW p \in Pairs(rows), NEW l \in {p[1], p[2]}
  PROVE  \E o : OtherOf(rows, p, l, o)
<1>1. PICK k \in {rows[x].pairKey : x \in StoredIn(rows)} \ {None} : p \in PairsOf(rows, k)
  BY DEF Pairs
<1>2. p[1] \in Group(rows, k) /\ p[2] \in Group(rows, k) /\ p[1] # p[2] /\ Group(rows, k) = {p[1], p[2]}
  BY <1>1 DEF PairsOf
<1>3. /\ rows[p[1]].mode = "BOTH" /\ rows[p[1]].pairKey = k
      /\ rows[p[2]].mode = "BOTH" /\ rows[p[2]].pairKey = k
  BY <1>2 DEF Group
<1>4. CASE l = p[1]
  <2>1. OtherOf(rows, p, l, p[2])
    BY <1>1, <1>2, <1>3, <1>4 DEF OtherOf
  <2> QED BY <2>1
<1>5. CASE l = p[2]
  <2>1. OtherOf(rows, p, l, p[1])
    BY <1>1, <1>2, <1>3, <1>5 DEF OtherOf
  <2> QED BY <2>1
<1> QED BY <1>4, <1>5

(* Two lines that face each other agree as a pair, in either order. *)
LEMMA FacingAgrees ==
  ASSUME NEW rows, NEW p, NEW l, NEW o, (p[1] = l /\ p[2] = o) \/ (p[1] = o /\ p[2] = l),
         rows[l] \in LineRow, rows[o] \in LineRow, Facing(rows[l], rows[o])
  PROVE  Agree(rows, p)
<1>1. Facing(rows[o], rows[l])
  BY FacingBack
<1> QED BY <1>1, AgreeIsFacing

\* What StopsChangeTogether asks of a step.
ChangeTogether ==
    line' # line =>
        \A p \in Pairs(line') : \A l \in {p[1], p[2]} :
            line[l] # None /\ line'[l].stops # line[l].stops => Agree(line', p)

(* An edit of a line's stops reaches the other line of its pair. *)
LEMMA UpdateTogether ==
  ASSUME Inv, NEW u \in LineId, NEW pt \in LinePatch, UpdateLine(u, pt)
  PROVE  ChangeTogether
<1> DEFINE row == NewRow(u, pt)
           mates == Mates(u, pt)
           rows == [line EXCEPT ![u] = row]
<1>1. /\ line[u] \in LineRow /\ row \in LineRow /\ ValidRoute(row)
      /\ mates \subseteq LineId /\ u \notin mates
      /\ \A b \in mates : line[b] \in LineRow /\ ValidRoute(line[b])
      /\ line' = [b \in LineId |-> IF b \in mates THEN MateRow(u, pt, b)
                                   ELSE IF b = u THEN row ELSE line[b]]
      /\ GoodRows(line')
  BY UpdateShape
<1>2. line \in [LineId -> LineRow \cup {None}]
  BY InvRows DEF GoodRows
<1>3. row.stops \in Seq(Stop) /\ IsInjective(StationsOf(row.stops))
  BY <1>1, ValidStops DEF LineRow
<1>4. mates = IF pt.stops # Unset THEN PairedLines(rows, u) ELSE {}
  BY DEF Mates
<1>5. row.stops = Given(pt.stops, line[u].stops)
  BY <1>1, PatchedShape DEF NewRow
<1>6. ASSUME NEW b \in mates
      PROVE  /\ line'[b] \in LineRow /\ line'[b].mode = line[b].mode /\ line'[b].pairKey = line[b].pairKey
             /\ line'[b].departure = line[b].departure /\ line'[b].arrival = line[b].arrival
             /\ line'[b].stops = MirroredStops(line[b], row.stops)
  <2>1. line'[b] = MateRow(u, pt, b)
    BY <1>1
  <2>2. line[b] \in LineRow /\ ValidRoute(line[b])
    BY <1>1
  <2>3. LET new == [line[b] EXCEPT !.stops = MirroredStops(line[b], row.stops)]
        IN /\ new \in LineRow /\ ValidRoute(new)
            /\ new.departure = line[b].departure /\ new.arrival = line[b].arrival
            /\ new.stops = MirroredStops(line[b], row.stops)
            /\ new.mode = line[b].mode /\ new.direction = line[b].direction /\ new.pairKey = line[b].pairKey
    BY <1>3, <2>2, MirroredRow
  <2> QED BY <2>1, <2>3 DEF MateRow
<1> HIDE DEF row, mates
<1>7. \A k : Group(line', k) = Group(rows, k)
  <2>1. DOMAIN rows = LineId /\ DOMAIN line' = LineId
    BY <1>1, <1>2
  <2>2. ASSUME NEW x \in LineId
        PROVE  /\ line'[x] # None <=> rows[x] # None
               /\ rows[x] # None => line'[x].mode = rows[x].mode /\ line'[x].pairKey = rows[x].pairKey
    <3>1. CASE x \in mates
      <4>1. rows[x] = line[x] /\ line[x] # None /\ line'[x] # None
        BY <1>1, <1>2, <1>6, <3>1, RowsAssumption
      <4> QED BY <1>6, <3>1, <4>1
    <3>2. CASE x \notin mates
      <4>1. line'[x] = rows[x]
        BY <1>1, <1>2, <3>2
      <4> QED BY <4>1
    <3> QED BY <3>1, <3>2
  <2> DEFINE new == line'
  <2>3. DOMAIN new = DOMAIN rows
    BY <2>1
  <2>4. \A x \in DOMAIN rows :
          /\ new[x] # None <=> rows[x] # None
          /\ rows[x] # None => new[x].mode = rows[x].mode /\ new[x].pairKey = rows[x].pairKey
    BY <2>1, <2>2
  <2> HIDE DEF new, rows
  <2>5. \A k : Group(new, k) = Group(rows, k)
    BY <2>3, <2>4, GroupsStay
  <2> QED BY <2>5 DEF new
<1>8. rows[u] = row /\ line'[u] = row
  BY <1>1, <1>2
<1>9. ASSUME NEW b \in mates PROVE Facing(line'[u], line'[b])
  <2>1. StationsOf(MirroredStops(line[b], row.stops)) = Keep(Reverse(StationsOf(row.stops)), Between(line[b]))
    BY <1>1, <1>3, MirroredShape
  <2>2. Between(line'[b]) = Between(line[b])
    BY <1>6 DEF Between, NotAnEndpoint
  <2> DEFINE new == line'[b]
  <2>3. new \in LineRow /\ StationsOf(new.stops) = Keep(Reverse(StationsOf(row.stops)), Between(new))
    BY <1>6, <2>1, <2>2
  <2> HIDE DEF new
  <2>4. Facing(row, new)
    BY <1>1, <2>3, MirroredFaces
  <2> QED BY <1>8, <2>4 DEF new
<1> SUFFICES ASSUME NEW p \in Pairs(line'), NEW l \in {p[1], p[2]},
                    line[l] # None, line'[l].stops # line[l].stops
             PROVE  Agree(line', p)
  BY DEF ChangeTogether
<1> DEFINE rows2 == line'
<1>10. PICK o : OtherOf(rows2, p, l, o)
  <2>1. p \in Pairs(rows2)
    OBVIOUS
  <2> HIDE DEF rows2
  <2> QED BY <2>1, PairOther
<1>11. /\ o # l /\ ((p[1] = l /\ p[2] = o) \/ (p[1] = o /\ p[2] = l))
       /\ Group(rows2, rows2[l].pairKey) = {l, o}
       /\ rows2[l].mode = "BOTH" /\ rows2[l].pairKey # None
       /\ rows2[o].mode = "BOTH" /\ rows2[o].pairKey = rows2[l].pairKey
  BY <1>10 DEF OtherOf
<1>12. /\ Group(rows, line'[l].pairKey) = {l, o} /\ l \in LineId /\ o \in LineId
       /\ line'[l] \in LineRow /\ line'[o] \in LineRow
  <2>1. Group(line', line'[l].pairKey) = {l, o}
    BY <1>11
  <2>2. \A x \in {l, o} : x \in LineId /\ line'[x] # None
    BY <1>1, <2>1 DEF Group, StoredIn
  <2> QED BY <1>1, <1>7, <2>1, <2>2 DEF GoodRows
<1>13. l \in mates \/ l = u
  BY <1>1, <1>12
<1>14. pt.stops # Unset
  <2> SUFFICES ASSUME pt.stops = Unset PROVE FALSE
    OBVIOUS
  <2>1. l = u
    BY <1>4, <1>13
  <2>2. row.stops = line[u].stops
    BY <1>5 DEF Given
  <2> QED BY <1>8, <2>1, <2>2
<1>15. CASE l = u
  <2>1. o \in mates
    <3>1. row.mode = "BOTH" /\ row.pairKey # None /\ Group(rows, row.pairKey) = {u, o}
      BY <1>8, <1>11, <1>12, <1>15
    <3>2. PairedLines(rows, u) = {u, o} \ {u}
      BY <1>8, <3>1 DEF PairedLines
    <3>3. o # u
      BY <1>11, <1>15
    <3> QED BY <1>4, <1>14, <3>2, <3>3
  <2>2. Facing(line'[l], line'[o])
    BY <1>9, <1>15, <2>1
  <2> HIDE DEF rows2
  <2>3. rows2[l] \in LineRow /\ rows2[o] \in LineRow /\ Facing(rows2[l], rows2[o])
    BY <1>12, <2>2 DEF rows2
  <2>4. Agree(rows2, p)
    BY <1>11, <2>3, FacingAgrees
  <2> QED BY <2>4 DEF rows2
<1>16. CASE l \in mates
  <2>1. l \in PairedLines(rows, u) /\ l # u
    BY <1>1, <1>4, <1>14, <1>16
  <2>2. l \in Group(rows, rows[u].pairKey) /\ rows[u].mode = "BOTH" /\ rows[u].pairKey # None
    BY <2>1 DEF PairedLines
  <2>3. rows[l].pairKey = rows[u].pairKey /\ rows[l] = line[l] /\ line'[l].pairKey = line[l].pairKey
    <3>1. rows[l] = line[l]
      BY <1>2, <2>1
    <3> QED BY <1>6, <1>16, <2>2, <3>1 DEF Group
  <2>4. rows[u] # None
    BY <1>1, <1>8, RowsAssumption
  <2>5. u \in Group(rows, rows[u].pairKey)
    BY <1>2, <2>2, <2>4 DEF Group, StoredIn
  <2>6. u \in {l, o}
    BY <1>12, <2>3, <2>5
  <2>7. o = u
    BY <2>1, <2>6
  <2>8. Facing(line'[o], line'[l])
    BY <1>9, <1>16, <2>7
  <2> HIDE DEF rows2
  <2>9. rows2[l] \in LineRow /\ rows2[o] \in LineRow /\ Facing(rows2[o], rows2[l])
    BY <1>12, <2>8 DEF rows2
  <2>10. Agree(rows2, p)
    BY <1>11, <2>9, FacingAgrees
  <2> QED BY <2>10 DEF rows2
<1> QED BY <1>13, <1>15, <1>16

(* A repair of a pair rewrites both its lines from one order. *)
LEMMA SyncTogether ==
  ASSUME Inv, NEW q, NEW merged, PairSynced(q, merged)
  PROVE  ChangeTogether
<1> DEFINE f == FirstRow(q, merged)
           g == SecondRow(q, merged)
           K == line[q[1]].pairKey
           rows2 == line'
<1>1. /\ q[1] \in LineId /\ q[2] \in LineId /\ q[1] # q[2]
      /\ line[q[1]] \in LineRow /\ line[q[2]] \in LineRow
      /\ line[q[1]].mode = "BOTH" /\ line[q[2]].mode = "BOTH"
      /\ line[q[1]].pairKey = line[q[2]].pairKey /\ merged \in Seq(Station)
      /\ Group(line, K) = {q[1], q[2]}
  BY DEF PairSynced
<1>2. /\ f \in LineRow /\ g \in LineRow
      /\ f.departure = line[q[1]].departure /\ f.arrival = line[q[1]].arrival
      /\ f.stops = StopsForDirection(line[q[1]], merged, line[q[2]])
      /\ f.mode = "BOTH" /\ f.pairKey = line[q[1]].pairKey
      /\ g.departure = line[q[2]].departure /\ g.arrival = line[q[2]].arrival
      /\ g.stops = StopsForDirection(line[q[2]], Reverse(merged), line[q[1]])
      /\ g.mode = "BOTH" /\ g.pairKey = line[q[2]].pairKey
      /\ Reverse(merged) \in Seq(Station)
      /\ \A x \in LineId : line'[x] = IF x = q[1] THEN f ELSE IF x = q[2] THEN g ELSE line[x]
      /\ GoodRows(line') /\ \A x \in LineId : line[x] # None <=> line'[x] # None
  BY SyncedRows
<1>3. Facing(f, g)
  <2>1. StationsOf(f.stops) = Keep(merged, Between(line[q[1]]))
    BY <1>1, <1>2, DirectionStations
  <2>2. StationsOf(g.stops) = Keep(Reverse(merged), Between(line[q[2]]))
    BY <1>1, <1>2, DirectionStations
  <2>3. Between(f) = Between(line[q[1]]) /\ Between(g) = Between(line[q[2]])
    BY <1>2 DEF Between, NotAnEndpoint
  <2> HIDE DEF f, g
  <2>4. StationsOf(f.stops) = Keep(merged, Between(f)) /\ StationsOf(g.stops) = Keep(Reverse(merged), Between(g))
    BY <2>1, <2>2, <2>3
  <2> QED BY <1>1, <2>4, SyncedFaces
<1> HIDE DEF f, g
<1>4. Group(line', K) = {q[1], q[2]}
  <2>1. line \in [LineId -> LineRow \cup {None}] /\ DOMAIN line' = LineId
    BY <1>2, InvRows DEF GoodRows
  <2>2. ASSUME NEW x \in LineId
        PROVE  /\ line'[x] # None <=> line[x] # None
               /\ line[x] # None => line'[x].mode = line[x].mode /\ line'[x].pairKey = line[x].pairKey
    <3>1. CASE x = q[1]
      BY <1>1, <1>2, <3>1
    <3>2. CASE x = q[2]
      BY <1>1, <1>2, <3>2
    <3>3. CASE x \notin {q[1], q[2]}
      BY <1>2, <3>3
    <3> QED BY <3>1, <3>2, <3>3
  <2> DEFINE old == line
  <2>3. DOMAIN rows2 = DOMAIN old
    BY <2>1
  <2>4. \A x \in DOMAIN old :
          /\ rows2[x] # None <=> old[x] # None
          /\ old[x] # None => rows2[x].mode = old[x].mode /\ rows2[x].pairKey = old[x].pairKey
    BY <2>1, <2>2
  <2>5. Group(old, K) = {q[1], q[2]}
    BY <1>1
  <2> HIDE DEF rows2, old, K
  <2>6. Group(rows2, K) = Group(old, K)
    BY <2>3, <2>4, GroupsStay
  <2>7. Group(rows2, K) = {q[1], q[2]}
    BY <2>5, <2>6
  <2> QED BY <2>7 DEF rows2
<1> SUFFICES ASSUME NEW p \in Pairs(line'), NEW l \in {p[1], p[2]},
                    line[l] # None, line'[l].stops # line[l].stops
             PROVE  Agree(line', p)
  BY DEF ChangeTogether
<1>5. PICK o : OtherOf(rows2, p, l, o)
  <2>1. p \in Pairs(rows2)
    OBVIOUS
  <2> HIDE DEF rows2
  <2> QED BY <2>1, PairOther
<1>6. /\ o # l /\ ((p[1] = l /\ p[2] = o) \/ (p[1] = o /\ p[2] = l))
      /\ Group(line', line'[l].pairKey) = {l, o}
  BY <1>5 DEF OtherOf
<1>7. l \in LineId
  <2>1. l \in Group(line', line'[l].pairKey)
    BY <1>6
  <2> QED BY <1>2, <2>1 DEF Group, StoredIn, GoodRows
<1>8. l \in {q[1], q[2]}
  BY <1>2, <1>7
<1>9. line'[l].pairKey = K
  BY <1>1, <1>2, <1>8
<1>10. {l, o} = {q[1], q[2]}
  BY <1>4, <1>6, <1>9
<1>11. line'[q[1]] = f /\ line'[q[2]] = g
  BY <1>1, <1>2
<1>12. (p[1] = q[1] /\ p[2] = q[2]) \/ (p[1] = q[2] /\ p[2] = q[1])
  BY <1>6, <1>10
<1> HIDE DEF rows2
<1>13. rows2[q[1]] \in LineRow /\ rows2[q[2]] \in LineRow /\ Facing(rows2[q[1]], rows2[q[2]])
  BY <1>2, <1>3, <1>11 DEF rows2
<1>14. Agree(rows2, p)
  BY <1>12, <1>13, FacingAgrees
<1> QED BY <1>14 DEF rows2

LEMMA StepTogether == Inv /\ [Next]_vars => ChangeTogether
<1> SUFFICES ASSUME Inv, [Next]_vars PROVE ChangeTogether
  OBVIOUS
<1>1. ASSUME UNCHANGED line PROVE ChangeTogether
  BY <1>1 DEF ChangeTogether
<1>2. ASSUME \A x \in LineId : line[x] # None => line'[x].stops = line[x].stops, GoodRows(line')
      PROVE  ChangeTogether
  <2> SUFFICES ASSUME NEW p \in Pairs(line'), NEW l \in {p[1], p[2]},
                      line[l] # None, line'[l].stops # line[l].stops
               PROVE  FALSE
    BY DEF ChangeTogether
  <2> DEFINE rows2 == line'
  <2>1. PICK o : OtherOf(rows2, p, l, o)
    <3>1. p \in Pairs(rows2)
      OBVIOUS
    <3> HIDE DEF rows2
    <3> QED BY <3>1, PairOther
  <2>2. l \in Group(line', line'[l].pairKey)
    BY <2>1 DEF OtherOf
  <2>3. l \in LineId
    BY <1>2, <2>2 DEF Group, StoredIn, GoodRows
  <2> QED BY <1>2, <2>3
<1>3. ASSUME NEW input \in LineRow, NEW l \in LineId, NEW b \in LineId, InsertLine(input, l, b)
      PROVE  ChangeTogether
  BY <1>2, <1>3, InsertShape
<1>4. CASE LineOperation
  <2>1. ASSUME NEW input \in NewLines, NEW l \in LineId, NEW b \in LineId, CreateLine(input, l, b)
        PROVE  ChangeTogether
    BY <1>3, <2>1, RowsAssumption DEF CreateLine
  <2>2. ASSUME NEW l \in LineId, NEW p \in LinePatches, UpdateLine(l, p) PROVE ChangeTogether
    BY <2>2, UpdateTogether, RowsAssumption
  <2>3. ASSUME NEW l \in LineId, NEW cascade \in BOOLEAN, RemoveLine(l, cascade) PROVE ChangeTogether
    <3>1. GoodRows(line') /\ \A x \in LineId : line[x] # None => line'[x].stops = line[x].stops
      BY <2>3, RemoveShape
    <3> QED BY <1>2, <3>1
  <2> QED BY <1>4, <2>1, <2>2, <2>3 DEF LineOperation
<1>5. CASE ReverseOperation
  <2>1. ASSUME NEW c \in Caller, NEW l \in LineId, NEW b \in LineId, CommitReverse(c, l, b)
        PROVE  ChangeTogether
    <3>1. call[c].step = "checked" /\ InsertLine(call[c].input, l, b)
      BY <2>1 DEF CommitReverse
    <3>2. call[c].input \in LineRow
      BY <3>1, InvRows DEF CallInput
    <3> QED BY <1>3, <3>1, <3>2
  <2> QED BY <1>1, <1>5, <2>1 DEF ReverseOperation, ReadSource, CheckReverse, ReverseFails
<1>6. CASE RideOperation
  BY <1>1, <1>6, RideShape
<1>7. CASE RepairOperation
  <2>1. ASSUME NEW k \in LineId, SyncPair(k) PROVE ChangeTogether
    BY <1>1, <2>1, SyncShape, SyncTogether
  <2>2. ASSUME NEW r \in RideId, RealignSchedule(r) PROVE ChangeTogether
    BY <1>1, <2>2, RealignOne
  <2> QED BY <1>1, <1>7, <2>1, <2>2 DEF RepairOperation, ScanPairs, ScanSchedules, RepairFails
<1> QED BY <1>1, <1>4, <1>5, <1>6, <1>7 DEF Next, vars

(* Whatever rewrites the stops of one direction of a pair leaves both agreeing,
   for lines of any length: an edit, an edit that pairs the line at the same
   time, or a repair (lines.service.ts syncPairedLineStopsTx,
   paired-directions-agree.ts). *)
THEOREM DirectionsChangeTogether == Spec => StopsChangeTogether
<1>1. Inv /\ [Next]_vars => [ChangeTogether]_vars
  BY StepTogether
<1>2. Spec => [][Next]_vars
  BY DEF Spec
<1>3. [][ChangeTogether]_vars <=> StopsChangeTogether
  BY DEF ChangeTogether, StopsChangeTogether
<1> QED BY <1>1, <1>2, <1>3, InvHolds, PTL

-----------------------------------------------------------------------------
(* What a repair writes over *)

(* A direction given an order that its stops are part of keeps them all. *)
LEMMA DirectionAdds ==
  ASSUME NEW row \in LineRow, NEW other \in LineRow, NEW ordered \in Seq(Station),
         ValidRoute(row), Keep(ordered, ToSet(StationsOf(row.stops))) = StationsOf(row.stops)
  PROVE  IsSubsequence(row.stops, StopsForDirection(row, ordered, other))
<1> DEFINE own == row.stops
           m == StationsOf(own)
           M == ToSet(m)
           O == ToSet(own)
           B == Between(row)
           s == Keep(ordered, B)
<1>1. PICK G : /\ Maps(G, Station, Stop)
               /\ \A x \in Station : G[x].station = x
               /\ \A x \in ToSet(row.stops) : G[x.station] \in ToSet(row.stops)
               /\ StopsForDirection(row, ordered, other) = Through(G, Keep(ordered, Between(row)))
  BY DirectionShape
<1>2. own \in Seq(Stop) /\ Len(own) \in Nat
  BY DEF LineRow
<1>3. m \in Seq(Station) /\ Len(m) = Len(own) /\ (\A i \in 1 .. Len(own) : m[i] = own[i].station)
      /\ M = {x.station : x \in O}
  BY <1>2, StopStations
<1>4. IsInjective(m) /\ M \subseteq B
  <2>1. IsInjective(m) /\ \A x \in M : NotAnEndpoint(row, x)
    BY ValidStops
  <2>2. M \subseteq Station
    BY <1>3, ToSetType
  <2> QED BY <2>1, <2>2 DEF Between
<1>5. s \in Seq(Station) /\ ToSet(s) \subseteq Station
  BY KeepSet, ToSetType
<1>6. \A x \in ToSet(s) : G[x] \in O <=> x \in M
  <2>1. ASSUME NEW x \in ToSet(s), G[x] \in O PROVE x \in M
    <3>1. G[x].station = x
      BY <1>1, <1>5
    <3> QED BY <1>3, <2>1, <3>1
  <2>2. ASSUME NEW x \in ToSet(s), x \in M PROVE G[x] \in O
    BY <1>1, <1>3, <2>2
  <2> QED BY <2>1, <2>2
<1>7. B \cap M = M
  BY <1>4
<1>8. Keep(ordered, M) = m
  OBVIOUS
<1>9. DOMAIN own = 1 .. Len(own) /\ O = {own[i] : i \in 1 .. Len(own)}
  BY <1>2 DEF ToSet
<1>10. Through(G, m) = own
  <2>1. Through(G, m) \in Seq(Stop) /\ Len(Through(G, m)) = Len(m)
        /\ \A i \in 1 .. Len(m) : Through(G, m)[i] = G[m[i]]
    <3> HIDE DEF m
    <3> QED BY <1>1, <1>3, ThroughShape
  <2>2. ASSUME NEW i \in 1 .. Len(own) PROVE G[m[i]] = own[i]
    <3>1. own[i] \in O /\ m[i] = own[i].station
      BY <1>3, <1>9
    <3>2. G[m[i]] \in O
      BY <1>1, <3>1
    <3>3. PICK j \in 1 .. Len(own) : G[m[i]] = own[j]
      BY <1>9, <3>2
    <3>4. m[i] \in Station
      BY <1>3
    <3>5. m[j] = m[i]
      BY <1>1, <1>3, <3>3, <3>4
    <3>6. j = i
      BY <1>3, <1>4, <3>5 DEF IsInjective
    <3> QED BY <3>3, <3>6
  <2> DEFINE t == Through(G, m)
  <2>3. t \in Seq(Stop) /\ Len(t) = Len(own) /\ \A i \in 1 .. Len(own) : t[i] = own[i]
    BY <1>3, <2>1, <2>2
  <2> HIDE DEF t, own, m
  <2>4. t = own
    BY <1>2, <2>3, SeqEqual
  <2> QED BY <2>4 DEF t
<1> HIDE DEF O, M, B, m, own
<1>11. Keep(s, M) = Keep(ordered, B \cap M)
  BY KeepKeep
<1> HIDE DEF s
<1>12. Keep(Through(G, s), O) = Through(G, Keep(s, M))
  BY <1>1, <1>5, <1>6, KeepThrough
<1>13. Keep(Through(G, s), O) = own
  BY <1>7, <1>8, <1>10, <1>11, <1>12
<1> QED BY <1>1, <1>13 DEF IsSubsequence, s, O, B, own

\* What RepairOnlyAdds asks of a step.
OnlyAdds ==
    repair'.pairs # repair.pairs
    => \A l \in StoredIn(line) : IsSubsequence(line[l].stops, line'[l].stops)

LEMMA StepAdds == Inv /\ [Next]_vars => OnlyAdds
<1> SUFFICES ASSUME Inv, [Next]_vars PROVE OnlyAdds
  OBVIOUS
<1>1. /\ line \in [LineId -> LineRow \cup {None}]
      /\ \A x \in LineId : line[x] # None => line[x] \in LineRow /\ line[x].stops \in Seq(Stop)
      /\ repair \in [pairs: SUBSET LineId, rides: SUBSET RideId]
  BY InvRows DEF GoodRows, LineRow
<1>2. ASSUME NEW x \in LineId, line[x] # None PROVE IsSubsequence(line[x].stops, line[x].stops)
  BY <1>1, <1>2, KeepAll DEF IsSubsequence
<1>3. ASSUME UNCHANGED line PROVE OnlyAdds
  BY <1>1, <1>2, <1>3 DEF OnlyAdds, StoredIn
<1>4. ASSUME repair'.pairs = repair.pairs PROVE OnlyAdds
  BY <1>4 DEF OnlyAdds
<1>5. CASE LineOperation
  BY <1>4, <1>5 DEF LineOperation, CreateLine, UpdateLine, RemoveLine
<1>6. CASE ReverseOperation
  BY <1>4, <1>6 DEF ReverseOperation, ReadSource, CheckReverse, ReverseFails, CommitReverse
<1>7. CASE RideOperation
  BY <1>3, <1>7, RideShape
<1>8. CASE RepairOperation
  <2>1. ASSUME NEW k \in LineId, SyncPair(k) PROVE OnlyAdds
    <3>1. ASSUME NEW p, NEW merged, PairSynced(p, merged) PROVE OnlyAdds
      <4> DEFINE a == line[p[1]]
                 b == line[p[2]]
                 r == Reverse(merged)
      <4>1. /\ p[1] \in LineId /\ p[2] \in LineId /\ a \in LineRow /\ b \in LineRow
            /\ ValidRoute(a) /\ ValidRoute(b) /\ merged \in MergedStops(line, p)
            /\ merged \in Seq(Station)
        BY <3>1 DEF PairSynced
      <4>2. /\ Keep(merged, ToSet(StationsOf(a.stops))) = StationsOf(a.stops)
            /\ Keep(r, ToSet(StationsOf(b.stops))) = StationsOf(b.stops)
        BY <4>1, MergedShape
      <4>3. /\ FirstRow(p, merged).stops = StopsForDirection(a, merged, b)
            /\ SecondRow(p, merged).stops = StopsForDirection(b, r, a)
            /\ r \in Seq(Station)
            /\ \A x \in LineId : line'[x] = IF x = p[1] THEN FirstRow(p, merged)
                                            ELSE IF x = p[2] THEN SecondRow(p, merged) ELSE line[x]
        BY <3>1, SyncedRows
      <4> HIDE DEF a, b, r
      <4>4. IsSubsequence(a.stops, StopsForDirection(a, merged, b))
        BY <4>1, <4>2, DirectionAdds
      <4>5. IsSubsequence(b.stops, StopsForDirection(b, r, a))
        BY <4>1, <4>2, <4>3, DirectionAdds
      <4>6. ASSUME NEW x \in StoredIn(line) PROVE IsSubsequence(line[x].stops, line'[x].stops)
        <5>1. x \in LineId /\ line[x] # None
          BY <1>1 DEF StoredIn
        <5>2. CASE x = p[1]
          BY <4>3, <4>4, <5>1, <5>2 DEF a
        <5>3. CASE x # p[1] /\ x = p[2]
          BY <4>3, <4>5, <5>1, <5>3 DEF b
        <5>4. CASE x # p[1] /\ x # p[2]
          <6>1. line'[x] = line[x]
            BY <4>3, <5>1, <5>4
          <6> QED BY <1>2, <5>1, <6>1
        <5> QED BY <5>2, <5>3, <5>4
      <4> QED BY <4>6 DEF OnlyAdds
    <3> QED BY <1>3, <2>1, <3>1, SyncShape
  <2>2. ASSUME NEW r \in RideId, RealignSchedule(r) PROVE OnlyAdds
    BY <1>3, <2>2, RealignOne
  <2> QED BY <1>3, <1>8, <2>1, <2>2 DEF RepairOperation, ScanPairs, ScanSchedules, RepairFails
<1> QED BY <1>3, <1>5, <1>6, <1>7, <1>8 DEF Next, vars

(* A repair only fills in what a direction misses: every stop it had stays, in
   its order and with its own boarding rules, from a stale scan or for two
   directions that disagree (paired-directions-agree.ts syncDriftedPairs,
   stopsForDirection). *)
THEOREM RepairsOnlyAdd == Spec => RepairOnlyAdds
<1>1. Inv /\ [Next]_vars => [OnlyAdds]_vars
  BY StepAdds
<1>2. Spec => [][Next]_vars
  BY DEF Spec
<1>3. [][OnlyAdds]_vars <=> RepairOnlyAdds
  BY DEF OnlyAdds, RepairOnlyAdds
<1> QED BY <1>1, <1>2, <1>3, InvHolds, PTL

-----------------------------------------------------------------------------
(* The table of the longest common subsequences *)

\* What a cell of either table is, given the cells after it.
LengthAt(L, before, after, c) ==
    IF AtEnd(before, after, c) THEN 0
    ELSE IF before[c[1]] = after[c[2]] THEN L[Diagonal(c)] + 1
    ELSE IF L[Down(c)] >= L[Right(c)] THEN L[Down(c)] ELSE L[Right(c)]

KeptAt(K, L, before, after, c) ==
    IF AtEnd(before, after, c) THEN {}
    ELSE IF before[c[1]] = after[c[2]] THEN {before[c[1]]} \cup K[Diagonal(c)]
    ELSE IF L[Down(c)] >= L[Right(c)] THEN K[Down(c)] ELSE K[Right(c)]

IsLengths(L, before, after) ==
    L = [c \in Cells(before, after) |-> LengthAt(L, before, after, c)]

IsWalk(K, L, before, after) ==
    K = [c \in Cells(before, after) |-> KeptAt(K, L, before, after, c)]

\* How much of both orders is left at a cell.
Left(before, after, c) == (Len(before) + 1 - c[1]) + (Len(after) + 1 - c[2])

(* A cell that is not at an end has three cells after it, with less left. *)
LEMMA CellShape ==
  ASSUME NEW b, NEW a, Len(b) \in Nat, Len(a) \in Nat, NEW c \in Cells(b, a)
  PROVE  /\ c[1] \in 1 .. Len(b) + 1 /\ c[2] \in 1 .. Len(a) + 1
         /\ Left(b, a, c) \in Nat /\ Left(b, a, c) <= Len(b) + Len(a)
         /\ ~AtEnd(b, a, c) =>
               /\ c[1] \in 1 .. Len(b) /\ c[2] \in 1 .. Len(a)
               /\ Down(c) \in Cells(b, a) /\ Left(b, a, Down(c)) < Left(b, a, c)
               /\ Right(c) \in Cells(b, a) /\ Left(b, a, Right(c)) < Left(b, a, c)
               /\ Diagonal(c) \in Cells(b, a) /\ Left(b, a, Diagonal(c)) < Left(b, a, c)
         /\ AtEnd(b, a, c) => c[1] = Len(b) + 1 \/ c[2] = Len(a) + 1
         /\ Down(c)[1] = c[1] + 1 /\ Down(c)[2] = c[2]
         /\ Right(c)[1] = c[1] /\ Right(c)[2] = c[2] + 1
         /\ Diagonal(c)[1] = c[1] + 1 /\ Diagonal(c)[2] = c[2] + 1
<1>1. c[1] \in 1 .. Len(b) + 1 /\ c[2] \in 1 .. Len(a) + 1
  BY DEF Cells
<1>2. /\ Down(c)[1] = c[1] + 1 /\ Down(c)[2] = c[2]
      /\ Right(c)[1] = c[1] /\ Right(c)[2] = c[2] + 1
      /\ Diagonal(c)[1] = c[1] + 1 /\ Diagonal(c)[2] = c[2] + 1
  BY DEF Down, Right, Diagonal
<1> DEFINE x == c[1]
           y == c[2]
           m == Len(b)
           n == Len(a)
<1>3. Left(b, a, c) \in Nat /\ Left(b, a, c) <= Len(b) + Len(a)
  <2>1. x \in 1 .. m + 1 /\ y \in 1 .. n + 1 /\ m \in Nat /\ n \in Nat
        /\ Left(b, a, c) = (m + 1 - x) + (n + 1 - y)
    BY <1>1 DEF Left
  <2> HIDE DEF x, y, m, n
  <2>2. Left(b, a, c) \in Nat /\ Left(b, a, c) <= m + n
    BY <2>1
  <2> QED BY <2>2 DEF m, n
<1>4. AtEnd(b, a, c) => c[1] = Len(b) + 1 \/ c[2] = Len(a) + 1
  BY <1>1 DEF AtEnd
<1>5. ASSUME ~AtEnd(b, a, c) PROVE c[1] \in 1 .. Len(b) /\ c[2] \in 1 .. Len(a)
  BY <1>1, <1>5 DEF AtEnd
<1>6. ASSUME ~AtEnd(b, a, c)
      PROVE  Down(c) \in Cells(b, a) /\ Right(c) \in Cells(b, a) /\ Diagonal(c) \in Cells(b, a)
  <2>1. c[1] + 1 \in 1 .. Len(b) + 1 /\ c[2] + 1 \in 1 .. Len(a) + 1
    BY <1>5, <1>6
  <2> QED BY <1>1, <2>1 DEF Down, Right, Diagonal, Cells
<1>7. ASSUME ~AtEnd(b, a, c)
      PROVE  /\ Left(b, a, Down(c)) < Left(b, a, c) /\ Left(b, a, Right(c)) < Left(b, a, c)
             /\ Left(b, a, Diagonal(c)) < Left(b, a, c)
  <2>1. /\ x \in 1 .. m + 1 /\ y \in 1 .. n + 1 /\ m \in Nat /\ n \in Nat
        /\ Left(b, a, c) = (m + 1 - x) + (n + 1 - y)
        /\ Left(b, a, Down(c)) = (m + 1 - (x + 1)) + (n + 1 - y)
        /\ Left(b, a, Right(c)) = (m + 1 - x) + (n + 1 - (y + 1))
        /\ Left(b, a, Diagonal(c)) = (m + 1 - (x + 1)) + (n + 1 - (y + 1))
    BY <1>1, <1>2 DEF Left
  <2> HIDE DEF x, y, m, n
  <2> QED BY <2>1
<1> QED BY <1>1, <1>2, <1>3, <1>4, <1>5, <1>6, <1>7

(* Both tables exist: they are filled by how much is left. *)
LEMMA LengthsExist ==
  ASSUME NEW b, NEW a, Len(b) \in Nat, Len(a) \in Nat
  PROVE  \E L : IsLengths(L, b, a)
<1> DEFINE X == Cells(b, a)
           Solves(L, n) == \A c \in X : Left(b, a, c) <= n => L[c] = LengthAt(L, b, a, c)
           P == {n \in Nat : \E L : L = [c \in X |-> L[c]] /\ Solves(L, n)}
<1>1. ASSUME NEW n \in Nat, NEW L, L = [c \in X |-> L[c]],
             \A c \in X : Left(b, a, c) < n => L[c] = LengthAt(L, b, a, c)
      PROVE  n \in P
  <2> DEFINE M == [c \in X |-> IF Left(b, a, c) = n THEN LengthAt(L, b, a, c) ELSE L[c]]
  <2>1. \A c \in X : M[c] = IF Left(b, a, c) = n THEN LengthAt(L, b, a, c) ELSE L[c]
    OBVIOUS
  <2>2. M = [c \in X |-> M[c]]
    OBVIOUS
  <2> HIDE DEF M
  <2>3. ASSUME NEW c \in X, Left(b, a, c) <= n PROVE M[c] = LengthAt(M, b, a, c)
    <3>1. LengthAt(M, b, a, c) = LengthAt(L, b, a, c)
      <4>1. CASE AtEnd(b, a, c)
        BY <4>1 DEF LengthAt
      <4>2. CASE ~AtEnd(b, a, c)
        <5>1. /\ Down(c) \in X /\ Left(b, a, Down(c)) < Left(b, a, c)
              /\ Right(c) \in X /\ Left(b, a, Right(c)) < Left(b, a, c)
              /\ Diagonal(c) \in X /\ Left(b, a, Diagonal(c)) < Left(b, a, c)
              /\ Left(b, a, c) \in Nat
          BY <4>2, CellShape
        <5>2. /\ Left(b, a, Down(c)) \in Nat /\ Left(b, a, Right(c)) \in Nat
              /\ Left(b, a, Diagonal(c)) \in Nat
          BY <5>1, CellShape
        <5>3. M[Down(c)] = L[Down(c)] /\ M[Right(c)] = L[Right(c)] /\ M[Diagonal(c)] = L[Diagonal(c)]
          BY <2>1, <2>3, <5>1, <5>2
        <5> QED BY <5>3 DEF LengthAt
      <4> QED BY <4>1, <4>2
    <3>2. CASE Left(b, a, c) = n
      BY <2>1, <3>1, <3>2
    <3>3. CASE Left(b, a, c) # n
      <4>1. Left(b, a, c) < n
        BY <2>3, <3>3, CellShape
      <4> QED BY <1>1, <2>1, <3>1, <3>3, <4>1
    <3> QED BY <3>2, <3>3
  <2> QED BY <2>2, <2>3
<1>2. 0 \in P
  <2> DEFINE L == [c \in X |-> 0]
  <2>1. L = [c \in X |-> L[c]]
    OBVIOUS
  <2>2. \A c \in X : ~(Left(b, a, c) < 0)
    BY CellShape
  <2> HIDE DEF L, P
  <2> QED BY <1>1, <2>1, <2>2
<1>3. ASSUME NEW n \in Nat, n \in P PROVE n + 1 \in P
  <2>1. PICK L : L = [c \in X |-> L[c]] /\ Solves(L, n)
    BY <1>3
  <2>2. \A c \in X : Left(b, a, c) < n + 1 => Left(b, a, c) <= n
    BY CellShape
  <2>3. \A c \in X : Left(b, a, c) < n + 1 => L[c] = LengthAt(L, b, a, c)
    BY <2>1, <2>2
  <2> HIDE DEF P
  <2> QED BY <1>1, <2>1, <2>3
<1> HIDE DEF P
<1>4. Nat \subseteq P
  BY <1>2, <1>3, NatAll
<1>5. Len(b) + Len(a) \in P
  BY <1>4
<1>6. PICK L : L = [c \in X |-> L[c]] /\ Solves(L, Len(b) + Len(a))
  BY <1>5 DEF P
<1>7. \A c \in X : L[c] = LengthAt(L, b, a, c)
  BY <1>6, CellShape
<1>8. L = [c \in X |-> LengthAt(L, b, a, c)]
  <2> HIDE DEF X
  <2> QED BY <1>6, <1>7
<1> QED BY <1>8 DEF IsLengths

LEMMA WalkExists ==
  ASSUME NEW b, NEW a, NEW L, Len(b) \in Nat, Len(a) \in Nat
  PROVE  \E K : IsWalk(K, L, b, a)
<1> DEFINE X == Cells(b, a)
           Solves(K, n) == \A c \in X : Left(b, a, c) <= n => K[c] = KeptAt(K, L, b, a, c)
           P == {n \in Nat : \E K : K = [c \in X |-> K[c]] /\ Solves(K, n)}
<1>1. ASSUME NEW n \in Nat, NEW K, K = [c \in X |-> K[c]],
             \A c \in X : Left(b, a, c) < n => K[c] = KeptAt(K, L, b, a, c)
      PROVE  n \in P
  <2> DEFINE M == [c \in X |-> IF Left(b, a, c) = n THEN KeptAt(K, L, b, a, c) ELSE K[c]]
  <2>1. \A c \in X : M[c] = IF Left(b, a, c) = n THEN KeptAt(K, L, b, a, c) ELSE K[c]
    OBVIOUS
  <2>2. M = [c \in X |-> M[c]]
    OBVIOUS
  <2> HIDE DEF M
  <2>3. ASSUME NEW c \in X, Left(b, a, c) <= n PROVE M[c] = KeptAt(M, L, b, a, c)
    <3>1. KeptAt(M, L, b, a, c) = KeptAt(K, L, b, a, c)
      <4>1. CASE AtEnd(b, a, c)
        BY <4>1 DEF KeptAt
      <4>2. CASE ~AtEnd(b, a, c)
        <5>1. /\ Down(c) \in X /\ Left(b, a, Down(c)) < Left(b, a, c)
              /\ Right(c) \in X /\ Left(b, a, Right(c)) < Left(b, a, c)
              /\ Diagonal(c) \in X /\ Left(b, a, Diagonal(c)) < Left(b, a, c)
              /\ Left(b, a, c) \in Nat
          BY <4>2, CellShape
        <5>2. /\ Left(b, a, Down(c)) \in Nat /\ Left(b, a, Right(c)) \in Nat
              /\ Left(b, a, Diagonal(c)) \in Nat
          BY <5>1, CellShape
        <5>3. M[Down(c)] = K[Down(c)] /\ M[Right(c)] = K[Right(c)] /\ M[Diagonal(c)] = K[Diagonal(c)]
          BY <2>1, <2>3, <5>1, <5>2
        <5> QED BY <5>3 DEF KeptAt
      <4> QED BY <4>1, <4>2
    <3>2. CASE Left(b, a, c) = n
      BY <2>1, <3>1, <3>2
    <3>3. CASE Left(b, a, c) # n
      <4>1. Left(b, a, c) < n
        BY <2>3, <3>3, CellShape
      <4> QED BY <1>1, <2>1, <3>1, <3>3, <4>1
    <3> QED BY <3>2, <3>3
  <2> QED BY <2>2, <2>3
<1>2. 0 \in P
  <2> DEFINE K == [c \in X |-> {}]
  <2>1. K = [c \in X |-> K[c]]
    OBVIOUS
  <2>2. \A c \in X : ~(Left(b, a, c) < 0)
    BY CellShape
  <2> HIDE DEF K, P
  <2> QED BY <1>1, <2>1, <2>2
<1>3. ASSUME NEW n \in Nat, n \in P PROVE n + 1 \in P
  <2>1. PICK K : K = [c \in X |-> K[c]] /\ Solves(K, n)
    BY <1>3
  <2>2. \A c \in X : Left(b, a, c) < n + 1 => Left(b, a, c) <= n
    BY CellShape
  <2>3. \A c \in X : Left(b, a, c) < n + 1 => K[c] = KeptAt(K, L, b, a, c)
    BY <2>1, <2>2
  <2> HIDE DEF P
  <2> QED BY <1>1, <2>1, <2>3
<1> HIDE DEF P
<1>4. Nat \subseteq P
  BY <1>2, <1>3, NatAll
<1>5. Len(b) + Len(a) \in P
  BY <1>4
<1>6. PICK K : K = [c \in X |-> K[c]] /\ Solves(K, Len(b) + Len(a))
  BY <1>5 DEF P
<1>7. \A c \in X : K[c] = KeptAt(K, L, b, a, c)
  BY <1>6, CellShape
<1>8. K = [c \in X |-> KeptAt(K, L, b, a, c)]
  <2> HIDE DEF X
  <2> QED BY <1>6, <1>7
<1> QED BY <1>8 DEF IsWalk


(* So the recursive definitions are tables of that kind. *)
LEMMA LengthsDefined ==
  ASSUME NEW b, NEW a, Len(b) \in Nat, Len(a) \in Nat
  PROVE  IsLengths(CommonLength(b, a), b, a)
<1>1. CommonLength(b, a) = CHOOSE L : IsLengths(L, b, a)
  BY DEF CommonLength, IsLengths, LengthAt
<1> QED BY <1>1, LengthsExist

LEMMA WalkDefined ==
  ASSUME NEW b, NEW a, Len(b) \in Nat, Len(a) \in Nat
  PROVE  \E K : /\ IsWalk(K, CommonLength(b, a), b, a)
                /\ ReorderedStations(b, a) = ToSet(b) \ K[<<1, 1>>]
<1> DEFINE K == CHOOSE K : IsWalk(K, CommonLength(b, a), b, a)
<1>1. ReorderedStations(b, a) = ToSet(b) \ K[<<1, 1>>]
  BY DEF ReorderedStations, IsWalk, KeptAt
<1>2. IsWalk(K, CommonLength(b, a), b, a)
  BY WalkExists
<1> QED BY <1>1, <1>2

-----------------------------------------------------------------------------
(* The tails of an order *)

From(s, i) == [k \in 1 .. Len(s) + 1 - i |-> s[k + i - 1]]

(* Equal lists with one element put before have equal rests. *)
LEMMA ConsEqual ==
  ASSUME NEW T, NEW s \in Seq(T), NEW t \in Seq(T), NEW e \in T, NEW f \in T,
         <<e>> \o s = <<f>> \o t
  PROVE  e = f /\ s = t
<1> DEFINE u == <<e>> \o s
           v == <<f>> \o t
<1>1. /\ Len(s) \in Nat /\ Len(t) \in Nat
      /\ Len(u) = Len(s) + 1 /\ u[1] = e /\ \A i \in 1 .. Len(s) : u[i + 1] = s[i]
      /\ Len(v) = Len(t) + 1 /\ v[1] = f /\ \A i \in 1 .. Len(t) : v[i + 1] = t[i]
  OBVIOUS
<1>2. u = v
  OBVIOUS
<1> HIDE DEF u, v
<1>3. e = f /\ Len(s) = Len(t) /\ \A i \in 1 .. Len(s) : s[i] = t[i]
  BY <1>1, <1>2
<1> QED BY <1>3, SeqEqual

(* A tail is its first element and the next tail. *)
LEMMA FromShape ==
  ASSUME NEW T, NEW s \in Seq(T), NEW i \in 1 .. Len(s)
  PROVE  /\ From(s, i) = <<s[i]>> \o From(s, i + 1) /\ s[i] \in T
         /\ From(s, i) \in Seq(T) /\ From(s, i + 1) \in Seq(T)
<1> DEFINE u == From(s, i)
           v == From(s, i + 1)
           n == Len(s)
           e == s[i]
           w == <<e>> \o v
<1>1. n \in Nat /\ e \in T /\ i \in 1 .. n
  OBVIOUS
<1>2. /\ n + 1 - i \in Nat /\ n + 1 - (i + 1) \in Nat
      /\ (\A k \in 1 .. n + 1 - i : k + i - 1 \in 1 .. n)
      /\ (\A k \in 1 .. n + 1 - (i + 1) : k + (i + 1) - 1 \in 1 .. n)
  BY <1>1
<1>3. u \in [1 .. n + 1 - i -> T] /\ v \in [1 .. n + 1 - (i + 1) -> T]
  BY <1>2 DEF From
<1>4. u \in Seq(T) /\ v \in Seq(T) /\ Len(u) = n + 1 - i /\ Len(v) = n + 1 - (i + 1)
  <2> DEFINE p == n + 1 - i
             q == n + 1 - (i + 1)
  <2>1. p \in Nat /\ q \in Nat /\ u \in [1 .. p -> T] /\ v \in [1 .. q -> T]
    BY <1>2, <1>3
  <2> HIDE DEF u, v, p, q
  <2>2. u \in Seq(T) /\ v \in Seq(T) /\ Len(u) = p /\ Len(v) = q
    BY <2>1
  <2> QED BY <2>2 DEF p, q
<1>5. u[1] = e
  <2>1. u[1] = s[1 + i - 1] /\ 1 + i - 1 = i
    BY <1>1, <1>2 DEF From
  <2> QED BY <2>1
<1>6. \A k \in 1 .. Len(v) : u[k + 1] = v[k]
  <2> SUFFICES ASSUME NEW k \in 1 .. n + 1 - (i + 1) PROVE u[k + 1] = v[k]
    BY <1>4
  <2>1. k + 1 \in 1 .. n + 1 - i /\ (k + 1) + i - 1 = k + (i + 1) - 1
    BY <1>1
  <2> QED BY <2>1 DEF From
<1> HIDE DEF u, v, e
<1>7. /\ w \in Seq(T) /\ Len(w) = Len(v) + 1 /\ w[1] = e
      /\ \A k \in 1 .. Len(v) : w[k + 1] = v[k]
  BY <1>1, <1>4
<1> HIDE DEF w, n
<1>8. ASSUME NEW k \in 1 .. Len(u) PROVE u[k] = w[k]
  <2>1. CASE k = 1
    BY <1>5, <1>7, <2>1
  <2>2. CASE k # 1
    <3>1. k - 1 \in 1 .. Len(v) /\ (k - 1) + 1 = k
      BY <1>1, <1>4, <2>2
    <3>2. u[(k - 1) + 1] = w[(k - 1) + 1]
      BY <1>6, <1>7, <3>1
    <3> QED BY <3>1, <3>2
  <2> QED BY <2>1, <2>2
<1>9. u = w
  <2>1. Len(u) = Len(w)
    BY <1>1, <1>4, <1>7
  <2> QED BY <1>4, <1>7, <1>8, <2>1, SeqEqual
<1> QED BY <1>1, <1>4, <1>9 DEF u, v, w, e

(* The first tail is the order itself, the last one empty; no element of an
   injective order is in the tail after it. *)
LEMMA FromEnds ==
  ASSUME NEW T, NEW s \in Seq(T)
  PROVE  From(s, 1) = s /\ From(s, Len(s) + 1) = <<>>
<1>1. Len(s) \in Nat /\ s = [k \in 1 .. Len(s) |-> s[k]]
  OBVIOUS
<1>2. \A k \in 1 .. Len(s) : k + 1 - 1 = k
  OBVIOUS
<1>3. From(s, 1) = s
  BY <1>1, <1>2 DEF From
<1>4. From(s, Len(s) + 1) = <<>>
  <2>1. 1 .. Len(s) + 1 - (Len(s) + 1) = {}
    BY <1>1
  <2> QED BY <2>1 DEF From
<1> QED BY <1>3, <1>4

LEMMA FromSet ==
  ASSUME NEW T, NEW s \in Seq(T), NEW i \in 1 .. Len(s)
  PROVE  /\ ToSet(From(s, i)) = {s[i]} \cup ToSet(From(s, i + 1))
         /\ IsInjective(s) => s[i] \notin ToSet(From(s, i + 1))
<1> DEFINE e == s[i]
           u == From(s, i)
           v == From(s, i + 1)
<1>1. u = <<e>> \o v /\ e \in T /\ v \in Seq(T) /\ u \in Seq(T)
  BY FromShape
<1>2. ToSet(u) = {e} \cup ToSet(v)
  <2> HIDE DEF u, v, e
  <2> DEFINE w == <<e>> \o v
  <2>1. /\ Len(v) \in Nat /\ Len(w) = Len(v) + 1 /\ w[1] = e
        /\ (\A k \in 1 .. Len(v) : w[k + 1] = v[k])
        /\ DOMAIN w = 1 .. Len(w) /\ DOMAIN v = 1 .. Len(v)
    BY <1>1
  <2>2. w = u
    BY <1>1
  <2> HIDE DEF w
  <2>3. ASSUME NEW x \in ToSet(w) PROVE x \in {e} \cup ToSet(v)
    <3>1. PICK k \in 1 .. Len(w) : x = w[k]
      BY <2>1, <2>3 DEF ToSet
    <3>2. CASE k = 1
      BY <2>1, <3>1, <3>2
    <3>3. CASE k # 1
      <4>1. k - 1 \in 1 .. Len(v) /\ (k - 1) + 1 = k
        BY <2>1, <3>3
      <4>2. x = v[k - 1]
        BY <2>1, <3>1, <4>1
      <4> QED BY <2>1, <4>1, <4>2 DEF ToSet
    <3> QED BY <3>2, <3>3
  <2>4. e \in ToSet(w)
    BY <2>1 DEF ToSet
  <2>5. ASSUME NEW x \in ToSet(v) PROVE x \in ToSet(w)
    <3>1. PICK k \in 1 .. Len(v) : x = v[k]
      BY <2>1, <2>5 DEF ToSet
    <3>2. k + 1 \in 1 .. Len(w) /\ w[k + 1] = x
      BY <2>1, <3>1
    <3> QED BY <2>1, <3>2 DEF ToSet
  <2> QED BY <2>2, <2>3, <2>4, <2>5
<1>3. ASSUME IsInjective(s), e \in ToSet(v) PROVE FALSE
  <2>1. Len(s) \in Nat /\ i \in 1 .. Len(s) /\ Len(s) + 1 - (i + 1) \in Nat
    OBVIOUS
  <2>2. v = [k \in 1 .. Len(s) + 1 - (i + 1) |-> s[k + (i + 1) - 1]]
    BY DEF From
  <2> HIDE DEF v
  <2>3. PICK k \in 1 .. Len(s) + 1 - (i + 1) : e = v[k]
    BY <1>3, <2>2 DEF ToSet
  <2>4. k + (i + 1) - 1 \in 1 .. Len(s) /\ k + (i + 1) - 1 # i /\ e = s[k + (i + 1) - 1]
    BY <2>1, <2>2, <2>3
  <2> QED BY <1>3, <2>1, <2>4 DEF IsInjective
<1> QED BY <1>2, <1>3 DEF u, v, e

(* What is kept of a tail. *)
LEMMA FromKeep ==
  ASSUME NEW T, NEW s \in Seq(T), NEW i \in 1 .. Len(s), NEW C
  PROVE  /\ s[i] \in C => Keep(From(s, i), C) = <<s[i]>> \o Keep(From(s, i + 1), C)
         /\ s[i] \notin C => Keep(From(s, i), C) = Keep(From(s, i + 1), C)
         /\ Keep(From(s, i + 1), C) \in Seq(T)
<1> DEFINE e == s[i]
           u == From(s, i)
           v == From(s, i + 1)
<1>1. u = <<e>> \o v /\ e \in T /\ v \in Seq(T)
  BY FromShape
<1> HIDE DEF u, v, e
<1>2. Keep(<<e>> \o v, C) = IF e \in C THEN <<e>> \o Keep(v, C) ELSE Keep(v, C)
  BY <1>1, KeepCons
<1>3. Keep(v, C) \in Seq(T)
  BY <1>1, KeepSet
<1>4. /\ e \in C => Keep(u, C) = <<e>> \o Keep(v, C)
      /\ e \notin C => Keep(u, C) = Keep(v, C)
  BY <1>1, <1>2
<1> QED BY <1>3, <1>4 DEF u, v, e

-----------------------------------------------------------------------------
(* What two orders have in common from a cell on *)

\* The elements of C are in both tails, in one order.
Common(b, a, c, C) ==
    /\ C \subseteq ToSet(From(b, c[1])) /\ C \subseteq ToSet(From(a, c[2]))
    /\ Keep(From(b, c[1]), C) = Keep(From(a, c[2]), C)

(* At an end nothing is common but nothing. *)
LEMMA CommonEnd ==
  ASSUME NEW b \in Seq(Station), NEW a \in Seq(Station), NEW c \in Cells(b, a), AtEnd(b, a, c)
  PROVE  \A C : Common(b, a, c, C) <=> C = {}
<1>1. c[1] = Len(b) + 1 \/ c[2] = Len(a) + 1
  BY CellShape
<1>2. ToSet(From(b, c[1])) = {} \/ ToSet(From(a, c[2])) = {}
  BY <1>1, FromEnds, ToSetEmpty
<1>3. ASSUME NEW s \in Seq(Station) PROVE Keep(s, {}) = <<>>
  <2>1. Keep(s, {}) \in Seq(Station) /\ ToSet(Keep(s, {})) = {}
    BY KeepSet
  <2> DEFINE k == Keep(s, {})
  <2> HIDE DEF k
  <2>2. k \in Seq(Station) /\ ToSet(k) = {}
    BY <2>1 DEF k
  <2>3. Len(k) = 0
    <3>1. DOMAIN k = 1 .. Len(k) /\ Len(k) \in Nat
      BY <2>2
    <3>2. \A n \in 1 .. Len(k) : k[n] \in ToSet(k)
      BY <3>1 DEF ToSet
    <3> QED BY <2>2, <3>1, <3>2
  <2>4. k = <<>>
    BY <2>2, <2>3
  <2> QED BY <2>4 DEF k
<1>4. From(b, c[1]) \in Seq(Station) /\ From(a, c[2]) \in Seq(Station)
  <2>1. ASSUME NEW s \in Seq(Station), NEW i \in 1 .. Len(s) + 1 PROVE From(s, i) \in Seq(Station)
    <3>1. CASE i \in 1 .. Len(s)
      BY <3>1, FromShape
    <3>2. CASE i = Len(s) + 1
      BY <3>2, FromEnds, EmptySeq
    <3> QED BY <3>1, <3>2
  <2> QED BY <2>1 DEF Cells
<1> QED BY <1>2, <1>3, <1>4 DEF Common

(* Where both orders go on with the same element, it can be added to what is
   common after it, and taken away from what is common so far. *)
LEMMA CommonSame ==
  ASSUME NEW b \in Seq(Station), NEW a \in Seq(Station), IsInjective(b), IsInjective(a),
         NEW c \in Cells(b, a), ~AtEnd(b, a, c), b[c[1]] = a[c[2]], NEW C
  PROVE  /\ Common(b, a, Diagonal(c), C) => b[c[1]] \notin C /\ Common(b, a, c, C \cup {b[c[1]]})
         /\ Common(b, a, c, C) => Common(b, a, Diagonal(c), C \ {b[c[1]]})
<1> DEFINE i == c[1]
           j == c[2]
           e == b[i]
           B == From(b, i + 1)
           A == From(a, j + 1)
<1>1. i \in 1 .. Len(b) /\ j \in 1 .. Len(a) /\ Diagonal(c)[1] = i + 1 /\ Diagonal(c)[2] = j + 1
  BY CellShape
<1>2. /\ B \in Seq(Station) /\ A \in Seq(Station) /\ e \in Station
      /\ ToSet(From(b, i)) = {e} \cup ToSet(B) /\ ToSet(From(a, j)) = {e} \cup ToSet(A)
      /\ e \notin ToSet(B) /\ e \notin ToSet(A)
  <2>1. a[j] = e /\ i \in 1 .. Len(b) /\ j \in 1 .. Len(a)
    BY <1>1
  <2> HIDE DEF i, j
  <2>2. /\ B \in Seq(Station) /\ e \in Station
        /\ ToSet(From(b, i)) = {e} \cup ToSet(B) /\ e \notin ToSet(B)
    BY <2>1, FromShape, FromSet
  <2>3. /\ A \in Seq(Station)
        /\ ToSet(From(a, j)) = {a[j]} \cup ToSet(A) /\ a[j] \notin ToSet(A)
    BY <2>1, FromShape, FromSet
  <2> HIDE DEF A, B, e
  <2> QED BY <2>1, <2>2, <2>3
<1>3. ASSUME NEW D
      PROVE  /\ e \in D => /\ Keep(From(b, i), D) = <<e>> \o Keep(B, D)
                           /\ Keep(From(a, j), D) = <<e>> \o Keep(A, D)
             /\ e \notin D => Keep(From(b, i), D) = Keep(B, D) /\ Keep(From(a, j), D) = Keep(A, D)
             /\ Keep(B, D) \in Seq(Station) /\ Keep(A, D) \in Seq(Station)
  <2>1. a[j] = e /\ i \in 1 .. Len(b) /\ j \in 1 .. Len(a)
    BY <1>1
  <2> HIDE DEF i, j
  <2>2. /\ e \in D => Keep(From(b, i), D) = <<e>> \o Keep(B, D)
        /\ e \notin D => Keep(From(b, i), D) = Keep(B, D)
        /\ Keep(B, D) \in Seq(Station)
    BY <2>1, FromKeep
  <2>3. /\ a[j] \in D => Keep(From(a, j), D) = <<a[j]>> \o Keep(A, D)
        /\ a[j] \notin D => Keep(From(a, j), D) = Keep(A, D)
        /\ Keep(A, D) \in Seq(Station)
    BY <2>1, FromKeep
  <2> HIDE DEF A, B, e
  <2> QED BY <2>1, <2>2, <2>3
<1>4. Common(b, a, Diagonal(c), C) <=>
        C \subseteq ToSet(B) /\ C \subseteq ToSet(A) /\ Keep(B, C) = Keep(A, C)
  BY <1>1 DEF Common
<1>5. ASSUME NEW D
      PROVE  Common(b, a, Diagonal(c), D) <=>
               D \subseteq ToSet(B) /\ D \subseteq ToSet(A) /\ Keep(B, D) = Keep(A, D)
  BY <1>1 DEF Common
<1>6. ASSUME NEW D
      PROVE  Common(b, a, c, D) <=>
               /\ D \subseteq {e} \cup ToSet(B) /\ D \subseteq {e} \cup ToSet(A)
               /\ Keep(From(b, i), D) = Keep(From(a, j), D)
  BY <1>2 DEF Common
<1> HIDE DEF A, B, e, i, j
<1>7. ASSUME Common(b, a, Diagonal(c), C)
      PROVE  e \notin C /\ Common(b, a, c, C \cup {e})
  <2>1. e \notin C /\ C \subseteq ToSet(B) /\ C \subseteq ToSet(A) /\ Keep(B, C) = Keep(A, C)
    BY <1>2, <1>4, <1>7
  <2>2. Keep(B, C \cup {e}) = Keep(B, C) /\ Keep(A, C \cup {e}) = Keep(A, C)
    <3> DEFINE D == C \cup {e}
    <3>1. (\A x \in ToSet(B) : x \in D <=> x \in C) /\ (\A x \in ToSet(A) : x \in D <=> x \in C)
      BY <1>2
    <3> HIDE DEF D
    <3>2. Keep(B, D) = Keep(B, C) /\ Keep(A, D) = Keep(A, C)
      BY <1>2, <3>1, KeepSame
    <3> QED BY <3>2 DEF D
  <2>3. Keep(From(b, i), C \cup {e}) = <<e>> \o Keep(B, C)
        /\ Keep(From(a, j), C \cup {e}) = <<e>> \o Keep(A, C)
    BY <1>3, <2>2
  <2> QED BY <1>6, <2>1, <2>3
<1>8. ASSUME Common(b, a, c, C)
      PROVE  Common(b, a, Diagonal(c), C \ {e})
  <2>1. /\ C \subseteq {e} \cup ToSet(B) /\ C \subseteq {e} \cup ToSet(A)
        /\ Keep(From(b, i), C) = Keep(From(a, j), C)
    BY <1>6, <1>8
  <2>2. Keep(B, C) = Keep(A, C)
    <3>1. CASE e \in C
      <4>1. <<e>> \o Keep(B, C) = <<e>> \o Keep(A, C)
        BY <1>3, <2>1, <3>1
      <4>2. Keep(B, C) \in Seq(Station) /\ Keep(A, C) \in Seq(Station)
        BY <1>3
      <4> DEFINE x == Keep(B, C)
                 y == Keep(A, C)
      <4>3. x \in Seq(Station) /\ y \in Seq(Station) /\ <<e>> \o x = <<e>> \o y /\ e \in Station
        BY <1>2, <4>1, <4>2
      <4> HIDE DEF x, y
      <4>4. x = y
        BY ONLY <4>3, ConsEqual
      <4> QED BY <4>4 DEF x, y
    <3>2. CASE e \notin C
      BY <1>3, <2>1, <3>2
    <3> QED BY <3>1, <3>2
  <2>3. Keep(B, C \ {e}) = Keep(B, C) /\ Keep(A, C \ {e}) = Keep(A, C)
    <3> DEFINE D == C \ {e}
    <3>1. (\A x \in ToSet(B) : x \in D <=> x \in C) /\ (\A x \in ToSet(A) : x \in D <=> x \in C)
      BY <1>2
    <3> HIDE DEF D
    <3>2. Keep(B, D) = Keep(B, C) /\ Keep(A, D) = Keep(A, C)
      BY <1>2, <3>1, KeepSame
    <3> QED BY <3>2 DEF D
  <2> QED BY <1>5, <2>1, <2>2, <2>3
<1> QED BY <1>7, <1>8 DEF e, i

(* Where they go on with different elements, not both of these are common. *)
LEMMA CommonOther ==
  ASSUME NEW b \in Seq(Station), NEW a \in Seq(Station), IsInjective(b), IsInjective(a),
         NEW c \in Cells(b, a), ~AtEnd(b, a, c), b[c[1]] # a[c[2]], NEW C
  PROVE  /\ Common(b, a, Down(c), C) => Common(b, a, c, C)
         /\ Common(b, a, Right(c), C) => Common(b, a, c, C)
         /\ Common(b, a, c, C) => Common(b, a, Down(c), C) \/ Common(b, a, Right(c), C)
<1> DEFINE i == c[1]
           j == c[2]
           e == b[i]
           f == a[j]
           B == From(b, i + 1)
           A == From(a, j + 1)
           B0 == From(b, i)
           A0 == From(a, j)
<1>1. /\ i \in 1 .. Len(b) /\ j \in 1 .. Len(a)
      /\ Down(c)[1] = i + 1 /\ Down(c)[2] = j /\ Right(c)[1] = i /\ Right(c)[2] = j + 1
  BY CellShape
<1>2. /\ B \in Seq(Station) /\ A \in Seq(Station) /\ e \in Station /\ f \in Station
      /\ ToSet(B0) = {e} \cup ToSet(B) /\ ToSet(A0) = {f} \cup ToSet(A)
      /\ e \notin ToSet(B) /\ f \notin ToSet(A) /\ e # f
  BY <1>1, FromShape, FromSet
<1>3. /\ e \in C => Keep(B0, C) = <<e>> \o Keep(B, C)
      /\ e \notin C => Keep(B0, C) = Keep(B, C)
      /\ f \in C => Keep(A0, C) = <<f>> \o Keep(A, C)
      /\ f \notin C => Keep(A0, C) = Keep(A, C)
      /\ Keep(B, C) \in Seq(Station) /\ Keep(A, C) \in Seq(Station)
  <2>1. i \in 1 .. Len(b) /\ j \in 1 .. Len(a)
    BY <1>1
  <2> HIDE DEF i, j
  <2>2. /\ e \in C => Keep(B0, C) = <<e>> \o Keep(B, C)
        /\ e \notin C => Keep(B0, C) = Keep(B, C)
        /\ Keep(B, C) \in Seq(Station)
    BY <2>1, FromKeep
  <2>3. /\ f \in C => Keep(A0, C) = <<f>> \o Keep(A, C)
        /\ f \notin C => Keep(A0, C) = Keep(A, C)
        /\ Keep(A, C) \in Seq(Station)
    BY <2>1, FromKeep
  <2> QED BY <2>2, <2>3
<1>4. /\ Common(b, a, c, C) <=>
           C \subseteq ToSet(B0) /\ C \subseteq ToSet(A0) /\ Keep(B0, C) = Keep(A0, C)
      /\ Common(b, a, Down(c), C) <=>
           C \subseteq ToSet(B) /\ C \subseteq ToSet(A0) /\ Keep(B, C) = Keep(A0, C)
      /\ Common(b, a, Right(c), C) <=>
           C \subseteq ToSet(B0) /\ C \subseteq ToSet(A) /\ Keep(B0, C) = Keep(A, C)
  BY <1>1 DEF Common
<1> HIDE DEF A, B, A0, B0, e, f
<1>5. Common(b, a, Down(c), C) => Common(b, a, c, C)
  <2> SUFFICES ASSUME Common(b, a, Down(c), C) PROVE Common(b, a, c, C)
    OBVIOUS
  <2>1. e \notin C
    BY <1>2, <1>4
  <2> QED BY <1>2, <1>3, <1>4, <2>1
<1>6. Common(b, a, Right(c), C) => Common(b, a, c, C)
  <2> SUFFICES ASSUME Common(b, a, Right(c), C) PROVE Common(b, a, c, C)
    OBVIOUS
  <2>1. f \notin C
    BY <1>2, <1>4
  <2> QED BY <1>2, <1>3, <1>4, <2>1
<1>7. ASSUME Common(b, a, c, C)
      PROVE  Common(b, a, Down(c), C) \/ Common(b, a, Right(c), C)
  <2>1. ~(e \in C /\ f \in C)
    <3> SUFFICES ASSUME e \in C, f \in C PROVE FALSE
      OBVIOUS
    <3>1. <<e>> \o Keep(B, C) = <<f>> \o Keep(A, C)
      BY <1>3, <1>4, <1>7
    <3>2. e = f
      BY <1>2, <1>3, <3>1, ConsEqual
    <3> QED BY <1>2, <3>2
  <2>2. CASE e \notin C
    BY <1>2, <1>3, <1>4, <1>7, <2>2
  <2>3. CASE f \notin C
    BY <1>2, <1>3, <1>4, <1>7, <2>3
  <2> QED BY <2>1, <2>2, <2>3
<1> QED BY <1>5, <1>6, <1>7

(* The walk keeps something common, as much as the table says, and nothing
   that is common is larger: by induction on what is left of both orders. *)
WalkServes(b, a, L, K, c) ==
    /\ L[c] \in Nat /\ Common(b, a, c, K[c])
    /\ IsFiniteSet(K[c]) /\ Cardinality(K[c]) = L[c]
    /\ \A C : Common(b, a, c, C) => IsFiniteSet(C) /\ Cardinality(C) <= L[c]

LEMMA WalkIsLongest ==
  ASSUME NEW b \in Seq(Station), NEW a \in Seq(Station), IsInjective(b), IsInjective(a),
         NEW L, NEW K, IsLengths(L, b, a), IsWalk(K, L, b, a)
  PROVE  \A c \in Cells(b, a) : WalkServes(b, a, L, K, c)
<1> DEFINE X == Cells(b, a)
           P == {n \in Nat : \A c \in X : Left(b, a, c) <= n => WalkServes(b, a, L, K, c)}
<1>1. ASSUME NEW c \in X
      PROVE  L[c] = LengthAt(L, b, a, c) /\ K[c] = KeptAt(K, L, b, a, c)
  BY DEF IsLengths, IsWalk
<1>2. ASSUME NEW c \in X,
             \A d \in X : Left(b, a, d) < Left(b, a, c) => WalkServes(b, a, L, K, d)
      PROVE  WalkServes(b, a, L, K, c)
  <2>1. CASE AtEnd(b, a, c)
    <3>1. L[c] = 0 /\ K[c] = {}
      BY <1>1, <2>1 DEF LengthAt, KeptAt
    <3>2. \A C : Common(b, a, c, C) <=> C = {}
      BY <2>1, CommonEnd
    <3>3. IsFiniteSet({}) /\ Cardinality({}) = 0
      BY FS_EmptySet
    <3>4. Common(b, a, c, K[c]) /\ IsFiniteSet(K[c]) /\ Cardinality(K[c]) = L[c]
      BY <3>1, <3>2, <3>3
    <3>5. ASSUME NEW C, Common(b, a, c, C) PROVE IsFiniteSet(C) /\ Cardinality(C) <= L[c]
      <4>1. C = {}
        BY <3>2, <3>5
      <4> QED BY <3>1, <3>3, <4>1
    <3> QED BY <3>1, <3>4, <3>5 DEF WalkServes
  <2>2. CASE ~AtEnd(b, a, c) /\ b[c[1]] = a[c[2]]
    <3> DEFINE d == Diagonal(c)
               e == b[c[1]]
    <3>1. d \in X /\ Left(b, a, d) < Left(b, a, c)
      BY <2>2, CellShape
    <3>2. L[c] = L[d] + 1 /\ K[c] = {e} \cup K[d]
      BY <1>1, <2>2 DEF LengthAt, KeptAt
    <3>3. /\ L[d] \in Nat /\ Common(b, a, d, K[d])
          /\ IsFiniteSet(K[d]) /\ Cardinality(K[d]) = L[d]
          /\ \A C : Common(b, a, d, C) => IsFiniteSet(C) /\ Cardinality(C) <= L[d]
      BY <1>2, <3>1 DEF WalkServes
    <3>4. \A C : /\ Common(b, a, d, C) => e \notin C /\ Common(b, a, c, C \cup {e})
                 /\ Common(b, a, c, C) => Common(b, a, d, C \ {e})
      BY <2>2, CommonSame
    <3> HIDE DEF d, e
    <3>5. e \notin K[d] /\ K[c] = K[d] \cup {e}
      BY <3>2, <3>3, <3>4
    <3>6. IsFiniteSet(K[c]) /\ Cardinality(K[c]) = L[c] /\ Common(b, a, c, K[c]) /\ L[c] \in Nat
      BY <3>2, <3>3, <3>4, <3>5, FS_AddElement
    <3>7. ASSUME NEW C, Common(b, a, c, C)
          PROVE  IsFiniteSet(C) /\ Cardinality(C) <= L[c]
      <4> DEFINE D == C \ {e}
      <4>1. IsFiniteSet(D) /\ Cardinality(D) <= L[d]
        BY <3>3, <3>4, <3>7
      <4>2. IsFiniteSet(D \cup {e}) /\ Cardinality(D \cup {e}) = IF e \in D THEN Cardinality(D) ELSE Cardinality(D) + 1
        <5> HIDE DEF D
        <5> QED BY <4>1, FS_AddElement
      <4>3. C = D \cup {e} \/ C = D
        OBVIOUS
      <4>4. Cardinality(D) \in Nat /\ e \notin D
        <5>1. e \notin D
          OBVIOUS
        <5> HIDE DEF D
        <5> QED BY <4>1, <5>1, FS_CardinalityType
      <4> HIDE DEF D
      <4> DEFINE m == L[d]
                 n == Cardinality(D)
      <4>5. m \in Nat /\ n \in Nat /\ n <= m /\ L[c] = m + 1
        BY <3>2, <3>3, <4>1, <4>4
      <4>6. CASE C = D
        <5>1. IsFiniteSet(C) /\ Cardinality(C) = n
          BY <4>1, <4>6
        <5> HIDE DEF m, n
        <5> QED BY <4>5, <5>1
      <4>7. CASE C = D \cup {e}
        <5>1. IsFiniteSet(C) /\ Cardinality(C) = n + 1
          BY <4>2, <4>4, <4>7
        <5> HIDE DEF m, n
        <5> QED BY <4>5, <5>1
      <4> QED BY <4>3, <4>6, <4>7
    <3> QED BY <3>6, <3>7 DEF WalkServes
  <2>3. CASE ~AtEnd(b, a, c) /\ b[c[1]] # a[c[2]]
    <3> DEFINE d == Down(c)
               r == Right(c)
    <3>1. d \in X /\ Left(b, a, d) < Left(b, a, c) /\ r \in X /\ Left(b, a, r) < Left(b, a, c)
      BY <2>3, CellShape
    <3>2. /\ L[c] = IF L[d] >= L[r] THEN L[d] ELSE L[r]
          /\ K[c] = IF L[d] >= L[r] THEN K[d] ELSE K[r]
      BY <1>1, <2>3 DEF LengthAt, KeptAt
    <3>3. /\ L[d] \in Nat /\ Common(b, a, d, K[d])
          /\ IsFiniteSet(K[d]) /\ Cardinality(K[d]) = L[d]
          /\ \A C : Common(b, a, d, C) => IsFiniteSet(C) /\ Cardinality(C) <= L[d]
      BY <1>2, <3>1 DEF WalkServes
    <3>4. /\ L[r] \in Nat /\ Common(b, a, r, K[r])
          /\ IsFiniteSet(K[r]) /\ Cardinality(K[r]) = L[r]
          /\ \A C : Common(b, a, r, C) => IsFiniteSet(C) /\ Cardinality(C) <= L[r]
      BY <1>2, <3>1 DEF WalkServes
    <3>5. \A C : /\ Common(b, a, d, C) => Common(b, a, c, C)
                 /\ Common(b, a, r, C) => Common(b, a, c, C)
                 /\ Common(b, a, c, C) => Common(b, a, d, C) \/ Common(b, a, r, C)
      BY <2>3, CommonOther
    <3> HIDE DEF d, r
    <3>6. L[c] \in Nat /\ L[c] >= L[d] /\ L[c] >= L[r]
      BY <3>2, <3>3, <3>4
    <3>7. Common(b, a, c, K[c]) /\ IsFiniteSet(K[c]) /\ Cardinality(K[c]) = L[c]
      <4>1. CASE L[d] >= L[r]
        BY <3>2, <3>3, <3>5, <4>1
      <4>2. CASE ~(L[d] >= L[r])
        BY <3>2, <3>4, <3>5, <4>2
      <4> QED BY <4>1, <4>2
    <3>8. ASSUME NEW C, Common(b, a, c, C)
          PROVE  IsFiniteSet(C) /\ Cardinality(C) <= L[c]
      <4>1. IsFiniteSet(C) /\ (Cardinality(C) <= L[d] \/ Cardinality(C) <= L[r])
        BY <3>3, <3>4, <3>5, <3>8
      <4>2. Cardinality(C) \in Nat
        BY <4>1, FS_CardinalityType
      <4> QED BY <3>3, <3>4, <3>6, <4>1, <4>2
    <3> QED BY <3>6, <3>7, <3>8 DEF WalkServes
  <2> QED BY <2>1, <2>2, <2>3
<1>3. 0 \in P
  <2>1. ASSUME NEW c \in X, Left(b, a, c) <= 0 PROVE WalkServes(b, a, L, K, c)
    <3>1. \A d \in X : ~(Left(b, a, d) < Left(b, a, c))
      BY <2>1, CellShape
    <3> QED BY <1>2, <3>1
  <2> QED BY <2>1
<1>4. ASSUME NEW n \in Nat, n \in P PROVE n + 1 \in P
  <2>1. ASSUME NEW c \in X, Left(b, a, c) <= n + 1 PROVE WalkServes(b, a, L, K, c)
    <3>1. ASSUME NEW d \in X, Left(b, a, d) < Left(b, a, c) PROVE WalkServes(b, a, L, K, d)
      <4>1. Left(b, a, d) <= n
        BY <2>1, <3>1, CellShape
      <4> QED BY <1>4, <4>1
    <3> QED BY <1>2, <3>1
  <2> QED BY <2>1
<1> HIDE DEF P
<1>5. Nat \subseteq P
  BY <1>3, <1>4, NatAll
<1> QED
  <2>1. Len(b) + Len(a) \in P
    BY <1>5
  <2> QED BY <2>1, CellShape DEF P

-----------------------------------------------------------------------------
(* The stations reported as reordered *)

(* A list has finitely many elements. *)
LEMMA ToSetFinite ==
  ASSUME NEW T, NEW s \in Seq(T)
  PROVE  IsFiniteSet(ToSet(s))
<1> DEFINE P == {t \in Seq(T) : IsFiniteSet(ToSet(t))}
<1>1. <<>> \in P
  BY EmptySeq, ToSetEmpty, FS_EmptySet
<1>2. ASSUME NEW t \in P, NEW e \in T PROVE Append(t, e) \in P
  <2>1. Append(t, e) \in Seq(T) /\ ToSet(Append(t, e)) = ToSet(t) \cup {e}
    BY AppendShape
  <2>2. IsFiniteSet(ToSet(t) \cup {e})
    <3> DEFINE u == ToSet(t)
    <3>1. IsFiniteSet(u)
      OBVIOUS
    <3> HIDE DEF u
    <3>2. IsFiniteSet(u \cup {e})
      BY <3>1, FS_AddElement
    <3> QED BY <3>2 DEF u
  <2> QED BY <2>1, <2>2
<1>3. Seq(T) \subseteq P
  <2> HIDE DEF P
  <2> QED BY <1>1, <1>2, SeqAll
<1> QED BY <1>3

(* At the first cell, what is common is what both orders keep alike. *)
LEMMA CommonFirst ==
  ASSUME NEW b \in Seq(Station), NEW a \in Seq(Station)
  PROVE  /\ <<1, 1>> \in Cells(b, a)
         /\ \A C : Common(b, a, <<1, 1>>, C) <=>
                     C \subseteq ToSet(b) /\ C \subseteq ToSet(a) /\ Keep(b, C) = Keep(a, C)
<1>1. From(b, 1) = b /\ From(a, 1) = a
  BY FromEnds
<1>2. Len(b) \in Nat /\ Len(a) \in Nat
  OBVIOUS
<1>3. <<1, 1>> \in Cells(b, a)
  <2>1. 1 \in 1 .. Len(b) + 1 /\ 1 \in 1 .. Len(a) + 1
    BY <1>2
  <2> QED BY <2>1 DEF Cells
<1>4. <<1, 1>>[1] = 1 /\ <<1, 1>>[2] = 1
  OBVIOUS
<1> QED BY <1>1, <1>3, <1>4 DEF Common

(* Of two orders of the same stations, the ones left out of the walk settle
   the difference, and no smaller set does. *)
LEMMA LeastMoved ==
  ASSUME NEW b \in Seq(Station), NEW a \in Seq(Station), IsInjective(b), IsInjective(a),
         ToSet(b) = ToSet(a)
  PROVE  /\ Keep(b, ToSet(b) \ ReorderedStations(b, a)) = Keep(a, ToSet(a) \ ReorderedStations(b, a))
         /\ \A moved \in SUBSET ToSet(b) :
              Keep(b, ToSet(b) \ moved) = Keep(a, ToSet(a) \ moved)
              => Cardinality(ReorderedStations(b, a)) <= Cardinality(moved)
<1> DEFINE D == ToSet(b)
           R == ReorderedStations(b, a)
           L == CommonLength(b, a)
           o == <<1, 1>>
<1>1. Len(b) \in Nat /\ Len(a) \in Nat
  OBVIOUS
<1>2. PICK K : IsWalk(K, L, b, a) /\ R = D \ K[o]
  BY <1>1, WalkDefined
<1>3. WalkServes(b, a, L, K, o)
  <2>1. IsLengths(L, b, a)
    BY <1>1, LengthsDefined
  <2> HIDE DEF L
  <2> QED BY <1>2, <2>1, WalkIsLongest, CommonFirst
<1>4. /\ L[o] \in Nat /\ Common(b, a, o, K[o])
      /\ IsFiniteSet(K[o]) /\ Cardinality(K[o]) = L[o]
      /\ \A C : Common(b, a, o, C) => IsFiniteSet(C) /\ Cardinality(C) <= L[o]
  BY <1>3 DEF WalkServes
<1> DEFINE S == K[o]
           m == L[o]
<1> HIDE DEF L
<1>5. \A C : Common(b, a, o, C) <=> C \subseteq D /\ Keep(b, C) = Keep(a, C)
  BY CommonFirst
<1>6. S \subseteq D /\ Keep(b, S) = Keep(a, S) /\ Cardinality(S) = m /\ m \in Nat
      /\ IsFiniteSet(S) /\ R = D \ S
  BY <1>2, <1>4, <1>5
<1>7. \A C : C \subseteq D /\ Keep(b, C) = Keep(a, C) => Cardinality(C) <= m
  BY <1>4, <1>5
<1>8. IsFiniteSet(D) /\ Cardinality(D) \in Nat
  BY ToSetFinite, FS_CardinalityType
<1>9. D = ToSet(a)
  OBVIOUS
<1> HIDE DEF D, R, S, m
<1>10. D \ R = S
  BY <1>6
<1>11. ASSUME NEW U \in SUBSET D
       PROVE  /\ IsFiniteSet(U) /\ Cardinality(U) \in Nat
              /\ Cardinality(D \ U) = Cardinality(D) - Cardinality(U)
  <2>1. IsFiniteSet(U) /\ D \cap U = U
    BY <1>8, FS_Subset
  <2> QED BY <1>8, <2>1, FS_Difference, FS_CardinalityType
<1>12. ASSUME NEW moved \in SUBSET D, Keep(b, D \ moved) = Keep(a, D \ moved)
       PROVE  Cardinality(R) <= Cardinality(moved)
  <2>1. Cardinality(D \ moved) <= m
    BY <1>7, <1>12
  <2>2. Cardinality(D \ moved) = Cardinality(D) - Cardinality(moved) /\ Cardinality(moved) \in Nat
    BY <1>11
  <2>3. Cardinality(R) = Cardinality(D) - m
    BY <1>6, <1>11
  <2> DEFINE d == Cardinality(D)
             q == Cardinality(moved)
             r == Cardinality(R)
  <2>4. d \in Nat /\ q \in Nat /\ m \in Nat /\ d - q <= m /\ r = d - m
    BY <1>6, <1>8, <2>1, <2>2, <2>3
  <2> HIDE DEF d, q, r
  <2>5. r <= q
    BY <2>4
  <2> QED BY <2>5 DEF q, r
<1>13. Keep(b, D \ R) = Keep(a, D \ R)
  BY <1>6, <1>10
<1> QED BY <1>9, <1>12, <1>13 DEF D, R

(* The stations reported as reordered are exactly enough to explain the
   difference: without them the schedule and the route agree on the order of
   the surviving stations, and no smaller set of stations does it, for orders
   of any length (ride-schedule-alignment.ts findReorderedStationIds). *)
THEOREM ReorderedLeast == Spec => []ReorderedIsLeast
<1>1. Inv => ReorderedIsLeast
  <2> SUFFICES ASSUME Inv, NEW r \in StoredIn(ride), NEW l \in StoredIn(line)
               PROVE  LET drift == ScheduleDrift(ride[r].times, Route(line[l]))
                          Without(s, moved) == Keep(s, ToSet(s) \ moved)
                          Settles(moved) == Without(drift.before, moved) = Without(drift.after, moved)
                      IN /\ Settles(drift.reordered)
                         /\ \A moved \in SUBSET ToSet(drift.before) :
                               Settles(moved) => Cardinality(drift.reordered) <= Cardinality(moved)
    BY DEF ReorderedIsLeast
  <2> DEFINE s == StationsOf(ride[r].times)
             t == Route(line[l])
             C == ToSet(s) \cap ToSet(t)
             b == Keep(s, C)
             a == Keep(t, C)
             drift == ScheduleDrift(ride[r].times, Route(line[l]))
  <2>1. s \in Seq(Station) /\ IsInjective(s)
    <3>1. ride[r].times \in Seq(TimeStop) /\ IsInjective(s)
      BY InvRows DEF GoodRides, StoredIn
    <3> QED BY <3>1, TimeStations
  <2>2. t \in Seq(Station) /\ IsInjective(t)
    <3>1. line[l] \in LineRow /\ ValidRoute(line[l])
      BY InvRows DEF GoodRows, StoredIn
    <3> QED BY <3>1, RouteShape, RouteInjective
  <2>3. drift = [before |-> b, after |-> a, reordered |-> ReorderedStations(b, a)]
    BY DEF ScheduleDrift
  <2> HIDE DEF drift, s, t
  <2>4. b \in Seq(Station) /\ a \in Seq(Station) /\ ToSet(b) = C /\ ToSet(a) = C
        /\ IsInjective(b) /\ IsInjective(a)
    <3>1. b \in Seq(Station) /\ ToSet(b) = ToSet(s) \cap C /\ IsInjective(b)
      BY <2>1, KeepSet, KeepInjective
    <3>2. a \in Seq(Station) /\ ToSet(a) = ToSet(t) \cap C /\ IsInjective(a)
      BY <2>2, KeepSet, KeepInjective
    <3> QED BY <3>1, <3>2
  <2>5. drift.before = b /\ drift.after = a /\ drift.reordered = ReorderedStations(b, a)
    BY <2>3
  <2> HIDE DEF b, a, C
  <2>6. /\ Keep(b, ToSet(b) \ ReorderedStations(b, a)) = Keep(a, ToSet(a) \ ReorderedStations(b, a))
        /\ \A moved \in SUBSET ToSet(b) :
              Keep(b, ToSet(b) \ moved) = Keep(a, ToSet(a) \ moved)
              => Cardinality(ReorderedStations(b, a)) <= Cardinality(moved)
    BY <2>4, LeastMoved
  <2> QED BY <2>5, <2>6 DEF drift
<1> QED BY <1>1, InvHolds, PTL

=============================================================================
