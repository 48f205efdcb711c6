--------------------------- MODULE Connect_proofs ---------------------------
(****************************************************************************)
(* Proofs about Connect, the connect loop of Session::run and the start of  *)
(* TLS.                                                                     *)
(****************************************************************************)
EXTENDS Connect, SequenceTheorems, WellFoundedInduction, TLAPS

Answerer    == {"worker", "timer"}
RunAt       == {"idle", "next", "connect", "wait", "close", "close2", "trywait",
                "stream", "end", "lastclose", "lastclose2", "return"}
RxAt        == {"idle", "tls", "wait", "reset", "giveup", "clear", "return"}
AnsweringAt == {"close", "close2", "call", "write", "post"}

SockFields == {"fd", "connected", "tls", "ssl", "peer", "dgram", "local",
               "bind_to_local_addr", "bind_to_local_port"}

-----------------------------------------------------------------------------
(* Lists, and functions that are defined from one element to the next        *)

LEMMA LeastNat ==
    ASSUME NEW I \in SUBSET Nat, I # {}
    PROVE  \E i \in I : \A k \in I : i <= k
<1> DEFINE Below == {p \in Nat \X Nat : p[1] < p[2]}
<1>1. \A i, k \in Nat : k < i => <<k, i>> \in Below
  OBVIOUS
<1>2. IsWellFoundedOn(Below, Nat)
  BY NatLessThanWellFounded DEF OpToRel
<1>3. I \subseteq Nat
  OBVIOUS
<1> HIDE DEF Below
<1>4. PICK i \in I : \A k \in I : ~(<<k, i>> \in Below)
  BY <1>2, <1>3, WFMin
<1>5. i \in Nat /\ \A k \in I : k \in Nat /\ ~(k < i)
  BY <1>1, <1>3, <1>4
<1>6. \A k \in I : i <= k
  BY <1>5
<1> QED BY <1>6

(* From each number to the next one, up to n.                                *)
LEMMA UpTo ==
    ASSUME NEW n \in Nat, NEW I, 0 \in I, \A i \in 0..(n - 1) : i \in I => i + 1 \in I
    PROVE  \A i \in 0..n : i \in I
<1> DEFINE J == {i \in 0..n : i \notin I}
<1>1. SUFFICES ASSUME J # {} PROVE FALSE
  OBVIOUS
<1>2. PICK i \in J : \A k \in J : i <= k
  <2>1. J \in SUBSET Nat
    OBVIOUS
  <2> HIDE DEF J
  <2> QED BY <1>1, <2>1, LeastNat
<1>3. i \in 0..n /\ i \notin I /\ i # 0
  BY <1>2
<1>4. i - 1 \in 0..(n - 1) /\ (i - 1) + 1 = i
  BY <1>3
<1>5. i - 1 \in I
  BY <1>2, <1>3, <1>4
<1> QED BY <1>3, <1>4, <1>5

LEMMA OnlyDefined ==
    ASSUME NEW s, NEW S, Len(s) \in Nat
    PROVE  \E f : /\ f = [n \in 0..Len(s) |->
                             IF n = 0 THEN <<>>
                             ELSE IF s[n] \in S THEN Append(f[n - 1], s[n]) ELSE f[n - 1]]
                  /\ Only(s, S) = f[Len(s)]
<1> DEFINE Next1(f, n) == IF s[n] \in S THEN Append(f[n - 1], s[n]) ELSE f[n - 1]
           Defines(f, m) == f = [n \in 0..m |-> IF n = 0 THEN <<>> ELSE Next1(f, n)]
           I == {m \in 0..Len(s) : \E f : Defines(f, m)}
<1>1. 0 \in I
  <2>1. PICK f : f = [n \in 0..0 |-> <<>>]
    OBVIOUS
  <2>2. \A n \in 0..0 : n = 0
    OBVIOUS
  <2>3. DOMAIN f = 0..0 /\ f = [n \in 0..0 |-> f[n]] /\ \A n \in 0..0 : f[n] = IF n = 0 THEN <<>> ELSE Next1(f, n)
    <3> HIDE DEF Next1
    <3> QED BY <2>1, <2>2
  <2>4. Defines(f, 0)
    <3> HIDE DEF Next1
    <3> QED BY <2>3
  <2>5. 0 \in 0..Len(s)
    OBVIOUS
  <2> HIDE DEF Defines
  <2> QED BY <2>4, <2>5
<1>2. ASSUME NEW m \in 0..(Len(s) - 1), m \in I PROVE m + 1 \in I
  <2>1. PICK f : Defines(f, m)
    BY <1>2
  <2> DEFINE g == [n \in 0..(m + 1) |-> IF n = m + 1 THEN Next1(f, m + 1) ELSE f[n]]
  <2>2. \A n \in 0..m : g[n] = f[n] /\ f[n] = IF n = 0 THEN <<>> ELSE Next1(f, n)
    <3>1. \A n \in 0..m : f[n] = IF n = 0 THEN <<>> ELSE Next1(f, n)
      <4> HIDE DEF Next1
      <4> QED BY <2>1
    <3>2. \A n \in 0..m : g[n] = f[n]
      <4> HIDE DEF Next1
      <4> QED OBVIOUS
    <3> QED BY <3>1, <3>2
  <2>3. g[m + 1] = Next1(f, m + 1) /\ m + 1 # 0 /\ m \in 0..m /\ (m + 1) - 1 = m
    OBVIOUS
  <2>4. \A n \in 0..m : n # 0 => n - 1 \in 0..m
    OBVIOUS
  <2>5. \A n \in 0..(m + 1) : g[n] = IF n = 0 THEN <<>> ELSE Next1(g, n)
    <3>1. \A n \in 0..(m + 1) : n \in 0..m \/ n = m + 1
      OBVIOUS
    <3> HIDE DEF g
    <3>2. Next1(g, m + 1) = Next1(f, m + 1)
      BY <2>2, <2>3
    <3>3. \A n \in 0..m : n # 0 => Next1(g, n) = Next1(f, n)
      BY <2>2, <2>4
    <3> HIDE DEF Next1
    <3> QED BY <2>2, <2>3, <3>1, <3>2, <3>3
  <2>6. DOMAIN g = 0..(m + 1) /\ g = [n \in 0..(m + 1) |-> g[n]]
    OBVIOUS
  <2>7. Defines(g, m + 1)
    <3> HIDE DEF g, Next1
    <3> QED BY <2>5, <2>6
  <2>8. m + 1 \in 0..Len(s)
    OBVIOUS
  <2> HIDE DEF g, Defines
  <2> QED BY <2>7, <2>8
<1>3. Len(s) \in I
  <2> HIDE DEF I
  <2>1. \A m \in 0..Len(s) : m \in I
    BY <1>1, <1>2, UpTo
  <2> QED BY <2>1
<1>4. PICK f : f = (CHOOSE only : only = [n \in 0..Len(s) |->
                       IF n = 0 THEN <<>>
                       ELSE IF s[n] \in S THEN Append(only[n - 1], s[n]) ELSE only[n - 1]])
  OBVIOUS
<1>5. Only(s, S) = f[Len(s)]
  BY <1>4, Zenon DEF Only
<1>6. \E g : g = [n \in 0..Len(s) |->
                       IF n = 0 THEN <<>>
                       ELSE IF s[n] \in S THEN Append(g[n - 1], s[n]) ELSE g[n - 1]]
  BY <1>3, Zenon
<1>7. f = [n \in 0..Len(s) |->
             IF n = 0 THEN <<>>
             ELSE IF s[n] \in S THEN Append(f[n - 1], s[n]) ELSE f[n - 1]]
  BY <1>4, <1>6, Zenon
<1> QED BY <1>5, <1>7, Zenon

(* What is left of a list are elements of both.                              *)
LEMMA OnlyIs ==
    ASSUME NEW T, NEW s \in Seq(T), NEW S
    PROVE  Only(s, S) \in Seq(T \cap S)
<1>1. Len(s) \in Nat /\ \A n \in 1..Len(s) : s[n] \in T
  BY LenProperties, ElementOfSeq
<1>2. PICK f : /\ f = [n \in 0..Len(s) |->
                          IF n = 0 THEN <<>>
                          ELSE IF s[n] \in S THEN Append(f[n - 1], s[n]) ELSE f[n - 1]]
               /\ Only(s, S) = f[Len(s)]
  BY <1>1, OnlyDefined, Zenon
<1>3. /\ f[0] = <<>>
      /\ \A n \in 1..Len(s) : f[n] = IF s[n] \in S THEN Append(f[n - 1], s[n]) ELSE f[n - 1]
  <2>1. \A n \in 0..Len(s) : f[n] = IF n = 0 THEN <<>>
                          ELSE IF s[n] \in S THEN Append(f[n - 1], s[n]) ELSE f[n - 1]
    BY <1>2, Zenon
  <2>2. 0 \in 0..Len(s) /\ \A n \in 1..Len(s) : n \in 0..Len(s) /\ n # 0
    BY <1>1
  <2> QED BY <2>1, <2>2
<1> DEFINE I == {n \in 0..Len(s) : f[n] \in Seq(T \cap S)}
<1>4. 0 \in I
  <2>1. <<>> \in Seq(T \cap S) /\ 0 \in 0..Len(s)
    BY <1>1
  <2> QED BY <1>3, <2>1
<1>5. ASSUME NEW n \in 0..(Len(s) - 1), n \in I PROVE n + 1 \in I
  <2>1. n + 1 \in 1..Len(s) /\ (n + 1) - 1 = n /\ n + 1 \in 0..Len(s)
    BY <1>1
  <2>2. f[n + 1] = IF s[n + 1] \in S THEN Append(f[n], s[n + 1]) ELSE f[n]
    BY <1>3, <2>1
  <2>3. f[n] \in Seq(T \cap S) /\ s[n + 1] \in T
    BY <1>1, <1>5, <2>1
  <2>4. s[n + 1] \in S => Append(f[n], s[n + 1]) \in Seq(T \cap S)
    BY <2>3
  <2> QED BY <2>1, <2>2, <2>3, <2>4
<1>6. Len(s) \in I
  <2> HIDE DEF I
  <2>1. \A n \in 0..Len(s) : n \in I
    BY <1>1, <1>4, <1>5, UpTo
  <2> QED BY <1>1, <2>1
<1> QED BY <1>2, <1>6

LEMMA FlattenDefined ==
    ASSUME NEW seqs, Len(seqs) \in Nat, Len(seqs) # 0
    PROVE  \E f : /\ f = [i \in 1..Len(seqs) |->
                             IF i = 1 THEN seqs[i] ELSE f[i - 1] \o seqs[i]]
                  /\ FlattenSeq(seqs) = f[Len(seqs)]
<1> DEFINE Next1(f, i) == f[i - 1] \o seqs[i]
           Defines(f, m) == f = [i \in 1..m |-> IF i = 1 THEN seqs[i] ELSE Next1(f, i)]
           I == {m \in 0..(Len(seqs) - 1) : \E f : Defines(f, m + 1)}
<1>1. 0 \in I
  <2>1. PICK f : f = [i \in 1..1 |-> seqs[1]]
    OBVIOUS
  <2>2. \A i \in 1..1 : i = 1
    OBVIOUS
  <2>3. /\ DOMAIN f = 1..1 /\ f = [i \in 1..1 |-> f[i]]
        /\ \A i \in 1..1 : f[i] = IF i = 1 THEN seqs[i] ELSE Next1(f, i)
    <3> HIDE DEF Next1
    <3> QED BY <2>1, <2>2
  <2>4. Defines(f, 1)
    <3> HIDE DEF Next1
    <3> QED BY <2>3
  <2>5. 0 \in 0..(Len(seqs) - 1) /\ 0 + 1 = 1
    OBVIOUS
  <2> HIDE DEF Defines
  <2> QED BY <2>4, <2>5
<1>2. ASSUME NEW k \in 0..((Len(seqs) - 1) - 1), k \in I PROVE k + 1 \in I
  <2>1. PICK m : m = k + 1
    OBVIOUS
  <2>2. m \in Nat /\ m # 0 /\ k + 1 \in 0..(Len(seqs) - 1)
    BY <2>1
  <2>3. PICK f : Defines(f, m)
    BY <1>2, <2>1
  <2> DEFINE g == [i \in 1..(m + 1) |-> IF i = m + 1 THEN Next1(f, m + 1) ELSE f[i]]
  <2>4. \A i \in 1..m : g[i] = f[i] /\ f[i] = IF i = 1 THEN seqs[i] ELSE Next1(f, i)
    <3>1. \A i \in 1..m : f[i] = IF i = 1 THEN seqs[i] ELSE Next1(f, i)
      <4> HIDE DEF Next1
      <4> QED BY <2>3
    <3>2. \A i \in 1..m : g[i] = f[i]
      <4>1. \A i \in 1..m : i \in 1..(m + 1) /\ i # m + 1
        BY <2>2
      <4> HIDE DEF Next1
      <4> QED BY <4>1
    <3> QED BY <3>1, <3>2
  <2>5. g[m + 1] = Next1(f, m + 1) /\ m + 1 # 1 /\ m \in 1..m /\ (m + 1) - 1 = m
    <3>1. m + 1 \in 1..(m + 1) /\ m + 1 # 1 /\ m \in 1..m /\ (m + 1) - 1 = m
      BY <2>2
    <3>2. g[m + 1] = Next1(f, m + 1)
      <4> HIDE DEF Next1
      <4> QED BY <3>1
    <3> QED BY <3>1, <3>2
  <2>6. \A i \in 1..m : i # 1 => i - 1 \in 1..m
    BY <2>2
  <2>7. \A i \in 1..(m + 1) : g[i] = IF i = 1 THEN seqs[i] ELSE Next1(g, i)
    <3>1. \A i \in 1..(m + 1) : i \in 1..m \/ i = m + 1
      BY <2>2
    <3> HIDE DEF g
    <3>2. Next1(g, m + 1) = Next1(f, m + 1)
      BY <2>4, <2>5
    <3>3. \A i \in 1..m : i # 1 => Next1(g, i) = Next1(f, i)
      BY <2>4, <2>6
    <3> HIDE DEF Next1
    <3> QED BY <2>4, <2>5, <3>1, <3>2, <3>3
  <2>8. DOMAIN g = 1..(m + 1) /\ g = [i \in 1..(m + 1) |-> g[i]]
    OBVIOUS
  <2>9. Defines(g, m + 1)
    <3> HIDE DEF g, Next1
    <3> QED BY <2>7, <2>8
  <2> HIDE DEF g, Defines
  <2> QED BY <2>1, <2>2, <2>9
<1>3. \E f : Defines(f, Len(seqs))
  <2>1. Len(seqs) - 1 \in Nat /\ (Len(seqs) - 1) + 1 = Len(seqs)
    OBVIOUS
  <2>2. \A m \in 0..(Len(seqs) - 1) : m \in I
    <3> HIDE DEF I
    <3> QED BY <1>1, <1>2, <2>1, UpTo
  <2>3. Len(seqs) - 1 \in I
    <3> HIDE DEF I
    <3> QED BY <2>1, <2>2
  <2> HIDE DEF Defines
  <2> QED BY <2>1, <2>3
<1>4. PICK f : f = (CHOOSE flatten : flatten = [i \in 1..Len(seqs) |->
                       IF i = 1 THEN seqs[i] ELSE flatten[i - 1] \o seqs[i]])
  OBVIOUS
<1>5. FlattenSeq(seqs) = f[Len(seqs)]
  BY <1>4, Zenon DEF FlattenSeq
<1>6. \E g : g = [i \in 1..Len(seqs) |-> IF i = 1 THEN seqs[i] ELSE g[i - 1] \o seqs[i]]
  BY <1>3, Zenon
<1>7. f = [i \in 1..Len(seqs) |-> IF i = 1 THEN seqs[i] ELSE f[i - 1] \o seqs[i]]
  BY <1>4, <1>6, Zenon
<1> QED BY <1>5, <1>7, Zenon

(* Each element of a flat sequence comes from one of the sequences, and these *)
(* are taken in their order.                                                 *)
Comes(s, seqs, n) ==
    \E from \in [1..Len(s) -> 1..n] :
        /\ \A i, k \in 1..Len(s) : i <= k => from[i] <= from[k]
        /\ \A i \in 1..Len(s) : \E m \in 1..Len(seqs[from[i]]) : s[i] = seqs[from[i]][m]

LEMMA ComesOn ==
    ASSUME NEW S, NEW n \in Nat, NEW seqs, NEW s \in Seq(S), Comes(s, seqs, n),
           NEW t \in Seq(S), t = seqs[n + 1]
    PROVE  s \o t \in Seq(S) /\ Comes(s \o t, seqs, n + 1)
<1>1. PICK from \in [1..Len(s) -> 1..n] :
        /\ \A i, k \in 1..Len(s) : i <= k => from[i] <= from[k]
        /\ \A i \in 1..Len(s) : \E m \in 1..Len(seqs[from[i]]) : s[i] = seqs[from[i]][m]
  BY DEF Comes
<1>2. PICK w : w = s \o t
  OBVIOUS
<1>3. /\ w \in Seq(S) /\ Len(w) = Len(s) + Len(t)
      /\ \A i \in 1..(Len(s) + Len(t)) : w[i] = IF i <= Len(s) THEN s[i] ELSE t[i - Len(s)]
  BY <1>2, ConcatProperties
<1>4. Len(s) \in Nat /\ Len(t) \in Nat
  BY LenProperties
<1>5. PICK to : to = [i \in 1..Len(w) |-> IF i <= Len(s) THEN from[i] ELSE n + 1]
  OBVIOUS
<1>6. \A i \in 1..Len(w) : \/ i \in 1..Len(s) /\ to[i] = from[i] /\ from[i] \in 1..n /\ w[i] = s[i]
                           \/ /\ i \in (Len(s) + 1)..Len(w) /\ to[i] = n + 1 /\ w[i] = t[i - Len(s)]
                              /\ i - Len(s) \in 1..Len(t)
  <2> SUFFICES ASSUME NEW i \in 1..Len(w)
               PROVE  \/ i \in 1..Len(s) /\ to[i] = from[i] /\ from[i] \in 1..n /\ w[i] = s[i]
                      \/ /\ i \in (Len(s) + 1)..Len(w) /\ to[i] = n + 1 /\ w[i] = t[i - Len(s)]
                         /\ i - Len(s) \in 1..Len(t)
    OBVIOUS
  <2>1. CASE i <= Len(s)
    <3>1. i \in 1..Len(s) /\ to[i] = from[i] /\ w[i] = s[i]
      BY <1>3, <1>4, <1>5, <2>1
    <3>2. from[i] \in 1..n
      BY <1>1, <3>1
    <3> QED BY <3>1, <3>2
  <2>2. CASE ~(i <= Len(s))
    BY <1>3, <1>4, <1>5, <2>2
  <2> QED BY <2>1, <2>2
<1>7. to \in [1..Len(w) -> 1..(n + 1)]
  <2>1. \A i \in 1..Len(w) : to[i] \in 1..(n + 1)
    BY <1>6
  <2> QED BY <1>5, <2>1
<1>8. ASSUME NEW i \in 1..Len(w), NEW k \in 1..Len(w), i <= k PROVE to[i] <= to[k]
  BY <1>1, <1>4, <1>6, <1>8
<1>9. ASSUME NEW i \in 1..Len(w)
      PROVE  \E m \in 1..Len(seqs[to[i]]) : w[i] = seqs[to[i]][m]
  BY <1>1, <1>6
<1> QED BY <1>2, <1>3, <1>7, <1>8, <1>9 DEF Comes

LEMMA FlattenIs ==
    ASSUME NEW S, NEW seqs \in Seq(Seq(S))
    PROVE  FlattenSeq(seqs) \in Seq(S) /\ Comes(FlattenSeq(seqs), seqs, Len(seqs))
<1>1. Len(seqs) \in Nat /\ \A n \in 1..Len(seqs) : seqs[n] \in Seq(S)
  BY LenProperties, ElementOfSeq
<1>2. CASE Len(seqs) = 0
  <2>1. FlattenSeq(seqs) = seqs /\ seqs = <<>>
    BY <1>2, EmptySeq DEF FlattenSeq
  <2>2. PICK from : from = [i \in 1..0 |-> 0]
    OBVIOUS
  <2>3. 1..0 = {} /\ from \in [1..0 -> 1..0]
    BY <2>2
  <2>4. Len(<<>>) = 0 /\ <<>> \in Seq(S)
    OBVIOUS
  <2> QED BY <1>2, <2>1, <2>3, <2>4 DEF Comes
<1>3. CASE Len(seqs) # 0
  <2>1. PICK f : /\ f = [i \in 1..Len(seqs) |-> IF i = 1 THEN seqs[i] ELSE f[i - 1] \o seqs[i]]
                 /\ FlattenSeq(seqs) = f[Len(seqs)]
    BY <1>1, <1>3, FlattenDefined, Zenon
  <2>2. \A i \in 1..Len(seqs) : f[i] = IF i = 1 THEN seqs[i] ELSE f[i - 1] \o seqs[i]
    BY <2>1, Zenon
  <2> DEFINE I == {m \in 0..(Len(seqs) - 1) : f[m + 1] \in Seq(S) /\ Comes(f[m + 1], seqs, m + 1)}
  <2>3. 0 \in I
    <3>1. 1 \in 1..Len(seqs) /\ 0 + 1 = 1 /\ 0 \in 0..(Len(seqs) - 1)
      BY <1>1, <1>3
    <3>2. f[1] = seqs[1] /\ f[1] \in Seq(S)
      BY <1>1, <2>2, <3>1
    <3>3. PICK from : from = [i \in 1..Len(f[1]) |-> 1]
      OBVIOUS
    <3>4. from \in [1..Len(f[1]) -> 1..1] /\ \A i \in 1..Len(f[1]) : from[i] = 1
      BY <3>3
    <3>5. \A i \in 1..Len(f[1]) : \E m \in 1..Len(seqs[from[i]]) : f[1][i] = seqs[from[i]][m]
      BY <3>2, <3>4
    <3>6. \A i, k \in 1..Len(f[1]) : i <= k => from[i] <= from[k]
      BY <3>4
    <3>7. Comes(f[1], seqs, 1)
      BY <3>4, <3>5, <3>6 DEF Comes
    <3> QED BY <3>1, <3>2, <3>7
  <2>4. ASSUME NEW k \in 0..((Len(seqs) - 1) - 1), k \in I PROVE k + 1 \in I
    <3>1. /\ k + 1 \in Nat /\ (k + 1) + 1 \in 1..Len(seqs) /\ (k + 1) + 1 # 1
          /\ ((k + 1) + 1) - 1 = k + 1 /\ k + 1 \in 0..(Len(seqs) - 1)
      BY <1>1, <1>3
    <3>2. f[(k + 1) + 1] = f[k + 1] \o seqs[(k + 1) + 1] /\ seqs[(k + 1) + 1] \in Seq(S)
      BY <1>1, <2>2, <3>1
    <3>3. f[k + 1] \in Seq(S) /\ Comes(f[k + 1], seqs, k + 1)
      BY <2>4
    <3>4. f[(k + 1) + 1] \in Seq(S) /\ Comes(f[(k + 1) + 1], seqs, (k + 1) + 1)
      BY <3>1, <3>2, <3>3, ComesOn
    <3> QED BY <3>1, <3>4
  <2>5. Len(seqs) - 1 \in Nat /\ (Len(seqs) - 1) + 1 = Len(seqs)
    BY <1>1, <1>3
  <2>6. Len(seqs) - 1 \in I
    <3> HIDE DEF I
    <3>1. \A m \in 0..(Len(seqs) - 1) : m \in I
      BY <2>3, <2>4, <2>5, UpTo
    <3> QED BY <2>5, <3>1
  <2> QED BY <2>1, <2>5, <2>6
<1> QED BY <1>2, <1>3

-----------------------------------------------------------------------------
(* The addresses the resolver finds                                         *)

(* What name servers have to say, of any host.                               *)
Found(w) == UNION {ToSet(w.dns.host[name]) : name \in DOMAIN w.dns.host}

SrvRecords(w, query) ==
    IF query \in DOMAIN w.dns.srv THEN {r \in ToSet(w.dns.srv[query]) : r.type = "SRV"} ELSE {}

SrvQuery(w, proto) == <<"xmpp-client", proto, Server(w.cfg)>>

RecordsFor(w, a) == {r \in SrvRecords(w, SrvQuery(w, a.proto)) : r.target = a.hostname}

(* A list of addresses to try.                                               *)
AddressFields == {"hostname", "proto", "port", "type", "ip"}

GoodOrder(w, l) ==
    \A i, k \in DOMAIN l :
        /\ l[i].proto = l[k].proto
        /\ i < k /\ RecordsFor(w, l[i]) # {} =>
              \E r \in RecordsFor(w, l[i]), q \in RecordsFor(w, l[k]) :
                  r.prio < q.prio \/ (r.prio = q.prio /\ r.weight >= q.weight)

GoodPort(w, a, port) ==
    /\ port \in Short /\ a.port = Htons(port)
    /\ \/ port = 5222
       \/ w.cfg.port # 0 /\ port = w.cfg.port
       \/ \E r \in RecordsFor(w, a) : port = r.port

GoodList(w, l) ==
    /\ l \in Seq(ToSet(l))
    /\ \A i \in DOMAIN l : DOMAIN l[i] = AddressFields /\ \E port : GoodPort(w, l[i], port)
    /\ GoodOrder(w, l)

LEMMA SeqOwn == ASSUME NEW S, NEW s \in Seq(S) PROVE s \in Seq(ToSet(s)) /\ DOMAIN s = 1..Len(s)
<1>1. Len(s) \in Nat /\ DOMAIN s = 1..Len(s) /\ s = [i \in 1..Len(s) |-> s[i]]
  BY LenProperties
<1>2. s \in [1..Len(s) -> ToSet(s)]
  BY <1>1 DEF ToSet
<1> QED BY <1>1, <1>2, SeqDef

LEMMA ShortIs == 5222 \in Short /\ \A x \in Short : x \in Int
  BY DEF Short

LEMMA AddressIs ==
    ASSUME NEW name, NEW proto, NEW port, NEW a, NEW x, x = Address(name, proto, port, a)
    PROVE  x.hostname = name /\ x.proto = proto /\ x.port = Htons(port) /\ DOMAIN x = AddressFields
  BY DEF Address, AddressFields

LEMMA SrvRecordsAre ==
    ASSUME NEW w \in Worlds, NEW query, NEW r \in SrvRecords(w, query)
    PROVE  r.prio \in Short /\ r.weight \in Short /\ r.port \in Short
<1>1. query \in DOMAIN w.dns.srv /\ r \in ToSet(w.dns.srv[query]) /\ r.type = "SRV"
  BY DEF SrvRecords
<1>2. {r.prio, r.weight, r.port} \subseteq Short
  BY <1>1, WorldAssumption, Zenon
<1> QED BY <1>2

LEMMA LookupHostIs ==
    ASSUME NEW w \in Worlds, NEW name, NEW port, NEW proto
    PROVE  LookupHost(w.dns, name, port, proto) \in Seq({Address(name, proto, port, a) : a \in Found(w)})
<1>1. PICK found : found = DoHostQuery(w.dns, name)
  OBVIOUS
<1>2. found \in Seq(Found(w))
  <2>1. CASE name \in DOMAIN w.dns.host
    <3>1. PICK h : h = w.dns.host[name]
      OBVIOUS
    <3>2. h \in Seq(ToSet(h))
      BY <2>1, <3>1, WorldAssumption, Zenon
    <3>3. ToSet(h) \subseteq Found(w)
      BY <2>1, <3>1 DEF Found
    <3>4. found = Only(h, {a \in ToSet(h) : a.type \in {"ipv4", "ipv6"}})
      BY <1>1, <2>1, <3>1 DEF DoHostQuery
    <3>5. found \in Seq(ToSet(h) \cap {a \in ToSet(h) : a.type \in {"ipv4", "ipv6"}})
      BY <3>2, <3>4, OnlyIs
    <3> QED BY <3>3, <3>5, SeqMonotonic
  <2>2. CASE name \notin DOMAIN w.dns.host
    <3>1. found = <<>>
      BY <1>1, <2>2 DEF DoHostQuery
    <3> QED BY <3>1
  <2> QED BY <2>1, <2>2
<1>3. DOMAIN found = 1..Len(found) /\ Len(found) \in Nat /\ \A i \in 1..Len(found) : found[i] \in Found(w)
  BY <1>2, LenProperties, ElementOfSeq
<1>4. PICK S : S = {Address(name, proto, port, a) : a \in Found(w)}
  OBVIOUS
<1>5. PICK l : l = [i \in 1..Len(found) |-> Address(name, proto, port, found[i])]
  OBVIOUS
<1>6. l \in [1..Len(found) -> S]
  BY <1>3, <1>4, <1>5
<1>7. l \in Seq(S)
  BY <1>3, <1>6, SeqDef
<1>8. LookupHost(w.dns, name, port, proto) = l
  BY <1>1, <1>3, <1>5 DEF LookupHost
<1> QED BY <1>4, <1>7, <1>8

LEMMA DoSrvQueryIs ==
    ASSUME NEW w \in Worlds, NEW query
    PROVE  DoSrvQuery(w.dns, query) \in Seq(SrvRecords(w, query))
<1>1. PICK answer : answer = IF query \in DOMAIN w.dns.srv THEN w.dns.srv[query] ELSE <<>>
  OBVIOUS
<1>2. answer \in Seq(ToSet(answer))
  <2>1. CASE query \in DOMAIN w.dns.srv
    BY <1>1, <2>1, WorldAssumption, Zenon
  <2>2. CASE query \notin DOMAIN w.dns.srv
    BY <1>1, <2>2
  <2> QED BY <2>1, <2>2
<1>3. PICK bad : bad = SelectInSeq(answer, LAMBDA r : r.type = "bad")
  OBVIOUS
<1>4. PICK some : some = IF bad = 0 THEN answer ELSE SubSeq(answer, 1, bad - 1)
  OBVIOUS
<1>5. some \in Seq(ToSet(answer))
  <2>1. CASE bad = 0
    BY <1>2, <1>4, <2>1
  <2>2. CASE bad # 0
    <3> DEFINE I == {i \in 1..Len(answer) : answer[i].type = "bad"}
    <3>1. bad = IF I # {} THEN Min(I) ELSE 0
      BY <1>3 DEF SelectInSeq
    <3>2. Len(answer) \in Nat /\ \A i \in 1..Len(answer) : answer[i] \in ToSet(answer)
      BY <1>2, LenProperties, ElementOfSeq
    <3>3. I # {} /\ I \in SUBSET Nat /\ I \subseteq 1..Len(answer)
      BY <2>2, <3>1, <3>2
    <3>4. bad \in I
      <4> HIDE DEF I
      <4>1. \E i \in I : \A k \in I : i <= k
        BY <3>3, LeastNat
      <4> QED BY <2>2, <3>1, <4>1 DEF Min
    <3>5. bad \in 1..Len(answer)
      BY <3>4
    <3>6. bad - 1 \in Int /\ 1 \in Int /\ \A i \in 1..(bad - 1) : answer[i] \in ToSet(answer)
      BY <3>2, <3>5
    <3> HIDE DEF I
    <3>7. SubSeq(answer, 1, bad - 1) \in Seq(ToSet(answer))
      BY <3>6, SubSeqProperties
    <3> QED BY <1>4, <2>2, <3>7
  <2> QED BY <2>1, <2>2
<1>6. PICK S : S = {r \in ToSet(answer) : r.type = "SRV"}
  OBVIOUS
<1>7. DoSrvQuery(w.dns, query) = Only(some, S)
  BY <1>1, <1>3, <1>4, <1>6 DEF DoSrvQuery
<1>8. Only(some, S) \in Seq(ToSet(answer) \cap S)
  BY <1>5, OnlyIs
<1>9. ToSet(answer) \cap S \subseteq SrvRecords(w, query)
  <2>1. CASE query \in DOMAIN w.dns.srv
    BY <1>1, <1>6, <2>1 DEF SrvRecords
  <2>2. CASE query \notin DOMAIN w.dns.srv
    BY <1>1, <2>2 DEF ToSet
  <2> QED BY <2>1, <2>2
<1> QED BY <1>7, <1>8, <1>9, SeqMonotonic

LEMMA SortedIs ==
    ASSUME NEW R, NEW records \in Seq(R), NEW s \in Sorted(records)
    PROVE  s \in Seq(R) /\ \A i, k \in 1..Len(s) : i < k => ~Before(s[k], s[i])
<1>1. Len(records) \in Nat /\ DOMAIN records = 1..Len(records)
      /\ \A i \in 1..Len(records) : records[i] \in R
  BY LenProperties, ElementOfSeq
<1>2. PICK n : n = Len(records)
  OBVIOUS
<1>3. /\ \E p \in [1..n -> 1..n] : s = [i \in 1..n |-> records[p[i]]]
      /\ \A i, k \in 1..n : i < k => ~Before(s[k], s[i])
  BY <1>1, <1>2 DEF Sorted
<1>4. PICK p \in [1..n -> 1..n] : s = [i \in 1..n |-> records[p[i]]]
  BY <1>3
<1>5. s \in [1..n -> R] /\ n \in Nat
  BY <1>1, <1>2, <1>4
<1>6. s \in Seq(R)
  BY <1>5, SeqDef
<1>7. Len(s) = n
  BY <1>5, <1>6, LenProperties
<1> QED BY <1>3, <1>6, <1>7

(* The addresses of the records of an answer.                                *)
LEMMA LookupSrvIs ==
    ASSUME NEW w \in Worlds, NEW proto,
           NEW l \in LookupSrv(w.dns, Server(w.cfg), proto, "xmpp-client", FALSE)
    PROVE  GoodList(w, l)
<1>1. PICK R : R = SrvRecords(w, SrvQuery(w, proto))
  OBVIOUS
<1>2. PICK s : /\ s \in Seq(R) /\ \A i, k \in 1..Len(s) : i < k => ~Before(s[k], s[i])
               /\ l = FlattenSeq([i \in DOMAIN s |-> LookupHost(w.dns, s[i].target, s[i].port, proto)])
  <2>1. PICK all : all = DoSrvQuery(w.dns, SrvQuery(w, proto))
    OBVIOUS
  <2>2. PICK records : records = IF Len(all) = 1 /\ all[1].target = "." THEN <<>> ELSE all
    OBVIOUS
  <2>3. records \in Seq(R)
    <3>1. all \in Seq(R)
      BY <1>1, <2>1, DoSrvQueryIs
    <3> QED BY <2>2, <3>1
  <2>4. \E s \in Sorted(records) :
            l = FlattenSeq([i \in DOMAIN s |-> LookupHost(w.dns, s[i].target, s[i].port, proto)])
    BY <2>1, <2>2 DEF LookupSrv, SrvQuery
  <2>5. PICK s \in Sorted(records) :
            l = FlattenSeq([i \in DOMAIN s |-> LookupHost(w.dns, s[i].target, s[i].port, proto)])
    BY <2>4
  <2>6. s \in Seq(R) /\ \A i, k \in 1..Len(s) : i < k => ~Before(s[k], s[i])
    BY <2>3, SortedIs
  <2> QED BY <2>5, <2>6
<1>3. Len(s) \in Nat /\ DOMAIN s = 1..Len(s) /\ \A i \in 1..Len(s) : s[i] \in R
  BY <1>2, LenProperties, ElementOfSeq
<1>4. PICK seqs : seqs = [i \in 1..Len(s) |-> LookupHost(w.dns, s[i].target, s[i].port, proto)]
  OBVIOUS
<1>5. PICK S : S = UNION {{Address(r.target, proto, r.port, a) : a \in Found(w)} : r \in R}
  OBVIOUS
<1>6. ASSUME NEW i \in 1..Len(s)
      PROVE  /\ seqs[i] \in Seq({Address(s[i].target, proto, s[i].port, a) : a \in Found(w)})
             /\ seqs[i] \in Seq(S)
  <2>1. seqs[i] \in Seq({Address(s[i].target, proto, s[i].port, a) : a \in Found(w)})
    <3>1. PICK name, port : name = s[i].target /\ port = s[i].port
      OBVIOUS
    <3>2. seqs[i] = LookupHost(w.dns, name, port, proto)
      BY <1>4, <3>1
    <3>3. seqs[i] \in Seq({Address(name, proto, port, a) : a \in Found(w)})
      BY <3>2, LookupHostIs
    <3> QED BY <3>1, <3>3
  <2>2. {Address(s[i].target, proto, s[i].port, a) : a \in Found(w)} \subseteq S
    BY <1>3, <1>5
  <2> QED BY <2>1, <2>2, SeqMonotonic
<1>7. seqs \in Seq(Seq(S)) /\ Len(seqs) = Len(s)
  <2>1. seqs \in [1..Len(s) -> Seq(S)]
    BY <1>4, <1>6
  <2>2. seqs \in Seq(Seq(S))
    BY <1>3, <2>1, SeqDef
  <2> QED BY <1>3, <2>1, <2>2, LenProperties
<1>8. l \in Seq(S) /\ Comes(l, seqs, Len(s))
  BY <1>2, <1>3, <1>4, <1>7, FlattenIs
<1>9. l \in Seq(ToSet(l)) /\ DOMAIN l = 1..Len(l)
  BY <1>8, SeqOwn
<1>10. PICK from \in [1..Len(l) -> 1..Len(s)] :
         /\ \A i, k \in 1..Len(l) : i <= k => from[i] <= from[k]
         /\ \A i \in 1..Len(l) : \E m \in 1..Len(seqs[from[i]]) : l[i] = seqs[from[i]][m]
  BY <1>8 DEF Comes
<1>11. ASSUME NEW i \in 1..Len(l)
       PROVE  /\ l[i].hostname = s[from[i]].target /\ l[i].proto = proto
              /\ l[i].port = Htons(s[from[i]].port) /\ DOMAIN l[i] = AddressFields
              /\ s[from[i]] \in RecordsFor(w, l[i]) /\ s[from[i]] \in R
  <2>1. PICK j \in 1..Len(s) : j = from[i]
    BY <1>10
  <2>2. PICK m \in 1..Len(seqs[j]) : l[i] = seqs[j][m]
    BY <1>10, <2>1
  <2>3. l[i] \in {Address(s[j].target, proto, s[j].port, a) : a \in Found(w)}
    BY <1>6, <2>2, ElementOfSeq
  <2>4. PICK a : l[i] = Address(s[j].target, proto, s[j].port, a)
    BY <2>3
  <2>5. /\ l[i].hostname = s[j].target /\ l[i].proto = proto
        /\ l[i].port = Htons(s[j].port) /\ DOMAIN l[i] = AddressFields
    BY <2>4, AddressIs
  <2>6. s[j] \in R
    BY <1>3
  <2>7. s[j] \in RecordsFor(w, l[i])
    BY <1>1, <2>5, <2>6 DEF RecordsFor
  <2> QED BY <2>1, <2>5, <2>6, <2>7
<1>12. ASSUME NEW i \in 1..Len(l), NEW k \in 1..Len(l), i < k
       PROVE  \E r \in RecordsFor(w, l[i]), q \in RecordsFor(w, l[k]) :
                  r.prio < q.prio \/ (r.prio = q.prio /\ r.weight >= q.weight)
  <2>1. PICK r, q : r = s[from[i]] /\ q = s[from[k]]
    OBVIOUS
  <2>2. r \in RecordsFor(w, l[i]) /\ q \in RecordsFor(w, l[k]) /\ r \in R /\ q \in R
    BY <1>11, <2>1
  <2>3. r.prio \in Short /\ r.weight \in Short /\ q.prio \in Short /\ q.weight \in Short
    BY <1>1, <2>2, SrvRecordsAre
  <2>4. from[i] \in 1..Len(s) /\ from[k] \in 1..Len(s) /\ from[i] <= from[k]
    BY <1>10, <1>12
  <2>5. CASE from[i] = from[k]
    <3>1. r = q /\ r.weight \in Int
      BY <2>1, <2>3, <2>5, ShortIs
    <3>2. r.prio = q.prio /\ r.weight >= q.weight
      BY <3>1
    <3> QED BY <2>2, <3>2
  <2>6. CASE from[i] # from[k]
    <3>1. from[i] < from[k]
      BY <2>4, <2>6
    <3>2. ~Before(q, r)
      BY <1>2, <2>1, <2>4, <3>1
    <3>3. r.prio < q.prio \/ (r.prio = q.prio /\ r.weight >= q.weight)
      <4>1. r.prio \in Int /\ r.weight \in Int /\ q.prio \in Int /\ q.weight \in Int
        BY <2>3, ShortIs
      <4> QED BY <3>2, <4>1 DEF Before
    <3> QED BY <2>2, <3>3
  <2> QED BY <2>5, <2>6
<1>13. ASSUME NEW i \in 1..Len(l) PROVE GoodPort(w, l[i], s[from[i]].port)
  BY <1>1, <1>11, SrvRecordsAre DEF GoodPort
<1>14. GoodOrder(w, l)
  BY <1>9, <1>11, <1>12 DEF GoodOrder
<1> QED BY <1>9, <1>11, <1>13, <1>14 DEF GoodList

(* The addresses of a host.                                                  *)
LEMMA HostListIs ==
    ASSUME NEW w \in Worlds, NEW proto, NEW port \in Short, NEW l,
           port = 5222 \/ (w.cfg.port # 0 /\ port = w.cfg.port),
           l = LookupHost(w.dns, Server(w.cfg), port, proto)
    PROVE  GoodList(w, l)
<1>1. l \in Seq({Address(Server(w.cfg), proto, port, a) : a \in Found(w)})
  BY LookupHostIs
<1>2. l \in Seq(ToSet(l)) /\ DOMAIN l = 1..Len(l)
  BY <1>1, SeqOwn
<1>3. ASSUME NEW i \in 1..Len(l)
      PROVE  /\ l[i].hostname = Server(w.cfg) /\ l[i].proto = proto
             /\ l[i].port = Htons(port) /\ DOMAIN l[i] = AddressFields
  <2>1. l[i] \in {Address(Server(w.cfg), proto, port, a) : a \in Found(w)}
    BY <1>1, ElementOfSeq
  <2> QED BY <2>1, AddressIs
<1>4. \A i \in DOMAIN l : GoodPort(w, l[i], port)
  BY <1>2, <1>3 DEF GoodPort
<1>5. ASSUME NEW i \in DOMAIN l, NEW k \in DOMAIN l, RecordsFor(w, l[i]) # {}
      PROVE  \E r \in RecordsFor(w, l[i]), q \in RecordsFor(w, l[k]) :
                  r.prio < q.prio \/ (r.prio = q.prio /\ r.weight >= q.weight)
  <2>1. RecordsFor(w, l[i]) = RecordsFor(w, l[k])
    BY <1>2, <1>3 DEF RecordsFor
  <2>2. PICK r : r \in RecordsFor(w, l[i])
    BY <1>5
  <2>3. r.prio \in Short /\ r.weight \in Short
    BY <2>2, SrvRecordsAre DEF RecordsFor
  <2>4. r.prio = r.prio /\ r.weight >= r.weight
    BY <2>3, ShortIs
  <2> QED BY <2>1, <2>2, <2>4
<1>6. GoodOrder(w, l)
  BY <1>2, <1>3, <1>5 DEF GoodOrder
<1> QED BY <1>2, <1>3, <1>4, <1>6 DEF GoodList

(* Whatever name servers answer.                                             *)
LEMMA ListsAreGood ==
    ASSUME NEW w \in Worlds, NEW l \in ServerAddressLists(w.cfg, w.dns)
    PROVE  GoodList(w, l)
<1>1. \/ \E proto : l \in LookupSrv(w.dns, Server(w.cfg), proto, "xmpp-client", FALSE)
      \/ \E proto : l = LookupHost(w.dns, Server(w.cfg), IF w.cfg.port = 0 THEN 5222 ELSE w.cfg.port, proto)
  <2>1. PICK proto : proto = IF w.cfg.protocol = "any" THEN "tcp" ELSE w.cfg.protocol
    OBVIOUS
  <2>2. \/ l \in SrvLists(w.cfg, w.dns, Head(Answered(w.cfg, w.dns)))
        \/ l = LookupHost(w.dns, Server(w.cfg), IF w.cfg.port = 0 THEN 5222 ELSE w.cfg.port, proto)
    BY <2>1 DEF ServerAddressLists
  <2> QED BY <2>2, Zenon DEF SrvLists
<1>2. CASE \E proto : l \in LookupSrv(w.dns, Server(w.cfg), proto, "xmpp-client", FALSE)
  BY <1>2, LookupSrvIs
<1>3. CASE \E proto : l = LookupHost(w.dns, Server(w.cfg), IF w.cfg.port = 0 THEN 5222 ELSE w.cfg.port, proto)
  <2>1. PICK port : port = IF w.cfg.port = 0 THEN 5222 ELSE w.cfg.port
    OBVIOUS
  <2>2. w.cfg.port \in Short
    BY WorldAssumption, Zenon
  <2>3. port \in Short /\ (port = 5222 \/ (w.cfg.port # 0 /\ port = w.cfg.port))
    BY <2>1, <2>2, ShortIs
  <2> QED BY <1>3, <2>1, <2>3, HostListIs
<1> QED BY <1>1, <1>2, <1>3

-----------------------------------------------------------------------------
(* Types: what TypeOK says, the fields of a socket, the list of addresses and  *)
(* where each thread may be.                                                 *)

Places ==
    /\ at["run"] \in RunAt
    /\ at["rx"] \in RxAt
    /\ at["worker"] \in {"idle", "result"} \cup AnsweringAt
    /\ at["timer"] \in {"idle"} \cup AnsweringAt

(* The parts of TypeOK: the threads, their waits, the results being reported, *)
(* the network and the counters, the socket, the addresses.                  *)
WaitTypes ==
    /\ frame \in [Wait -> [id : Nat, alive : BOOLEAN, connected : BOOLEAN, sem : Nat]]
    /\ cb \in [Wait -> Nat]

JobTypes ==
    /\ job \in [Answerer -> Job]
    /\ msg \in [wait : Wait, close : BOOLEAN] \cup {NoMsg}

NetTypes ==
    /\ ops \subseteq Wait
    /\ net \in {"down", "pending", "up", "refused"}
    /\ hs \in {"none", "hello", "answer"}
    /\ wild \in BOOLEAN

CountTypes == runs \in 0..MaxRun /\ proceeds \in 0..MaxProceed

SockTypes ==
    /\ DOMAIN sock = SockFields
    /\ fds \in Nat
    /\ sock.fd \in 0..fds /\ sock.ssl \in 0..fds
    /\ sock.connected \in BOOLEAN /\ sock.tls \in BOOLEAN

ListTypes == world \in Worlds /\ list \in Seq(ToSet(list)) /\ pos \in 0..Len(list)

Types == TypeOK /\ JobTypes /\ SockTypes /\ ListTypes /\ Places

(* Every step keeps the places of the threads.                               *)
LEMMA PlacesStep == ASSUME Types, [Next]_vars PROVE Places'
<1> USE DEF Types, TypeOK, Places, Answerer, RunAt, RxAt, AnsweringAt, Thread
<1>1. CASE Run
  BY <1>1 DEF Run, Enter, Goto, loopVars
<1>2. CASE NextAddress
  BY <1>2 DEF NextAddress, Goto, loopVars
<1>3. CASE Connect
  BY <1>3 DEF Connect, Goto, loopVars
<1>4. CASE WaitConnected
  BY <1>4 DEF WaitConnected, Take, Goto, loopVars
<1>5. CASE CloseFd("run", "close", "trywait")
  BY <1>5 DEF CloseFd, Goto, loopVars
<1>6. CASE ClearFd("run", "close2", "trywait")
  BY <1>6 DEF ClearFd, Goto, loopVars
<1>7. CASE TryWait
  BY <1>7 DEF TryWait, Take, Goto, loopVars
<1>8. CASE End
  BY <1>8 DEF End, Goto, loopVars
<1>9. CASE RunReturn
  BY <1>9 DEF RunReturn, Goto, loopVars
<1>10. CASE CloseFd("run", "lastclose", "return")
  BY <1>10 DEF CloseFd, Goto, loopVars
<1>11. CASE ClearFd("run", "lastclose2", "return")
  BY <1>11 DEF ClearFd, Goto, loopVars
<1>12. CASE StreamEnds
  BY <1>12 DEF StreamEnds, Goto, loopVars
<1>13. CASE Proceed
  BY <1>13 DEF Proceed, Enter, Goto, loopVars
<1>14. CASE EnableTls
  BY <1>14 DEF EnableTls, Goto, loopVars
<1>15. CASE WaitTls
  BY <1>15 DEF WaitTls, Take, Goto, loopVars
<1>16. CASE AfterTls
  BY <1>16 DEF AfterTls, Take, Goto, loopVars
<1>17. CASE ClearTlsCb
  BY <1>17 DEF ClearTlsCb, Goto, loopVars
<1>18. CASE TlsReturn
  BY <1>18 DEF TlsReturn, Goto, loopVars
<1>19. CASE Execute
  BY <1>19 DEF Execute, Goto, loopVars
<1>20. CASE HandleConnectionResult
  BY <1>20 DEF HandleConnectionResult, SetJob, Goto, loopVars
<1>21. CASE HandleTlsConnectionResult
  BY <1>21 DEF HandleTlsConnectionResult, SetJob, Goto, loopVars
<1>22. CASE MsgTimer
  BY <1>22 DEF MsgTimer, SetJob, Goto, loopVars
<1>23. CASE Network
  BY <1>23 DEF Network, loopVars
<1>24. CASE StopStream
  BY <1>24 DEF StopStream, loopVars
<1>25. ASSUME NEW t \in Answerer, CloseFd(t, "close", "call") PROVE Places'
  BY <1>25 DEF CloseFd, Goto, loopVars
<1>26. ASSUME NEW t \in Answerer, ClearFd(t, "close2", "call") PROVE Places'
  BY <1>26 DEF ClearFd, Goto, loopVars
<1>27. ASSUME NEW t \in Answerer, Call(t) PROVE Places'
  BY <1>27 DEF Call, Goto, loopVars
<1>28. ASSUME NEW t \in Answerer, WriteFlag(t) PROVE Places'
  BY <1>28 DEF WriteFlag, Goto, loopVars
<1>29. ASSUME NEW t \in Answerer, Post(t) PROVE Places'
  BY <1>29 DEF Post, Goto, loopVars
<1>30. CASE UNCHANGED vars
  BY <1>30 DEF vars, loopVars
<1> QED BY <1>1, <1>2, <1>3, <1>4, <1>5, <1>6, <1>7, <1>8, <1>9, <1>10, <1>11,
          <1>12, <1>13, <1>14, <1>15, <1>16, <1>17, <1>18, <1>19, <1>20,
          <1>21, <1>22, <1>23, <1>24, <1>25, <1>26, <1>27, <1>28, <1>29, <1>30
          DEF Next, RunThread, RxThread, WorkerThread, TimerThread, Answering,
          Answerer

(* A sequence is one of its own elements, and stays one when another takes    *)
(* the place of one of them.                                                 *)
LEMMA OwnSet ==
    ASSUME NEW s, s \in Seq(ToSet(s)), NEW i \in DOMAIN s, NEW x
    PROVE  [s EXCEPT ![i] = x] \in Seq(ToSet([s EXCEPT ![i] = x]))
<1> DEFINE r == [s EXCEPT ![i] = x]
<1>1. r \in Seq(ToSet(s) \cup {x})
  OBVIOUS
<1>2. Len(r) \in Nat /\ DOMAIN r = 1..Len(r) /\ r = [j \in 1..Len(r) |-> r[j]]
  BY <1>1
<1>3. \A j \in 1..Len(r) : r[j] \in ToSet(r)
  BY <1>2 DEF ToSet
<1>4. r \in [1..Len(r) -> ToSet(r)]
  BY <1>2, <1>3
<1>5. r \in Seq(ToSet(r))
  <2> HIDE DEF r
  <2> QED BY <1>2, <1>4, SeqDef
<1> QED BY <1>5

(* The types of a frame that is entered, and of one whose semaphore changes.  *)
LEMMA FrameTypes ==
    ASSUME WaitTypes, NEW w \in Wait
    PROVE  /\ \A b \in BOOLEAN : Enter(w, b) => WaitTypes'
           /\ Take(w) /\ UNCHANGED cb => WaitTypes'
           /\ \A b \in BOOLEAN : frame' = [frame EXCEPT ![w].connected = b] /\ UNCHANGED cb => WaitTypes'
           /\ \A b \in BOOLEAN : frame' = [frame EXCEPT ![w].alive = b] /\ UNCHANGED cb => WaitTypes'
           /\ frame' = [frame EXCEPT ![w].sem = @ + 1] /\ UNCHANGED cb => WaitTypes'
<1>1. ASSUME NEW r \in [id : Nat, alive : BOOLEAN, connected : BOOLEAN, sem : Nat],
             frame' = [frame EXCEPT ![w] = r], cb' \in [Wait -> Nat]
      PROVE  WaitTypes'
  BY <1>1 DEF WaitTypes
<1>2. frame[w] \in [id : Nat, alive : BOOLEAN, connected : BOOLEAN, sem : Nat]
  BY DEF WaitTypes
<1>3. ASSUME NEW b \in BOOLEAN, Enter(w, b) PROVE WaitTypes'
  <2>1. cb' \in [Wait -> Nat] /\ frame[w].id + 1 \in Nat
    BY <1>2, <1>3 DEF Enter, WaitTypes
  <2> DEFINE r == [id |-> frame[w].id + 1, alive |-> TRUE, connected |-> b, sem |-> 0]
  <2>2. r \in [id : Nat, alive : BOOLEAN, connected : BOOLEAN, sem : Nat] /\ frame' = [frame EXCEPT ![w] = r]
    BY <1>3, <2>1 DEF Enter
  <2> QED BY <1>1, <2>1, <2>2
<1>4. ASSUME Take(w), UNCHANGED cb PROVE WaitTypes'
  <2> DEFINE n == IF frame[w].sem > 0 THEN frame[w].sem - 1 ELSE 0
             r == [frame[w] EXCEPT !.sem = n]
  <2>1. n \in Nat
    BY <1>2
  <2>2. r \in [id : Nat, alive : BOOLEAN, connected : BOOLEAN, sem : Nat]
    <3> HIDE DEF n
    <3> QED BY <1>2, <2>1
  <2>3. frame' = [frame EXCEPT ![w] = r]
    BY <1>4 DEF Take
  <2>4. cb' \in [Wait -> Nat]
    BY <1>4 DEF WaitTypes
  <2> HIDE DEF r
  <2> QED BY <1>1, <2>2, <2>3, <2>4
<1>5. ASSUME NEW b \in BOOLEAN, frame' = [frame EXCEPT ![w].connected = b], UNCHANGED cb PROVE WaitTypes'
  BY <1>1, <1>2, <1>5 DEF WaitTypes
<1>6. ASSUME NEW b \in BOOLEAN, frame' = [frame EXCEPT ![w].alive = b], UNCHANGED cb PROVE WaitTypes'
  BY <1>1, <1>2, <1>6 DEF WaitTypes
<1>7. ASSUME frame' = [frame EXCEPT ![w].sem = @ + 1], UNCHANGED cb PROVE WaitTypes'
  BY <1>1, <1>2, <1>7 DEF WaitTypes
<1> QED BY <1>3, <1>4, <1>5, <1>6, <1>7

(* The types of a result that is being reported, and of one that will be.     *)
LEMMA ResultTypes ==
    ASSUME JobTypes
    PROVE  /\ \A t \in Answerer, w \in Wait, ok \in BOOLEAN :
                 SetJob(t, w, ok) /\ (UNCHANGED msg \/ msg' = NoMsg) => JobTypes'
           /\ \A t \in Answerer, n \in Nat :
                 job' = [job EXCEPT ![t].frame = n] /\ UNCHANGED msg => JobTypes'
           /\ \A w \in Wait, c \in BOOLEAN :
                 msg' = [wait |-> w, close |-> c] /\ UNCHANGED job => JobTypes'
<1> USE DEF JobTypes, Job, NoMsg
<1>1. ASSUME NEW t \in Answerer, NEW j \in Job, job' = [job EXCEPT ![t] = j],
             UNCHANGED msg \/ msg' = NoMsg
      PROVE  JobTypes'
  <2>1. job' \in [Answerer -> Job]
    BY <1>1
  <2>2. msg' \in [wait : Wait, close : BOOLEAN] \cup {NoMsg}
    BY <1>1
  <2> QED BY <2>1, <2>2
<1>2. ASSUME NEW t \in Answerer, NEW w \in Wait, NEW ok \in BOOLEAN, SetJob(t, w, ok),
             UNCHANGED msg \/ msg' = NoMsg
      PROVE  JobTypes'
  BY <1>1, <1>2 DEF SetJob
<1>3. ASSUME NEW t \in Answerer, NEW n \in Nat, job' = [job EXCEPT ![t].frame = n], UNCHANGED msg
      PROVE  JobTypes'
  BY <1>1, <1>3
<1>4. ASSUME NEW w \in Wait, NEW c \in BOOLEAN, msg' = [wait |-> w, close |-> c], UNCHANGED job
      PROVE  JobTypes'
  BY <1>4
<1> QED BY <1>2, <1>3, <1>4

(* The types of a socket of which the named fields change.                    *)
LEMMA SockFieldTypes ==
    ASSUME SockTypes, NEW s, DOMAIN s = SockFields, NEW n, fds' = n, n \in {fds, fds + 1},
           s.fd \in 0..n, s.ssl \in 0..n, s.connected \in BOOLEAN, s.tls \in BOOLEAN,
           sock' = s
    PROVE  SockTypes'
BY DEF SockTypes

(* Every step keeps each thread somewhere.                                   *)
LEMMA AtTypesStep == ASSUME Types, [Next]_vars PROVE (at \in [Thread -> Pc])'
<1> USE DEF Types, TypeOK, Places, Answerer, RunAt, RxAt, AnsweringAt, Thread, Pc
<1>1. CASE Run
  BY <1>1 DEF Run, Enter, Goto, loopVars
<1>2. CASE NextAddress
  BY <1>2 DEF NextAddress, Goto, loopVars
<1>3. CASE Connect
  BY <1>3 DEF Connect, Goto, loopVars
<1>4. CASE WaitConnected
  BY <1>4 DEF WaitConnected, Take, Goto, loopVars
<1>5. CASE CloseFd("run", "close", "trywait")
  BY <1>5 DEF CloseFd, Goto, loopVars
<1>6. CASE ClearFd("run", "close2", "trywait")
  BY <1>6 DEF ClearFd, Goto, loopVars
<1>7. CASE TryWait
  BY <1>7 DEF TryWait, Take, Goto, loopVars
<1>8. CASE End
  BY <1>8 DEF End, Goto, loopVars
<1>9. CASE RunReturn
  BY <1>9 DEF RunReturn, Goto, loopVars
<1>10. CASE CloseFd("run", "lastclose", "return")
  BY <1>10 DEF CloseFd, Goto, loopVars
<1>11. CASE ClearFd("run", "lastclose2", "return")
  BY <1>11 DEF ClearFd, Goto, loopVars
<1>12. CASE StreamEnds
  BY <1>12 DEF StreamEnds, Goto, loopVars
<1>13. CASE Proceed
  BY <1>13 DEF Proceed, Enter, Goto, loopVars
<1>14. CASE EnableTls
  BY <1>14 DEF EnableTls, Goto, loopVars
<1>15. CASE WaitTls
  BY <1>15 DEF WaitTls, Take, Goto, loopVars
<1>16. CASE AfterTls
  BY <1>16 DEF AfterTls, Take, Goto, loopVars
<1>17. CASE ClearTlsCb
  BY <1>17 DEF ClearTlsCb, Goto, loopVars
<1>18. CASE TlsReturn
  BY <1>18 DEF TlsReturn, Goto, loopVars
<1>19. CASE Execute
  BY <1>19 DEF Execute, Goto, loopVars
<1>20. CASE HandleConnectionResult
  BY <1>20 DEF HandleConnectionResult, SetJob, Goto, loopVars
<1>21. CASE HandleTlsConnectionResult
  BY <1>21 DEF HandleTlsConnectionResult, SetJob, Goto, loopVars
<1>22. CASE MsgTimer
  BY <1>22 DEF MsgTimer, SetJob, Goto, loopVars
<1>23. CASE Network
  BY <1>23 DEF Network, loopVars
<1>24. CASE StopStream
  BY <1>24 DEF StopStream, loopVars
<1>25. ASSUME NEW t \in Answerer, CloseFd(t, "close", "call") PROVE (at \in [Thread -> Pc])'
  BY <1>25 DEF CloseFd, Goto, loopVars
<1>26. ASSUME NEW t \in Answerer, ClearFd(t, "close2", "call") PROVE (at \in [Thread -> Pc])'
  BY <1>26 DEF ClearFd, Goto, loopVars
<1>27. ASSUME NEW t \in Answerer, Call(t) PROVE (at \in [Thread -> Pc])'
  BY <1>27 DEF Call, Goto, loopVars
<1>28. ASSUME NEW t \in Answerer, WriteFlag(t) PROVE (at \in [Thread -> Pc])'
  BY <1>28 DEF WriteFlag, Goto, loopVars
<1>29. ASSUME NEW t \in Answerer, Post(t) PROVE (at \in [Thread -> Pc])'
  BY <1>29 DEF Post, Goto, loopVars
<1>30. CASE UNCHANGED vars
  BY <1>30 DEF vars, loopVars
<1> QED BY <1>1, <1>2, <1>3, <1>4, <1>5, <1>6, <1>7, <1>8, <1>9, <1>10, <1>11,
          <1>12, <1>13, <1>14, <1>15, <1>16, <1>17, <1>18, <1>19, <1>20,
          <1>21, <1>22, <1>23, <1>24, <1>25, <1>26, <1>27, <1>28, <1>29, <1>30
          DEF Next, RunThread, RxThread, WorkerThread, TimerThread, Answering,
          Answerer

(* Every step keeps the types of the waits.                                  *)
LEMMA WaitTypesStep == ASSUME Types, WaitTypes, [Next]_vars PROVE WaitTypes'
<1> USE DEF Types, TypeOK, Places, Answerer, RunAt, RxAt, AnsweringAt, Thread, WaitTypes, Wait
<1>1. CASE Run
  <2>1. \E b \in BOOLEAN : Enter("connect", b)
    BY <1>1 DEF Run
  <2> QED BY <2>1, FrameTypes
<1>2. CASE NextAddress
  BY <1>2, FrameTypes DEF NextAddress, loopVars
<1>3. CASE Connect
  BY <1>3 DEF Connect, Goto, loopVars
<1>4. CASE WaitConnected
  BY <1>4, FrameTypes DEF WaitConnected, loopVars
<1>5. CASE CloseFd("run", "close", "trywait")
  BY <1>5 DEF CloseFd, Goto, loopVars
<1>6. CASE ClearFd("run", "close2", "trywait")
  BY <1>6 DEF ClearFd, Goto, loopVars
<1>7. CASE TryWait
  BY <1>7, FrameTypes DEF TryWait, loopVars
<1>8. CASE End
  BY <1>8 DEF End, Goto, loopVars
<1>9. CASE RunReturn
  BY <1>9, FrameTypes DEF RunReturn, loopVars
<1>10. CASE CloseFd("run", "lastclose", "return")
  BY <1>10 DEF CloseFd, Goto, loopVars
<1>11. CASE ClearFd("run", "lastclose2", "return")
  BY <1>11 DEF ClearFd, Goto, loopVars
<1>12. CASE StreamEnds
  BY <1>12 DEF StreamEnds, Goto, loopVars
<1>13. CASE Proceed
  <2>1. Enter("tls", FALSE) \/ UNCHANGED <<frame, cb>>
    BY <1>13 DEF Proceed
  <2> QED BY <2>1, FrameTypes
<1>14. CASE EnableTls
  BY <1>14 DEF EnableTls, Goto, loopVars
<1>15. CASE WaitTls
  BY <1>15, FrameTypes DEF WaitTls, loopVars
<1>16. CASE AfterTls
  BY <1>16, FrameTypes DEF AfterTls, loopVars
<1>17. CASE ClearTlsCb
  BY <1>17 DEF ClearTlsCb, Goto, loopVars
<1>18. CASE TlsReturn
  BY <1>18, FrameTypes DEF TlsReturn, loopVars
<1>19. CASE Execute
  BY <1>19 DEF Execute, Goto, loopVars
<1>20. CASE HandleConnectionResult
  BY <1>20 DEF HandleConnectionResult, SetJob, Goto, loopVars
<1>21. CASE HandleTlsConnectionResult
  BY <1>21 DEF HandleTlsConnectionResult, SetJob, Goto, loopVars
<1>22. CASE MsgTimer
  BY <1>22 DEF MsgTimer, SetJob, Goto, loopVars
<1>23. CASE Network
  BY <1>23 DEF Network, loopVars
<1>24. CASE StopStream
  BY <1>24 DEF StopStream, loopVars
<1>25. ASSUME NEW t \in Answerer, CloseFd(t, "close", "call") PROVE WaitTypes'
  BY <1>25 DEF CloseFd, Goto, loopVars
<1>26. ASSUME NEW t \in Answerer, ClearFd(t, "close2", "call") PROVE WaitTypes'
  BY <1>26 DEF ClearFd, Goto, loopVars
<1>27. ASSUME NEW t \in Answerer, Call(t) PROVE WaitTypes'
  BY <1>27 DEF Call, Goto, loopVars
<1>28. ASSUME NEW t \in Answerer, WriteFlag(t) PROVE WaitTypes'
  <2>1. job[t].wait \in Wait /\ job[t].ok \in BOOLEAN
    BY <1>28 DEF Job
  <2> QED BY <1>28, <2>1, FrameTypes DEF WriteFlag, loopVars
<1>29. ASSUME NEW t \in Answerer, Post(t) PROVE WaitTypes'
  <2>1. job[t].wait \in Wait
    BY <1>29 DEF Job
  <2> QED BY <1>29, <2>1, FrameTypes DEF Post, loopVars
<1>30. CASE UNCHANGED vars
  BY <1>30 DEF vars, loopVars
<1> QED BY <1>1, <1>2, <1>3, <1>4, <1>5, <1>6, <1>7, <1>8, <1>9, <1>10, <1>11,
          <1>12, <1>13, <1>14, <1>15, <1>16, <1>17, <1>18, <1>19, <1>20,
          <1>21, <1>22, <1>23, <1>24, <1>25, <1>26, <1>27, <1>28, <1>29, <1>30
          DEF Next, RunThread, RxThread, WorkerThread, TimerThread, Answering,
          Answerer

(* Every step keeps the types of the results being reported.                 *)
LEMMA JobTypesStep == ASSUME Types, JobTypes, [Next]_vars PROVE JobTypes'
<1> USE DEF Types, TypeOK, Places, Answerer, RunAt, RxAt, AnsweringAt, Thread, JobTypes, Wait, Job, NoMsg
<1>1. CASE Run
  BY <1>1 DEF Run, Enter, Goto, loopVars
<1>2. CASE NextAddress
  BY <1>2 DEF NextAddress, Goto, loopVars
<1>3. CASE Connect
  <2>1. \/ UNCHANGED <<job, msg>>
        \/ UNCHANGED job /\ \E c \in BOOLEAN : msg' = [wait |-> "connect", close |-> c]
    BY <1>3 DEF Connect
  <2> QED BY <2>1, ResultTypes
<1>4. CASE WaitConnected
  BY <1>4 DEF WaitConnected, Take, Goto, loopVars
<1>5. CASE CloseFd("run", "close", "trywait")
  BY <1>5 DEF CloseFd, Goto, loopVars
<1>6. CASE ClearFd("run", "close2", "trywait")
  BY <1>6 DEF ClearFd, Goto, loopVars
<1>7. CASE TryWait
  BY <1>7 DEF TryWait, Take, Goto, loopVars
<1>8. CASE End
  BY <1>8 DEF End, Goto, loopVars
<1>9. CASE RunReturn
  BY <1>9 DEF RunReturn, Goto, loopVars
<1>10. CASE CloseFd("run", "lastclose", "return")
  BY <1>10 DEF CloseFd, Goto, loopVars
<1>11. CASE ClearFd("run", "lastclose2", "return")
  BY <1>11 DEF ClearFd, Goto, loopVars
<1>12. CASE StreamEnds
  BY <1>12 DEF StreamEnds, Goto, loopVars
<1>13. CASE Proceed
  BY <1>13 DEF Proceed, Enter, Goto, loopVars
<1>14. CASE EnableTls
  <2>1. \/ UNCHANGED <<job, msg>>
        \/ UNCHANGED job /\ msg' = [wait |-> "tls", close |-> FALSE]
    BY <1>14 DEF EnableTls
  <2> QED BY <2>1, ResultTypes
<1>15. CASE WaitTls
  BY <1>15 DEF WaitTls, Take, Goto, loopVars
<1>16. CASE AfterTls
  BY <1>16 DEF AfterTls, Take, Goto, loopVars
<1>17. CASE ClearTlsCb
  BY <1>17 DEF ClearTlsCb, Goto, loopVars
<1>18. CASE TlsReturn
  BY <1>18 DEF TlsReturn, Goto, loopVars
<1>19. CASE Execute
  BY <1>19 DEF Execute, Goto, loopVars
<1>20. CASE HandleConnectionResult
  <2>1. UNCHANGED msg /\ \E ok \in BOOLEAN : SetJob("worker", "connect", ok)
    BY <1>20 DEF HandleConnectionResult
  <2> QED BY <2>1, ResultTypes
<1>21. CASE HandleTlsConnectionResult
  <2>1. UNCHANGED msg /\ (UNCHANGED job \/ SetJob("worker", "tls", TRUE) \/ SetJob("worker", "tls", FALSE))
    <3> USE DEF HandleTlsConnectionResult
    <3>1. UNCHANGED msg
      BY ONLY <1>21
    <3>2. UNCHANGED job \/ SetJob("worker", "tls", TRUE) \/ SetJob("worker", "tls", FALSE)
      BY ONLY <1>21, Zenon
    <3> QED BY <3>1, <3>2
  <2> QED BY <2>1, ResultTypes
<1>22. CASE MsgTimer
  <2>1. msg.wait \in Wait /\ msg' = NoMsg /\ SetJob("timer", msg.wait, FALSE)
    <3>1. at["timer"] = "idle" /\ msg # NoMsg
      BY <1>22 DEF MsgTimer
    <3> QED BY <1>22, <3>1 DEF MsgTimer
  <2> QED BY <2>1, ResultTypes
<1>23. CASE Network
  BY <1>23 DEF Network, loopVars
<1>24. CASE StopStream
  BY <1>24 DEF StopStream, loopVars
<1>25. ASSUME NEW t \in Answerer, CloseFd(t, "close", "call") PROVE JobTypes'
  BY <1>25 DEF CloseFd, Goto, loopVars
<1>26. ASSUME NEW t \in Answerer, ClearFd(t, "close2", "call") PROVE JobTypes'
  BY <1>26 DEF ClearFd, Goto, loopVars
<1>27. ASSUME NEW t \in Answerer, Call(t) PROVE JobTypes'
  <2>1. UNCHANGED msg /\ (UNCHANGED job \/ job' = [job EXCEPT ![t].frame = cb[job[t].wait]])
    BY <1>27 DEF Call
  <2>2. cb[job[t].wait] \in Nat
    OBVIOUS
  <2> QED BY <1>27, <2>1, <2>2, ResultTypes
<1>28. ASSUME NEW t \in Answerer, WriteFlag(t) PROVE JobTypes'
  BY <1>28 DEF WriteFlag, Goto, loopVars
<1>29. ASSUME NEW t \in Answerer, Post(t) PROVE JobTypes'
  BY <1>29 DEF Post, Goto, loopVars
<1>30. CASE UNCHANGED vars
  BY <1>30 DEF vars, loopVars
<1> QED BY <1>1, <1>2, <1>3, <1>4, <1>5, <1>6, <1>7, <1>8, <1>9, <1>10, <1>11,
          <1>12, <1>13, <1>14, <1>15, <1>16, <1>17, <1>18, <1>19, <1>20,
          <1>21, <1>22, <1>23, <1>24, <1>25, <1>26, <1>27, <1>28, <1>29, <1>30
          DEF Next, RunThread, RxThread, WorkerThread, TimerThread, Answering,
          Answerer

(* Every step keeps the types of the network.                                *)
LEMMA NetTypesStep == ASSUME Types, NetTypes, [Next]_vars PROVE NetTypes'
<1> USE DEF Types, TypeOK, Places, Answerer, RunAt, RxAt, AnsweringAt, Thread, NetTypes, Wait
<1>1. CASE Run
  BY <1>1 DEF Run, Enter, Goto, loopVars
<1>2. CASE NextAddress
  BY <1>2 DEF NextAddress, Goto, loopVars
<1>3. CASE Connect
  BY <1>3 DEF Connect, Goto, loopVars
<1>4. CASE WaitConnected
  BY <1>4 DEF WaitConnected, Take, Goto, loopVars
<1>5. CASE CloseFd("run", "close", "trywait")
  BY <1>5 DEF CloseFd, Goto, loopVars
<1>6. CASE ClearFd("run", "close2", "trywait")
  BY <1>6 DEF ClearFd, Goto, loopVars
<1>7. CASE TryWait
  BY <1>7 DEF TryWait, Take, Goto, loopVars
<1>8. CASE End
  BY <1>8 DEF End, Goto, loopVars
<1>9. CASE RunReturn
  BY <1>9 DEF RunReturn, Goto, loopVars
<1>10. CASE CloseFd("run", "lastclose", "return")
  BY <1>10 DEF CloseFd, Goto, loopVars
<1>11. CASE ClearFd("run", "lastclose2", "return")
  BY <1>11 DEF ClearFd, Goto, loopVars
<1>12. CASE StreamEnds
  BY <1>12 DEF StreamEnds, Goto, loopVars
<1>13. CASE Proceed
  BY <1>13 DEF Proceed, Enter, Goto, loopVars
<1>14. CASE EnableTls
  BY <1>14 DEF EnableTls, Goto, loopVars
<1>15. CASE WaitTls
  BY <1>15 DEF WaitTls, Take, Goto, loopVars
<1>16. CASE AfterTls
  BY <1>16 DEF AfterTls, Take, Goto, loopVars
<1>17. CASE ClearTlsCb
  BY <1>17 DEF ClearTlsCb, Goto, loopVars
<1>18. CASE TlsReturn
  BY <1>18 DEF TlsReturn, Goto, loopVars
<1>19. CASE Execute
  BY <1>19 DEF Execute, Goto, loopVars
<1>20. CASE HandleConnectionResult
  BY <1>20 DEF HandleConnectionResult, SetJob, Goto, loopVars
<1>21. CASE HandleTlsConnectionResult
  BY <1>21 DEF HandleTlsConnectionResult, SetJob, Goto, loopVars
<1>22. CASE MsgTimer
  BY <1>22 DEF MsgTimer, SetJob, Goto, loopVars
<1>23. CASE Network
  BY <1>23 DEF Network, loopVars
<1>24. CASE StopStream
  BY <1>24 DEF StopStream, loopVars
<1>25. ASSUME NEW t \in Answerer, CloseFd(t, "close", "call") PROVE NetTypes'
  BY <1>25 DEF CloseFd, Goto, loopVars
<1>26. ASSUME NEW t \in Answerer, ClearFd(t, "close2", "call") PROVE NetTypes'
  BY <1>26 DEF ClearFd, Goto, loopVars
<1>27. ASSUME NEW t \in Answerer, Call(t) PROVE NetTypes'
  BY <1>27 DEF Call, Goto, loopVars
<1>28. ASSUME NEW t \in Answerer, WriteFlag(t) PROVE NetTypes'
  BY <1>28 DEF WriteFlag, Goto, loopVars
<1>29. ASSUME NEW t \in Answerer, Post(t) PROVE NetTypes'
  BY <1>29 DEF Post, Goto, loopVars
<1>30. CASE UNCHANGED vars
  BY <1>30 DEF vars, loopVars
<1> QED BY <1>1, <1>2, <1>3, <1>4, <1>5, <1>6, <1>7, <1>8, <1>9, <1>10, <1>11,
          <1>12, <1>13, <1>14, <1>15, <1>16, <1>17, <1>18, <1>19, <1>20,
          <1>21, <1>22, <1>23, <1>24, <1>25, <1>26, <1>27, <1>28, <1>29, <1>30
          DEF Next, RunThread, RxThread, WorkerThread, TimerThread, Answering,
          Answerer

(* Every step keeps the counters within their bounds.                        *)
LEMMA CountTypesStep == ASSUME CountTypes, [Next]_vars PROVE CountTypes'
<1> USE DEF CountTypes
<1>1. CASE Run
  BY <1>1, ConnectAssumption DEF Run, Enter, Goto, loopVars
<1>2. CASE NextAddress
  BY <1>2, ConnectAssumption DEF NextAddress, Goto, loopVars
<1>3. CASE Connect
  BY <1>3, ConnectAssumption DEF Connect, Goto, loopVars
<1>4. CASE WaitConnected
  BY <1>4, ConnectAssumption DEF WaitConnected, Take, Goto, loopVars
<1>5. CASE CloseFd("run", "close", "trywait")
  BY <1>5, ConnectAssumption DEF CloseFd, Goto, loopVars
<1>6. CASE ClearFd("run", "close2", "trywait")
  BY <1>6, ConnectAssumption DEF ClearFd, Goto, loopVars
<1>7. CASE TryWait
  BY <1>7, ConnectAssumption DEF TryWait, Take, Goto, loopVars
<1>8. CASE End
  BY <1>8, ConnectAssumption DEF End, Goto, loopVars
<1>9. CASE RunReturn
  BY <1>9, ConnectAssumption DEF RunReturn, Goto, loopVars
<1>10. CASE CloseFd("run", "lastclose", "return")
  BY <1>10, ConnectAssumption DEF CloseFd, Goto, loopVars
<1>11. CASE ClearFd("run", "lastclose2", "return")
  BY <1>11, ConnectAssumption DEF ClearFd, Goto, loopVars
<1>12. CASE StreamEnds
  BY <1>12, ConnectAssumption DEF StreamEnds, Goto, loopVars
<1>13. CASE Proceed
  BY <1>13, ConnectAssumption DEF Proceed, Enter, Goto, loopVars
<1>14. CASE EnableTls
  BY <1>14, ConnectAssumption DEF EnableTls, Goto, loopVars
<1>15. CASE WaitTls
  BY <1>15, ConnectAssumption DEF WaitTls, Take, Goto, loopVars
<1>16. CASE AfterTls
  BY <1>16, ConnectAssumption DEF AfterTls, Take, Goto, loopVars
<1>17. CASE ClearTlsCb
  BY <1>17, ConnectAssumption DEF ClearTlsCb, Goto, loopVars
<1>18. CASE TlsReturn
  BY <1>18, ConnectAssumption DEF TlsReturn, Goto, loopVars
<1>19. CASE Execute
  BY <1>19, ConnectAssumption DEF Execute, Goto, loopVars
<1>20. CASE HandleConnectionResult
  BY <1>20, ConnectAssumption DEF HandleConnectionResult, SetJob, Goto, loopVars
<1>21. CASE HandleTlsConnectionResult
  BY <1>21, ConnectAssumption DEF HandleTlsConnectionResult, SetJob, Goto, loopVars
<1>22. CASE MsgTimer
  BY <1>22, ConnectAssumption DEF MsgTimer, SetJob, Goto, loopVars
<1>23. CASE Network
  BY <1>23, ConnectAssumption DEF Network, loopVars
<1>24. CASE StopStream
  BY <1>24, ConnectAssumption DEF StopStream, loopVars
<1>25. ASSUME NEW t \in Answerer, CloseFd(t, "close", "call") PROVE CountTypes'
  BY <1>25, ConnectAssumption DEF CloseFd, Goto, loopVars
<1>26. ASSUME NEW t \in Answerer, ClearFd(t, "close2", "call") PROVE CountTypes'
  BY <1>26, ConnectAssumption DEF ClearFd, Goto, loopVars
<1>27. ASSUME NEW t \in Answerer, Call(t) PROVE CountTypes'
  BY <1>27, ConnectAssumption DEF Call, Goto, loopVars
<1>28. ASSUME NEW t \in Answerer, WriteFlag(t) PROVE CountTypes'
  BY <1>28, ConnectAssumption DEF WriteFlag, Goto, loopVars
<1>29. ASSUME NEW t \in Answerer, Post(t) PROVE CountTypes'
  BY <1>29, ConnectAssumption DEF Post, Goto, loopVars
<1>30. CASE UNCHANGED vars
  BY <1>30 DEF vars, loopVars
<1> QED BY <1>1, <1>2, <1>3, <1>4, <1>5, <1>6, <1>7, <1>8, <1>9, <1>10, <1>11,
          <1>12, <1>13, <1>14, <1>15, <1>16, <1>17, <1>18, <1>19, <1>20,
          <1>21, <1>22, <1>23, <1>24, <1>25, <1>26, <1>27, <1>28, <1>29, <1>30
          DEF Next, RunThread, RxThread, WorkerThread, TimerThread, Answering,
          Answerer

(* Every step keeps the types of the socket.                                 *)
LEMMA SockTypesStep == ASSUME Types, SockTypes, [Next]_vars PROVE SockTypes'
<1> USE DEF Types, TypeOK, Places, Answerer, RunAt, RxAt, AnsweringAt, Thread, SockTypes, SockFields
<1>1. CASE Run
  BY <1>1 DEF Run, Enter, Goto, loopVars
<1>2. CASE NextAddress
  BY <1>2 DEF NextAddress, Goto, loopVars
<1>3. CASE Connect
  <2>1. \/ UNCHANGED <<sock, fds>>
        \/ UNCHANGED fds /\ \E p, d : sock' = [sock EXCEPT !.peer = p, !.connected = FALSE, !.dgram = d]
        \/ fds' = fds + 1 /\ \E p, d : sock' = [[sock EXCEPT !.peer = p, !.connected = FALSE, !.dgram = d] EXCEPT !.fd = fds + 1]
    BY ONLY <1>3 DEF Connect
  <2>2. CASE UNCHANGED <<sock, fds>>
    BY <2>2
  <2>3. CASE UNCHANGED fds /\ \E p, d : sock' = [sock EXCEPT !.peer = p, !.connected = FALSE, !.dgram = d]
    <3>1. PICK p, d : sock' = [sock EXCEPT !.peer = p, !.connected = FALSE, !.dgram = d]
      BY <2>3
    <3> QED BY <2>3, <3>1
  <2>4. CASE fds' = fds + 1 /\
             \E p, d : sock' = [[sock EXCEPT !.peer = p, !.connected = FALSE, !.dgram = d] EXCEPT !.fd = fds + 1]
    <3>1. PICK p, d : sock' = [[sock EXCEPT !.peer = p, !.connected = FALSE, !.dgram = d] EXCEPT !.fd = fds + 1]
      BY <2>4
    <3> QED BY <2>4, <3>1
  <2> QED BY <2>1, <2>2, <2>3, <2>4
<1>4. CASE WaitConnected
  BY <1>4 DEF WaitConnected, Take, Goto, loopVars
<1>5. CASE CloseFd("run", "close", "trywait")
  BY <1>5 DEF CloseFd, Goto, loopVars
<1>6. CASE ClearFd("run", "close2", "trywait")
  BY <1>6 DEF ClearFd, Goto, loopVars
<1>7. CASE TryWait
  BY <1>7 DEF TryWait, Take, Goto, loopVars
<1>8. CASE End
  BY <1>8 DEF End, Goto, loopVars
<1>9. CASE RunReturn
  BY <1>9 DEF RunReturn, Goto, loopVars
<1>10. CASE CloseFd("run", "lastclose", "return")
  BY <1>10 DEF CloseFd, Goto, loopVars
<1>11. CASE ClearFd("run", "lastclose2", "return")
  BY <1>11 DEF ClearFd, Goto, loopVars
<1>12. CASE StreamEnds
  BY <1>12 DEF StreamEnds, Goto, loopVars
<1>13. CASE Proceed
  BY <1>13 DEF Proceed, Enter, Goto, loopVars
<1>14. CASE EnableTls
  <2>1. UNCHANGED fds /\ (UNCHANGED sock \/ \E n \in {0, sock.fd} : sock' = [sock EXCEPT !.ssl = n])
    BY <1>14 DEF EnableTls, loopVars
  <2>2. ASSUME NEW n \in {0, sock.fd}, UNCHANGED fds, sock' = [sock EXCEPT !.ssl = n] PROVE SockTypes'
    BY <2>2
  <2>3. CASE UNCHANGED <<fds, sock>>
    BY <2>3
  <2> QED BY <2>1, <2>2, <2>3
<1>15. CASE WaitTls
  BY <1>15 DEF WaitTls, Take, Goto, loopVars
<1>16. CASE AfterTls
  BY <1>16 DEF AfterTls, Take, Goto, loopVars
<1>17. CASE ClearTlsCb
  BY <1>17 DEF ClearTlsCb, Goto, loopVars
<1>18. CASE TlsReturn
  BY <1>18 DEF TlsReturn, Goto, loopVars
<1>19. CASE Execute
  BY <1>19 DEF Execute, Goto, loopVars
<1>20. CASE HandleConnectionResult
  BY <1>20 DEF HandleConnectionResult, SetJob, Goto, loopVars
<1>21. CASE HandleTlsConnectionResult
  <2>1. UNCHANGED fds /\ (UNCHANGED sock \/ sock' = [sock EXCEPT !.ssl = 0])
    BY <1>21 DEF HandleTlsConnectionResult, loopVars
  <2>2. CASE UNCHANGED fds /\ sock' = [sock EXCEPT !.ssl = 0]
    BY <2>2
  <2>3. CASE UNCHANGED <<fds, sock>>
    BY <2>3
  <2> QED BY <2>1, <2>2, <2>3
<1>22. CASE MsgTimer
  BY <1>22 DEF MsgTimer, SetJob, Goto, loopVars
<1>23. CASE Network
  BY <1>23 DEF Network, loopVars
<1>24. CASE StopStream
  BY <1>24 DEF StopStream, loopVars
<1>25. ASSUME NEW t \in Answerer, CloseFd(t, "close", "call") PROVE SockTypes'
  BY <1>25 DEF CloseFd, Goto, loopVars
<1>26. ASSUME NEW t \in Answerer, ClearFd(t, "close2", "call") PROVE SockTypes'
  BY <1>26 DEF ClearFd, Goto, loopVars
<1>27. ASSUME NEW t \in Answerer, Call(t) PROVE SockTypes'
  <2>1. UNCHANGED fds /\ (UNCHANGED sock \/ sock' = [sock EXCEPT !.tls = TRUE])
    BY <1>27 DEF Call, loopVars
  <2>2. CASE UNCHANGED fds /\ sock' = [sock EXCEPT !.tls = TRUE]
    BY <2>2
  <2>3. CASE UNCHANGED <<fds, sock>>
    BY <2>3
  <2> QED BY <2>1, <2>2, <2>3
<1>28. ASSUME NEW t \in Answerer, WriteFlag(t) PROVE SockTypes'
  BY <1>28 DEF WriteFlag, Goto, loopVars
<1>29. ASSUME NEW t \in Answerer, Post(t) PROVE SockTypes'
  BY <1>29 DEF Post, Goto, loopVars
<1>30. CASE UNCHANGED vars
  BY <1>30 DEF vars, loopVars
<1> QED BY <1>1, <1>2, <1>3, <1>4, <1>5, <1>6, <1>7, <1>8, <1>9, <1>10, <1>11,
          <1>12, <1>13, <1>14, <1>15, <1>16, <1>17, <1>18, <1>19, <1>20,
          <1>21, <1>22, <1>23, <1>24, <1>25, <1>26, <1>27, <1>28, <1>29, <1>30
          DEF Next, RunThread, RxThread, WorkerThread, TimerThread, Answering,
          Answerer

(* Every step keeps the types of the addresses.                              *)
LEMMA ListTypesStep == ASSUME Types, ListTypes, [Next]_vars PROVE ListTypes'
<1> USE DEF Types, TypeOK, Places, Answerer, RunAt, RxAt, AnsweringAt, Thread, ListTypes
<1>1. CASE Run
  <2>1. UNCHANGED world /\ list' \in Seq(ToSet(list')) /\ pos' = 0
    <3>1. list' \in ServerAddressLists(world.cfg, world.dns) /\ UNCHANGED world /\ pos' = 0
      BY <1>1 DEF Run
    <3>2. GoodList(world, list')
      BY <3>1, ListsAreGood
    <3> QED BY <3>1, <3>2 DEF GoodList
  <2> QED BY <2>1
<1>2. CASE NextAddress
  <2>1. CASE UNCHANGED <<list, pos>>
    BY <1>2, <2>1 DEF NextAddress
  <2>2. CASE pos # Len(list) /\ pos' = pos + 1 /\ list' = [list EXCEPT ![pos'] = WithPort(world.cfg, @)]
    <3>1. Len(list') = Len(list) /\ pos' \in 0..Len(list)
      BY <2>2
    <3>2. list' \in Seq(ToSet(list'))
      <4> DEFINE i == pos + 1
                 x == WithPort(world.cfg, list[i])
      <4>1. i \in DOMAIN list /\ list' = [list EXCEPT ![i] = x]
        BY <2>2
      <4> HIDE DEF i, x
      <4> QED BY <4>1, OwnSet
    <3> QED BY <1>2, <3>1, <3>2 DEF NextAddress
  <2> QED BY <1>2, <2>1, <2>2 DEF NextAddress
<1>3. CASE Connect
  BY <1>3 DEF Connect, Goto, loopVars
<1>4. CASE WaitConnected
  BY <1>4 DEF WaitConnected, Take, Goto, loopVars
<1>5. CASE CloseFd("run", "close", "trywait")
  BY <1>5 DEF CloseFd, Goto, loopVars
<1>6. CASE ClearFd("run", "close2", "trywait")
  BY <1>6 DEF ClearFd, Goto, loopVars
<1>7. CASE TryWait
  BY <1>7 DEF TryWait, Take, Goto, loopVars
<1>8. CASE End
  BY <1>8 DEF End, Goto, loopVars
<1>9. CASE RunReturn
  BY <1>9 DEF RunReturn, Goto, loopVars
<1>10. CASE CloseFd("run", "lastclose", "return")
  BY <1>10 DEF CloseFd, Goto, loopVars
<1>11. CASE ClearFd("run", "lastclose2", "return")
  BY <1>11 DEF ClearFd, Goto, loopVars
<1>12. CASE StreamEnds
  BY <1>12 DEF StreamEnds, Goto, loopVars
<1>13. CASE Proceed
  BY <1>13 DEF Proceed, Enter, Goto, loopVars
<1>14. CASE EnableTls
  BY <1>14 DEF EnableTls, Goto, loopVars
<1>15. CASE WaitTls
  BY <1>15 DEF WaitTls, Take, Goto, loopVars
<1>16. CASE AfterTls
  BY <1>16 DEF AfterTls, Take, Goto, loopVars
<1>17. CASE ClearTlsCb
  BY <1>17 DEF ClearTlsCb, Goto, loopVars
<1>18. CASE TlsReturn
  BY <1>18 DEF TlsReturn, Goto, loopVars
<1>19. CASE Execute
  BY <1>19 DEF Execute, Goto, loopVars
<1>20. CASE HandleConnectionResult
  BY <1>20 DEF HandleConnectionResult, SetJob, Goto, loopVars
<1>21. CASE HandleTlsConnectionResult
  BY <1>21 DEF HandleTlsConnectionResult, SetJob, Goto, loopVars
<1>22. CASE MsgTimer
  BY <1>22 DEF MsgTimer, SetJob, Goto, loopVars
<1>23. CASE Network
  BY <1>23 DEF Network, loopVars
<1>24. CASE StopStream
  BY <1>24 DEF StopStream, loopVars
<1>25. ASSUME NEW t \in Answerer, CloseFd(t, "close", "call") PROVE ListTypes'
  BY <1>25 DEF CloseFd, Goto, loopVars
<1>26. ASSUME NEW t \in Answerer, ClearFd(t, "close2", "call") PROVE ListTypes'
  BY <1>26 DEF ClearFd, Goto, loopVars
<1>27. ASSUME NEW t \in Answerer, Call(t) PROVE ListTypes'
  BY <1>27 DEF Call, Goto, loopVars
<1>28. ASSUME NEW t \in Answerer, WriteFlag(t) PROVE ListTypes'
  BY <1>28 DEF WriteFlag, Goto, loopVars
<1>29. ASSUME NEW t \in Answerer, Post(t) PROVE ListTypes'
  BY <1>29 DEF Post, Goto, loopVars
<1>30. CASE UNCHANGED vars
  BY <1>30 DEF vars, loopVars
<1> QED BY <1>1, <1>2, <1>3, <1>4, <1>5, <1>6, <1>7, <1>8, <1>9, <1>10, <1>11,
          <1>12, <1>13, <1>14, <1>15, <1>16, <1>17, <1>18, <1>19, <1>20,
          <1>21, <1>22, <1>23, <1>24, <1>25, <1>26, <1>27, <1>28, <1>29, <1>30
          DEF Next, RunThread, RxThread, WorkerThread, TimerThread, Answering,
          Answerer

(* TypeOK is these parts.                                                    *)
LEMMA PartsTypes ==
    at \in [Thread -> Pc] /\ WaitTypes /\ JobTypes /\ NetTypes /\ CountTypes /\ SockTypes
      /\ pos \in 0..Len(list) => TypeOK
<1> SUFFICES ASSUME at \in [Thread -> Pc], WaitTypes, JobTypes, NetTypes, CountTypes, SockTypes,
                    pos \in 0..Len(list)
             PROVE  TypeOK
  OBVIOUS
<1>1. msg \in [wait : Wait \cup {"none"}, close : BOOLEAN] /\ job \in [{"worker", "timer"} -> Job]
  <2>1. NoMsg \in [wait : Wait \cup {"none"}, close : BOOLEAN]
    BY DEF NoMsg
  <2>2. [wait : Wait, close : BOOLEAN] \subseteq [wait : Wait \cup {"none"}, close : BOOLEAN]
    OBVIOUS
  <2> QED BY <2>1, <2>2 DEF JobTypes, Answerer
<1>2. <<runs, proceeds>> \in (0..MaxRun) \X (0..MaxProceed)
  BY DEF CountTypes
<1>3. sock.fd \in 0..fds /\ sock.ssl \in 0..fds /\ sock.connected \in BOOLEAN /\ sock.tls \in BOOLEAN
  BY DEF SockTypes
<1> QED BY <1>1, <1>2, <1>3 DEF TypeOK, WaitTypes, NetTypes

LEMMA PartsTypesNext ==
    (at \in [Thread -> Pc])' /\ WaitTypes' /\ JobTypes' /\ NetTypes' /\ CountTypes' /\ SockTypes'
      /\ (pos \in 0..Len(list))' => TypeOK'
BY PartsTypes, PTL

(* Every step keeps the types.                                               *)
LEMMA TypesStep == Types /\ [Next]_vars => Types'
<1> SUFFICES ASSUME Types, [Next]_vars PROVE Types'
  OBVIOUS
<1>1. WaitTypes /\ JobTypes /\ NetTypes /\ CountTypes /\ SockTypes /\ ListTypes
  BY DEF Types, TypeOK, WaitTypes, NetTypes, CountTypes
<1>2. WaitTypes' /\ JobTypes' /\ NetTypes' /\ CountTypes' /\ SockTypes' /\ ListTypes' /\ Places'
  BY <1>1, WaitTypesStep, JobTypesStep, NetTypesStep, CountTypesStep, SockTypesStep, ListTypesStep, PlacesStep
<1>3. (at \in [Thread -> Pc])'
  BY AtTypesStep
<1>4. TypeOK'
  BY <1>2, <1>3, PartsTypesNext DEF ListTypes
<1> QED BY <1>2, <1>4 DEF Types

(* The initial state has these types.                                        *)
LEMMA InitTypes == Init => Types
<1> SUFFICES ASSUME Init PROVE Types
  OBVIOUS
<1>1. Places /\ at \in [Thread -> Pc]
  BY DEF Init, Places, Thread, RunAt, RxAt, AnsweringAt, Pc
<1>2. WaitTypes
  BY DEF Init, WaitTypes, Wait
<1>3. JobTypes
  BY DEF Init, JobTypes, Job, Wait, Answerer
<1>4. NetTypes
  BY DEF Init, NetTypes
<1>5. CountTypes
  BY ConnectAssumption DEF Init, CountTypes
<1>8. SockTypes
  <2>1. PICK bind \in Locals : sock = Socket(bind)
    BY DEF Init
  <2>2. fds = 0
    BY DEF Init
  <2> QED BY <2>1, <2>2 DEF Socket, SockTypes, SockFields
<1>6. ListTypes
  BY DEF Init, ListTypes, ToSet
<1>7. TypeOK
  BY <1>1, <1>2, <1>3, <1>4, <1>5, <1>6, <1>8, PartsTypes DEF ListTypes
<1> QED BY <1>1, <1>3, <1>6, <1>7, <1>8 DEF Types

(* Every variable keeps its type, whatever the configuration, the name server *)
(* and the network do, and however late a callback is.                        *)
THEOREM TypeCorrect == Spec => []TypeOK
<1>1. Types => TypeOK
  BY DEF Types
<1> QED BY InitTypes, TypesStep, <1>1, PTL DEF Spec

-----------------------------------------------------------------------------
(* Answers, when no callback outlives the wait it belongs to. A callback uses *)
(* the frame of the function that is waiting, so it never writes to another;  *)
(* and a wait has one answer at most: it is to be reported by msg_timer, or    *)
(* its operation is queued, or a thread is reporting it, or it is in the       *)
(* semaphore.                                                                *)

Active(t, w) == \/ at[t] \in AnsweringAt /\ job[t].wait = w
                \/ t = "worker" /\ w = "connect" /\ at[t] = "result"

NoAnswer(w) == msg.wait # w /\ w \notin ops /\ \A t \in Answerer : ~Active(t, w)

OneAnswer(w) ==
    /\ frame[w].sem \in {0, 1}
    /\ frame[w].sem = 1 => NoAnswer(w)
    /\ msg.wait = w => w \notin ops /\ \A t \in Answerer : ~Active(t, w)
    /\ w \in ops => \A t \in Answerer : ~Active(t, w)
    /\ ~(Active("worker", w) /\ Active("timer", w))

Frames ==
    /\ frame["connect"].alive <=> at["run"] # "idle"
    /\ frame["tls"].alive <=> at["rx"] # "idle"
    /\ at["rx"] # "idle" => at["run"] = "stream"
    /\ \A w \in Wait : cb[w] # 0 => frame[w].alive /\ cb[w] = frame[w].id
    /\ at["run"] \in {"lastclose", "lastclose2", "return"} => cb["connect"] = 0
    /\ at["rx"] = "return" => cb["tls"] = 0
    /\ \A t \in Answerer : at[t] \in {"write", "post"} => Reaches(t)
    /\ ~wild

(* Every step keeps the frames.                                              *)
LEMMA FramesStep ==
    ASSUME ~Late, at \in [Thread -> Pc], WaitTypes, JobTypes, Places, Frames, [Next]_vars
    PROVE  Frames'
<1> USE DEF WaitTypes, JobTypes, Places, Frames, Answerer, RunAt, RxAt, AnsweringAt, Thread, Wait, Job, Quiet, Reaches
<1>1. CASE Run
  BY <1>1 DEF Run, Enter, Goto, loopVars, Quiet
<1>2. CASE NextAddress
  BY <1>2 DEF NextAddress, Goto, loopVars, Quiet
<1>3. CASE Connect
  BY <1>3 DEF Connect, Goto, loopVars, Quiet
<1>4. CASE WaitConnected
  BY <1>4 DEF WaitConnected, Take, Goto, loopVars, Quiet
<1>5. CASE CloseFd("run", "close", "trywait")
  BY <1>5 DEF CloseFd, Goto, loopVars, Quiet
<1>6. CASE ClearFd("run", "close2", "trywait")
  BY <1>6 DEF ClearFd, Goto, loopVars, Quiet
<1>7. CASE TryWait
  BY <1>7 DEF TryWait, Take, Goto, loopVars, Quiet
<1>8. CASE End
  BY <1>8 DEF End, Goto, loopVars, Quiet
<1>9. CASE RunReturn
  BY <1>9 DEF RunReturn, Goto, loopVars, Quiet
<1>10. CASE CloseFd("run", "lastclose", "return")
  BY <1>10 DEF CloseFd, Goto, loopVars, Quiet
<1>11. CASE ClearFd("run", "lastclose2", "return")
  BY <1>11 DEF ClearFd, Goto, loopVars, Quiet
<1>12. CASE StreamEnds
  BY <1>12 DEF StreamEnds, Goto, loopVars, Quiet
<1>13. CASE Proceed
  BY <1>13 DEF Proceed, Enter, Goto, loopVars, Quiet
<1>14. CASE EnableTls
  BY <1>14 DEF EnableTls, Goto, loopVars, Quiet
<1>15. CASE WaitTls
  BY <1>15 DEF WaitTls, Take, Goto, loopVars, Quiet
<1>16. CASE AfterTls
  BY <1>16 DEF AfterTls, Take, Goto, loopVars, Quiet
<1>17. CASE ClearTlsCb
  BY <1>17 DEF ClearTlsCb, Goto, loopVars, Quiet
<1>18. CASE TlsReturn
  BY <1>18 DEF TlsReturn, Goto, loopVars, Quiet
<1>19. CASE Execute
  BY <1>19 DEF Execute, Goto, loopVars, Quiet
<1>20. CASE HandleConnectionResult
  BY <1>20 DEF HandleConnectionResult, SetJob, Goto, loopVars, Quiet
<1>21. CASE HandleTlsConnectionResult
  BY <1>21 DEF HandleTlsConnectionResult, SetJob, Goto, loopVars, Quiet
<1>22. CASE MsgTimer
  BY <1>22 DEF MsgTimer, SetJob, Goto, loopVars, Quiet
<1>23. CASE Network
  BY <1>23 DEF Network, loopVars, Quiet
<1>24. CASE StopStream
  BY <1>24 DEF StopStream, loopVars, Quiet
<1>25. ASSUME NEW t \in Answerer, CloseFd(t, "close", "call") PROVE Frames'
  BY <1>25 DEF CloseFd, Goto, loopVars, Quiet
<1>26. ASSUME NEW t \in Answerer, ClearFd(t, "close2", "call") PROVE Frames'
  BY <1>26 DEF ClearFd, Goto, loopVars, Quiet
<1>27. ASSUME NEW t \in Answerer, Call(t) PROVE Frames'
  BY <1>27 DEF Call, Goto, loopVars, Quiet
<1>28. ASSUME NEW t \in Answerer, WriteFlag(t) PROVE Frames'
  BY <1>28 DEF WriteFlag, Goto, loopVars, Quiet
<1>29. ASSUME NEW t \in Answerer, Post(t) PROVE Frames'
  BY <1>29 DEF Post, Goto, loopVars, Quiet
<1>30. CASE UNCHANGED vars
  BY <1>30 DEF vars, loopVars, Quiet
<1> QED BY <1>1, <1>2, <1>3, <1>4, <1>5, <1>6, <1>7, <1>8, <1>9, <1>10, <1>11,
          <1>12, <1>13, <1>14, <1>15, <1>16, <1>17, <1>18, <1>19, <1>20,
          <1>21, <1>22, <1>23, <1>24, <1>25, <1>26, <1>27, <1>28, <1>29, <1>30
          DEF Next, RunThread, RxThread, WorkerThread, TimerThread, Answering,
          Answerer

(* Who closes a socket is reporting a failure to connect or is in run(). An    *)
(* operation is queued only on a socket that is open and not being closed.     *)
Closers ==
    /\ \A t \in Answerer : at[t] \in {"close", "close2"} => job[t].wait = "connect" /\ ~job[t].ok
    /\ msg.close => msg.wait = "connect"
    /\ sock.fd # 0 => at["run"] \in {"wait", "close", "close2", "stream", "end", "lastclose", "lastclose2"}
    /\ ops # {} => sock.fd # 0
    /\ at["run"] \in {"close2", "lastclose2"} \/ (\E t \in Answerer : at[t] = "close2") => ops = {}

(* What the answer to an attempt says: of a success that the socket is        *)
(* connected to the address being tried, of a failure that it is closed.       *)
Connected == sock.fd # 0 /\ sock.connected /\ net = "up"

Attempt ==
    /\ at["run"] \in {"connect", "wait"} => pos \in DOMAIN list
    /\ msg.wait = "connect" /\ ~msg.close => sock.fd = 0
    /\ \A t \in Answerer : at[t] \in {"call", "write", "post"} /\ job[t].wait = "connect" =>
         IF job[t].ok THEN at["run"] = "wait" => Connected ELSE sock.fd = 0
    /\ \A t \in Answerer : at[t] = "post" /\ job[t].wait = "connect" =>
         frame["connect"].connected = job[t].ok
    /\ at["run"] = "wait" =>
         /\ sock.fd # 0 => sock.peer = list[pos]
         /\ at["worker"] = "result" => sock.fd # 0 /\ net \in {"up", "refused"}
         /\ frame["connect"].sem = 1 =>
               IF frame["connect"].connected THEN Connected ELSE sock.fd = 0
    /\ at["run"] = "stream" => sock.fd # 0

(* An attempt to connect has one answer, and none when it is over.            *)
OneAttempt ==
    /\ OneAnswer("connect")
    /\ at["run"] \notin {"wait", "close", "close2", "trywait"} =>
          NoAnswer("connect") /\ frame["connect"].sem = 0

(* Every step keeps this of who closes a socket.                             *)
LEMMA ClosersStep ==
    ASSUME ~Late, at \in [Thread -> Pc], WaitTypes, JobTypes, NetTypes, SockTypes, Places,
           ListTypes, Frames, Closers, OneAttempt, Attempt, [Next]_vars
    PROVE  Closers'
<1> USE DEF SockFields, WaitTypes, JobTypes, NetTypes, SockTypes, Places, Answerer, RunAt, RxAt, AnsweringAt, Thread, Wait, Job, NoMsg
<1> USE DEF Frames, Closers, OneAttempt, Attempt, Connected, NoAnswer, OneAnswer, Active
<1>1. CASE Run
  BY <1>1 DEF Run, Enter, Goto, loopVars
<1>2. CASE NextAddress
  BY <1>2 DEF NextAddress, Goto, loopVars
<1>3. CASE Connect
  <2>1. at["run"] = "connect" /\ at' = [at EXCEPT !["run"] = "wait"] /\ UNCHANGED <<job, frame, cb>> /\ sock.fd = 0
    BY <1>3 DEF Connect, Goto, loopVars
  <2>2. ~(\E t \in Answerer : at[t] = "close2") /\ ops = {}
    BY <2>1
  <2>3. msg'.close => msg'.wait = "connect"
    BY <1>3 DEF Connect
  <2>4. ops' # {} => sock'.fd # 0
    <3>1. ops' # {} => \E p, d : sock' = [[sock EXCEPT !.peer = p, !.connected = FALSE, !.dgram = d] EXCEPT !.fd = fds + 1]
      BY ONLY <1>3, <2>1, <2>2 DEF Connect
    <3> SUFFICES ASSUME ops' # {} PROVE sock'.fd # 0
      OBVIOUS
    <3>2. PICK p, d : sock' = [[sock EXCEPT !.peer = p, !.connected = FALSE, !.dgram = d] EXCEPT !.fd = fds + 1]
      BY <3>1
    <3> QED BY <3>2
  <2> QED BY <2>1, <2>2, <2>3, <2>4
<1>4. CASE WaitConnected
  BY <1>4 DEF WaitConnected, Take, Goto, loopVars
<1>5. CASE CloseFd("run", "close", "trywait")
  BY <1>5 DEF CloseFd, Goto, loopVars
<1>6. CASE ClearFd("run", "close2", "trywait")
  BY <1>6 DEF ClearFd, Goto, loopVars
<1>7. CASE TryWait
  BY <1>7 DEF TryWait, Take, Goto, loopVars
<1>8. CASE End
  BY <1>8 DEF End, Goto, loopVars
<1>9. CASE RunReturn
  BY <1>9 DEF RunReturn, Goto, loopVars
<1>10. CASE CloseFd("run", "lastclose", "return")
  BY <1>10 DEF CloseFd, Goto, loopVars
<1>11. CASE ClearFd("run", "lastclose2", "return")
  BY <1>11 DEF ClearFd, Goto, loopVars
<1>12. CASE StreamEnds
  BY <1>12 DEF StreamEnds, Goto, loopVars
<1>13. CASE Proceed
  BY <1>13 DEF Proceed, Enter, Goto, loopVars
<1>14. CASE EnableTls
  BY <1>14 DEF EnableTls, Goto, loopVars
<1>15. CASE WaitTls
  BY <1>15 DEF WaitTls, Take, Goto, loopVars
<1>16. CASE AfterTls
  BY <1>16 DEF AfterTls, Take, Goto, loopVars
<1>17. CASE ClearTlsCb
  BY <1>17 DEF ClearTlsCb, Goto, loopVars
<1>18. CASE TlsReturn
  BY <1>18 DEF TlsReturn, Goto, loopVars
<1>19. CASE Execute
  BY <1>19 DEF Execute, Goto, loopVars
<1>20. CASE HandleConnectionResult
  <2>1. UNCHANGED <<msg, ops>> /\ at["worker"] = "result"
        /\ \E pc \in {"close", "call"}, ok \in BOOLEAN : at' = [at EXCEPT !["worker"] = pc] /\ SetJob("worker", "connect", ok) /\ (ok <=> pc = "call")
    BY <1>20 DEF HandleConnectionResult, Goto
  <2>2. sock'.fd = sock.fd
    BY <1>20 DEF HandleConnectionResult, SockFields
  <2> QED BY <2>1, <2>2 DEF SetJob
<1>21. CASE HandleTlsConnectionResult
  BY <1>21 DEF HandleTlsConnectionResult, SetJob, Goto, loopVars
<1>22. CASE MsgTimer
  BY <1>22 DEF MsgTimer, SetJob, Goto, loopVars
<1>23. CASE Network
  BY <1>23 DEF Network, loopVars
<1>24. CASE StopStream
  BY <1>24 DEF StopStream, loopVars
<1>25. ASSUME NEW t \in Answerer, CloseFd(t, "close", "call") PROVE Closers'
  BY <1>25 DEF CloseFd, Goto, loopVars
<1>26. ASSUME NEW t \in Answerer, ClearFd(t, "close2", "call") PROVE Closers'
  BY <1>26 DEF ClearFd, Goto, loopVars
<1>27. ASSUME NEW t \in Answerer, Call(t) PROVE Closers'
  BY <1>27 DEF Call, Goto, loopVars
<1>28. ASSUME NEW t \in Answerer, WriteFlag(t) PROVE Closers'
  BY <1>28 DEF WriteFlag, Goto, loopVars
<1>29. ASSUME NEW t \in Answerer, Post(t) PROVE Closers'
  BY <1>29 DEF Post, Goto, loopVars
<1>30. CASE UNCHANGED vars
  BY <1>30 DEF vars, loopVars
<1> QED BY <1>1, <1>2, <1>3, <1>4, <1>5, <1>6, <1>7, <1>8, <1>9, <1>10, <1>11,
          <1>12, <1>13, <1>14, <1>15, <1>16, <1>17, <1>18, <1>19, <1>20,
          <1>21, <1>22, <1>23, <1>24, <1>25, <1>26, <1>27, <1>28, <1>29, <1>30
          DEF Next, RunThread, RxThread, WorkerThread, TimerThread, Answering,
          Answerer

(* Every step keeps this of answers.                                         *)
LEMMA OneAttemptStep ==
    ASSUME ~Late, at \in [Thread -> Pc], WaitTypes, JobTypes, NetTypes, SockTypes, Places,
           ListTypes, Frames, Closers, OneAttempt, Attempt, [Next]_vars
    PROVE  OneAttempt'
<1> USE DEF SockFields, WaitTypes, JobTypes, NetTypes, SockTypes, Places, Answerer, RunAt, RxAt, AnsweringAt, Thread, Wait, Job, NoMsg
<1> USE DEF Frames, Closers, OneAttempt, Attempt, Connected, NoAnswer, OneAnswer, Active, Quiet, Reaches
<1>1. CASE Run
  BY <1>1 DEF Run, Enter, Goto, loopVars
<1>2. CASE NextAddress
  BY <1>2 DEF NextAddress, Goto, loopVars
<1>3. CASE Connect
  BY <1>3 DEF Connect, Goto, loopVars
<1>4. CASE WaitConnected
  BY <1>4 DEF WaitConnected, Take, Goto, loopVars
<1>5. CASE CloseFd("run", "close", "trywait")
  BY <1>5 DEF CloseFd, Goto, loopVars
<1>6. CASE ClearFd("run", "close2", "trywait")
  BY <1>6 DEF ClearFd, Goto, loopVars
<1>7. CASE TryWait
  BY <1>7 DEF TryWait, Take, Goto, loopVars
<1>8. CASE End
  BY <1>8 DEF End, Goto, loopVars
<1>9. CASE RunReturn
  BY <1>9 DEF RunReturn, Goto, loopVars
<1>10. CASE CloseFd("run", "lastclose", "return")
  BY <1>10 DEF CloseFd, Goto, loopVars
<1>11. CASE ClearFd("run", "lastclose2", "return")
  BY <1>11 DEF ClearFd, Goto, loopVars
<1>12. CASE StreamEnds
  BY <1>12 DEF StreamEnds, Goto, loopVars
<1>13. CASE Proceed
  BY <1>13 DEF Proceed, Enter, Goto, loopVars
<1>14. CASE EnableTls
  BY <1>14 DEF EnableTls, Goto, loopVars
<1>15. CASE WaitTls
  BY <1>15 DEF WaitTls, Take, Goto, loopVars
<1>16. CASE AfterTls
  BY <1>16 DEF AfterTls, Take, Goto, loopVars
<1>17. CASE ClearTlsCb
  BY <1>17 DEF ClearTlsCb, Goto, loopVars
<1>18. CASE TlsReturn
  BY <1>18 DEF TlsReturn, Goto, loopVars
<1>19. CASE Execute
  BY <1>19 DEF Execute, Goto, loopVars
<1>20. CASE HandleConnectionResult
  BY <1>20 DEF HandleConnectionResult, SetJob, Goto, loopVars
<1>21. CASE HandleTlsConnectionResult
  BY <1>21 DEF HandleTlsConnectionResult, SetJob, Goto, loopVars
<1>22. CASE MsgTimer
  BY <1>22 DEF MsgTimer, SetJob, Goto, loopVars
<1>23. CASE Network
  BY <1>23 DEF Network, loopVars
<1>24. CASE StopStream
  BY <1>24 DEF StopStream, loopVars
<1>25. ASSUME NEW t \in Answerer, CloseFd(t, "close", "call") PROVE OneAttempt'
  BY <1>25 DEF CloseFd, Goto, loopVars
<1>26. ASSUME NEW t \in Answerer, ClearFd(t, "close2", "call") PROVE OneAttempt'
  BY <1>26 DEF ClearFd, Goto, loopVars
<1>27. ASSUME NEW t \in Answerer, Call(t) PROVE OneAttempt'
  BY <1>27 DEF Call, Goto, loopVars
<1>28. ASSUME NEW t \in Answerer, WriteFlag(t) PROVE OneAttempt'
  BY <1>28 DEF WriteFlag, Goto, loopVars
<1>29. ASSUME NEW t \in Answerer, Post(t) PROVE OneAttempt'
  BY <1>29 DEF Post, Goto, loopVars
<1>30. CASE UNCHANGED vars
  BY <1>30 DEF vars, loopVars
<1> QED BY <1>1, <1>2, <1>3, <1>4, <1>5, <1>6, <1>7, <1>8, <1>9, <1>10, <1>11,
          <1>12, <1>13, <1>14, <1>15, <1>16, <1>17, <1>18, <1>19, <1>20,
          <1>21, <1>22, <1>23, <1>24, <1>25, <1>26, <1>27, <1>28, <1>29, <1>30
          DEF Next, RunThread, RxThread, WorkerThread, TimerThread, Answering,
          Answerer

(* Every step keeps what answers say.                                        *)
LEMMA AttemptStep ==
    ASSUME ~Late, at \in [Thread -> Pc], WaitTypes, JobTypes, NetTypes, SockTypes, Places,
           ListTypes, Frames, Closers, OneAttempt, Attempt, [Next]_vars
    PROVE  Attempt'
<1> USE DEF SockFields, WaitTypes, JobTypes, NetTypes, SockTypes, Places, Answerer, RunAt, RxAt, AnsweringAt, Thread, Wait, Job, NoMsg
<1> USE DEF ListTypes, Frames, Closers, OneAttempt, Attempt, Connected, NoAnswer, OneAnswer, Active, Quiet, Reaches
<1>1. CASE Run
  BY <1>1 DEF Run, Enter, Goto, loopVars
<1>2. CASE NextAddress
  BY <1>2 DEF NextAddress, Goto, loopVars
<1>3. CASE Connect
  <2>1. at["run"] = "connect" /\ at' = [at EXCEPT !["run"] = "wait"] /\ UNCHANGED <<job, frame, cb, list, pos>>
        /\ sock.fd = 0 /\ pos \in DOMAIN list
    BY <1>3 DEF Connect, Goto, loopVars
  <2>2. NoAnswer("connect") /\ frame["connect"].sem = 0
    BY <2>1
  <2>3. \/ sock'.fd = 0
        \/ sock'.peer = list[pos] /\ (msg' = msg \/ msg'.close)
    <3>1. \/ msg' = [wait |-> "connect", close |-> FALSE] /\ \E d : sock' = [sock EXCEPT !.peer = list[pos], !.connected = FALSE, !.dgram = d]
          \/ /\ msg' = msg \/ msg' = [wait |-> "connect", close |-> TRUE]
             /\ \E d : sock' = [[sock EXCEPT !.peer = list[pos], !.connected = FALSE, !.dgram = d] EXCEPT !.fd = fds + 1]
      BY ONLY <1>3, <2>1 DEF Connect
    <3>2. CASE \E d : sock' = [sock EXCEPT !.peer = list[pos], !.connected = FALSE, !.dgram = d]
      <4>1. PICK d : sock' = [sock EXCEPT !.peer = list[pos], !.connected = FALSE, !.dgram = d]
        BY <3>2
      <4> QED BY <2>1, <4>1
    <3>3. CASE /\ msg' = msg \/ msg' = [wait |-> "connect", close |-> TRUE]
               /\ \E d : sock' = [[sock EXCEPT !.peer = list[pos], !.connected = FALSE, !.dgram = d] EXCEPT !.fd = fds + 1]
      <4>1. PICK d : sock' = [[sock EXCEPT !.peer = list[pos], !.connected = FALSE, !.dgram = d] EXCEPT !.fd = fds + 1]
        BY <3>3
      <4> QED BY <3>3, <4>1
    <3> QED BY <3>1, <3>2, <3>3
  <2> QED BY <2>1, <2>2, <2>3
<1>4. CASE WaitConnected
  BY <1>4 DEF WaitConnected, Take, Goto, loopVars
<1>5. CASE CloseFd("run", "close", "trywait")
  BY <1>5 DEF CloseFd, Goto, loopVars
<1>6. CASE ClearFd("run", "close2", "trywait")
  BY <1>6 DEF ClearFd, Goto, loopVars
<1>7. CASE TryWait
  BY <1>7 DEF TryWait, Take, Goto, loopVars
<1>8. CASE End
  BY <1>8 DEF End, Goto, loopVars
<1>9. CASE RunReturn
  BY <1>9 DEF RunReturn, Goto, loopVars
<1>10. CASE CloseFd("run", "lastclose", "return")
  BY <1>10 DEF CloseFd, Goto, loopVars
<1>11. CASE ClearFd("run", "lastclose2", "return")
  BY <1>11 DEF ClearFd, Goto, loopVars
<1>12. CASE StreamEnds
  BY <1>12 DEF StreamEnds, Goto, loopVars
<1>13. CASE Proceed
  BY <1>13 DEF Proceed, Enter, Goto, loopVars
<1>14. CASE EnableTls
  BY <1>14 DEF EnableTls, Goto, loopVars
<1>15. CASE WaitTls
  BY <1>15 DEF WaitTls, Take, Goto, loopVars
<1>16. CASE AfterTls
  BY <1>16 DEF AfterTls, Take, Goto, loopVars
<1>17. CASE ClearTlsCb
  BY <1>17 DEF ClearTlsCb, Goto, loopVars
<1>18. CASE TlsReturn
  BY <1>18 DEF TlsReturn, Goto, loopVars
<1>19. CASE Execute
  BY <1>19 DEF Execute, Goto, loopVars
<1>20. CASE HandleConnectionResult
  <2>1. UNCHANGED <<msg, ops, net, frame, list, pos>> /\ at["worker"] = "result" /\ sock'.fd = sock.fd /\ sock'.peer = sock.peer
    <3>1. \/ sock' = [sock EXCEPT !.connected = FALSE]
          \/ \E l : sock' = [sock EXCEPT !.connected = TRUE, !.local = l]
      BY ONLY <1>20 DEF HandleConnectionResult
    <3>2. CASE sock' = [sock EXCEPT !.connected = FALSE]
      BY <1>20, <3>2 DEF HandleConnectionResult, loopVars
    <3>3. CASE \E l : sock' = [sock EXCEPT !.connected = TRUE, !.local = l]
      <4>1. PICK l : sock' = [sock EXCEPT !.connected = TRUE, !.local = l]
        BY <3>3
      <4> QED BY <1>20, <4>1 DEF HandleConnectionResult, loopVars
    <3> QED BY <3>1, <3>2, <3>3
  <2>2. \/ SetJob("worker", "connect", FALSE) /\ at' = [at EXCEPT !["worker"] = "close"]
        \/ /\ SetJob("worker", "connect", TRUE) /\ at' = [at EXCEPT !["worker"] = "call"]
           /\ sock.fd # 0 /\ net \notin {"refused", "down"} /\ sock'.connected
    BY <1>20 DEF HandleConnectionResult, Goto
  <2>3. Active("worker", "connect") /\ frame["connect"].sem = 0
    BY <2>1
  <2> QED BY <2>1, <2>2, <2>3 DEF SetJob
<1>21. CASE HandleTlsConnectionResult
  <2>1. UNCHANGED <<msg, net, frame, list, pos>> /\ at["worker"] = "idle"
        /\ sock'.fd = sock.fd /\ sock'.peer = sock.peer /\ sock'.connected = sock.connected
    <3>1. UNCHANGED sock \/ sock' = [sock EXCEPT !.ssl = 0]
      BY ONLY <1>21 DEF HandleTlsConnectionResult
    <3> QED BY <1>21, <3>1 DEF HandleTlsConnectionResult, loopVars
  <2>2. \/ UNCHANGED <<at, job>>
        \/ at' = [at EXCEPT !["worker"] = "call"] /\ (SetJob("worker", "tls", TRUE) \/ SetJob("worker", "tls", FALSE))
    BY ONLY <1>21 DEF HandleTlsConnectionResult, Goto, SetJob
  <2> QED BY <2>1, <2>2 DEF SetJob
<1>22. CASE MsgTimer
  BY <1>22 DEF MsgTimer, SetJob, Goto, loopVars
<1>23. CASE Network
  BY <1>23 DEF Network, loopVars
<1>24. CASE StopStream
  BY <1>24 DEF StopStream, loopVars
<1>25. ASSUME NEW t \in Answerer, CloseFd(t, "close", "call") PROVE Attempt'
  BY <1>25 DEF CloseFd, Goto, loopVars
<1>26. ASSUME NEW t \in Answerer, ClearFd(t, "close2", "call") PROVE Attempt'
  BY <1>26 DEF ClearFd, Goto, loopVars
<1>27. ASSUME NEW t \in Answerer, Call(t) PROVE Attempt'
  <2>1. UNCHANGED <<msg, net, frame, list, pos>> /\ at[t] = "call"
        /\ sock'.fd = sock.fd /\ sock'.peer = sock.peer /\ sock'.connected = sock.connected
    <3>1. UNCHANGED sock \/ sock' = [sock EXCEPT !.tls = TRUE]
      BY ONLY <1>27 DEF Call
    <3> QED BY <1>27, <3>1 DEF Call, loopVars
  <2>2. \/ UNCHANGED job /\ at' = [at EXCEPT ![t] = "idle"]
        \/ at' = [at EXCEPT ![t] = "write"] /\ job' = [job EXCEPT ![t].frame = cb[job[t].wait]]
    BY ONLY <1>27 DEF Call, Goto
  <2>3. \A u \in Answerer : job'[u].wait = job[u].wait /\ job'[u].ok = job[u].ok
    <3>1. CASE UNCHANGED job
      BY <3>1
    <3>2. CASE job' = [job EXCEPT ![t].frame = cb[job[t].wait]]
      <4> DEFINE j == [job[t] EXCEPT !.frame = cb[job[t].wait]]
      <4>1. j.wait = job[t].wait /\ j.ok = job[t].ok /\ job' = [job EXCEPT ![t] = j]
        BY <3>2
      <4> HIDE DEF j
      <4> QED BY <4>1
    <3> QED BY <2>2, <3>1, <3>2
  <2>4. at' = [at EXCEPT ![t] = "idle"] \/ at' = [at EXCEPT ![t] = "write"]
    BY <2>2
  <2>5. /\ at'[t] \in {"idle", "write"} /\ at'["run"] = at["run"] /\ (at'["worker"] = "result" => at["worker"] = "result")
        /\ \A u \in Answerer : u # t => at'[u] = at[u]
    BY <2>1, <2>4
  <2> QED BY <2>1, <2>3, <2>5
<1>28. ASSUME NEW t \in Answerer, WriteFlag(t) PROVE Attempt'
  BY <1>28 DEF WriteFlag, Goto, loopVars
<1>29. ASSUME NEW t \in Answerer, Post(t) PROVE Attempt'
  BY <1>29 DEF Post, Goto, loopVars
<1>30. CASE UNCHANGED vars
  BY <1>30 DEF vars, loopVars
<1> QED BY <1>1, <1>2, <1>3, <1>4, <1>5, <1>6, <1>7, <1>8, <1>9, <1>10, <1>11,
          <1>12, <1>13, <1>14, <1>15, <1>16, <1>17, <1>18, <1>19, <1>20,
          <1>21, <1>22, <1>23, <1>24, <1>25, <1>26, <1>27, <1>28, <1>29, <1>30
          DEF Next, RunThread, RxThread, WorkerThread, TimerThread, Answering,
          Answerer

IAnswer == Types /\ Frames /\ Closers /\ OneAttempt /\ Attempt

(* At first nobody waits.                                                    *)
LEMMA InitAnswer == Init => IAnswer
<1> SUFFICES ASSUME Init PROVE IAnswer
  OBVIOUS
<1>1. PICK bind \in Locals : sock = Socket(bind)
  BY DEF Init
<1>2. sock.fd = 0
  BY <1>1 DEF Socket
<1>3. Frames
  BY DEF Init, Frames, Thread, Answerer, Wait
<1>4. Closers /\ OneAttempt /\ Attempt
  BY <1>2 DEF Init, Closers, OneAttempt, Attempt, OneAnswer, NoAnswer, Active, NoMsg, Thread, Answerer, Wait, AnsweringAt
<1> QED BY <1>3, <1>4, InitTypes DEF IAnswer

(* Every step keeps all of this.                                             *)
LEMMA IAnswerStep == ASSUME ~Late PROVE IAnswer /\ [Next]_vars => IAnswer'
<1> SUFFICES ASSUME IAnswer, [Next]_vars PROVE IAnswer'
  OBVIOUS
<1>1. Types /\ Frames /\ Closers /\ OneAttempt /\ Attempt
  BY DEF IAnswer
<1>2. at \in [Thread -> Pc] /\ WaitTypes /\ JobTypes /\ NetTypes /\ SockTypes /\ ListTypes /\ Places
  BY <1>1 DEF Types, TypeOK, WaitTypes, NetTypes
<1>3. Types' /\ Frames'
  BY <1>1, <1>2, TypesStep, FramesStep
<1>4. Closers' /\ OneAttempt' /\ Attempt'
  BY <1>1, <1>2, ClosersStep, OneAttemptStep, AttemptStep
<1> QED BY <1>3, <1>4 DEF IAnswer

(* The answer in the semaphore is that of the attempt in progress, none is    *)
(* left when the next address is tried, and a failure is known to run() only  *)
(* when the socket is closed, as long as callbacks do not outlive the wait.    *)
THEOREM AnswersCorrect == ASSUME ~Late PROVE Spec => []AnswerOfAttempt
<1>1. IAnswer => AnswerOfAttempt
  <2> SUFFICES ASSUME IAnswer PROVE AnswerOfAttempt
    OBVIOUS
  <2> QED BY DEF IAnswer, OneAttempt, OneAnswer, Attempt, AnswerOfAttempt
<1> QED BY InitAnswer, IAnswerStep, <1>1, PTL DEF Spec

(* run() opens its stream only on a socket connected to the address it tries.  *)
THEOREM OpenedCorrect == ASSUME ~Late PROVE Spec => OpenedConnected
<1>1. ASSUME IAnswer, [Next]_vars, at["run"] = "wait", at'["run"] = "stream"
      PROVE  sock.fd # 0 /\ sock.connected /\ net = "up" /\ sock.peer = list[pos]
  <2>1. at \in [Thread -> Pc] /\ frame["connect"].sem \in {0, 1} /\ Attempt
    BY <1>1 DEF IAnswer, Types, TypeOK, OneAttempt, OneAnswer
  <2>2. WaitConnected
    <3> USE <1>1, <2>1 DEF Thread, Answerer
    <3>1. CASE Run
      BY <3>1 DEF Run, Enter, Goto, loopVars
    <3>2. CASE NextAddress
      BY <3>2 DEF NextAddress, Goto, loopVars
    <3>3. CASE Connect
      BY <3>3 DEF Connect, Goto, loopVars
    <3>4. CASE WaitConnected
      BY <3>4
    <3>5. CASE CloseFd("run", "close", "trywait")
      BY <3>5 DEF CloseFd, Goto, loopVars
    <3>6. CASE ClearFd("run", "close2", "trywait")
      BY <3>6 DEF ClearFd, Goto, loopVars
    <3>7. CASE TryWait
      BY <3>7 DEF TryWait, Take, Goto, loopVars
    <3>8. CASE End
      BY <3>8 DEF End, Goto, loopVars
    <3>9. CASE RunReturn
      BY <3>9 DEF RunReturn, Goto, loopVars
    <3>10. CASE CloseFd("run", "lastclose", "return")
      BY <3>10 DEF CloseFd, Goto, loopVars
    <3>11. CASE ClearFd("run", "lastclose2", "return")
      BY <3>11 DEF ClearFd, Goto, loopVars
    <3>12. CASE StreamEnds
      BY <3>12 DEF StreamEnds, Goto, loopVars
    <3>13. CASE Proceed
      BY <3>13 DEF Proceed, Enter, Goto, loopVars
    <3>14. CASE EnableTls
      BY <3>14 DEF EnableTls, Goto, loopVars
    <3>15. CASE WaitTls
      BY <3>15 DEF WaitTls, Take, Goto, loopVars
    <3>16. CASE AfterTls
      BY <3>16 DEF AfterTls, Take, Goto, loopVars
    <3>17. CASE ClearTlsCb
      BY <3>17 DEF ClearTlsCb, Goto, loopVars
    <3>18. CASE TlsReturn
      BY <3>18 DEF TlsReturn, Goto, loopVars
    <3>19. CASE Execute
      BY <3>19 DEF Execute, Goto, loopVars
    <3>20. CASE HandleConnectionResult
      BY <3>20 DEF HandleConnectionResult, SetJob, Goto, loopVars
    <3>21. CASE HandleTlsConnectionResult
      BY <3>21 DEF HandleTlsConnectionResult, SetJob, Goto, loopVars
    <3>22. CASE MsgTimer
      BY <3>22 DEF MsgTimer, SetJob, Goto, loopVars
    <3>23. CASE Network
      BY <3>23 DEF Network, loopVars
    <3>24. CASE StopStream
      BY <3>24 DEF StopStream, loopVars
    <3>25. ASSUME NEW t \in Answerer, CloseFd(t, "close", "call") PROVE WaitConnected
      BY <3>25 DEF CloseFd, Goto, loopVars
    <3>26. ASSUME NEW t \in Answerer, ClearFd(t, "close2", "call") PROVE WaitConnected
      BY <3>26 DEF ClearFd, Goto, loopVars
    <3>27. ASSUME NEW t \in Answerer, Call(t) PROVE WaitConnected
      BY <3>27 DEF Call, Goto, loopVars
    <3>28. ASSUME NEW t \in Answerer, WriteFlag(t) PROVE WaitConnected
      BY <3>28 DEF WriteFlag, Goto, loopVars
    <3>29. ASSUME NEW t \in Answerer, Post(t) PROVE WaitConnected
      BY <3>29 DEF Post, Goto, loopVars
    <3>30. CASE UNCHANGED vars
      BY <3>30 DEF vars, loopVars
    <3> QED BY <3>1, <3>2, <3>3, <3>4, <3>5, <3>6, <3>7, <3>8, <3>9, <3>10,
              <3>11, <3>12, <3>13, <3>14, <3>15, <3>16, <3>17, <3>18, <3>19,
              <3>20, <3>21, <3>22, <3>23, <3>24, <3>25, <3>26, <3>27, <3>28,
              <3>29, <3>30 DEF Next, RunThread, RxThread, WorkerThread,
              TimerThread, Answering, Answerer
  <2>3. frame["connect"].sem = 1 /\ frame["connect"].connected
    BY <1>1, <2>1, <2>2 DEF WaitConnected, Goto, Thread
  <2> QED BY <1>1, <2>1, <2>3 DEF Attempt, Connected
<1>2. IAnswer /\ [Next]_vars =>
        [at["run"] = "wait" /\ at'["run"] = "stream" =>
           sock.fd # 0 /\ sock.connected /\ net = "up" /\ sock.peer = list[pos]]_vars
  BY <1>1
<1> QED BY InitAnswer, IAnswerStep, <1>2, PTL DEF Spec, OpenedConnected

(* A callback that does not outlive its wait writes to no frame that is gone:  *)
(* the order of closing, clearing the callback and returning is sufficient.    *)
THEOREM FramesCorrect == ASSUME ~Late PROVE Spec => []FrameAlive
<1>1. IAnswer => FrameAlive
  BY DEF IAnswer, Frames, FrameAlive
<1> QED BY InitAnswer, IAnswerStep, <1>1, PTL DEF Spec

-----------------------------------------------------------------------------
(* The handshake, when the server sends one <proceed/> in a run: a handshake  *)
(* that was given up may still be answered, and its answer would be taken for *)
(* that of the next. With one, a wait for a handshake has one answer at most, *)
(* and a success says that the handshake of this connection is finished.       *)

Encrypted == sock.ssl = sock.fd /\ hs = "answer"

Handshake ==
    /\ at["run"] \notin {"stream", "end", "lastclose", "lastclose2", "return"} => NoAnswer("tls")
    /\ at["run"] = "stream" /\ proceeds = 0 => NoAnswer("tls") /\ at["rx"] = "idle"
    /\ at["rx"] = "tls" => NoAnswer("tls") /\ frame["tls"].sem = 0
    /\ at["rx"] = "wait" =>
         /\ OneAnswer("tls")
         /\ "tls" \in ops => sock.ssl = sock.fd
         /\ \A t \in Answerer : at[t] \in {"call", "write", "post"} /\ job[t].wait = "tls" =>
              /\ job[t].ok => Encrypted /\ (at[t] # "call" => sock.tls)
              /\ at[t] = "post" => frame["tls"].connected = job[t].ok
         /\ frame["tls"].sem = 1 /\ frame["tls"].connected => Encrypted /\ sock.tls

(* Every step keeps this of the handshake.                                   *)
LEMMA HandshakeStep ==
    ASSUME ~Late, at \in [Thread -> Pc], WaitTypes, JobTypes, NetTypes, SockTypes, Places, CountTypes,
           MaxProceed \in {0, 1}, Frames, Closers, OneAttempt, Attempt, Handshake, [Next]_vars
    PROVE  Handshake'
<1> USE DEF SockFields, WaitTypes, JobTypes, NetTypes, SockTypes, Places, Answerer, RunAt, RxAt, AnsweringAt, Thread, Wait, Job, NoMsg
<1> USE DEF CountTypes, Frames, Closers, OneAttempt, Attempt, Connected, NoAnswer, OneAnswer, Active, Quiet, Reaches, Handshake, Encrypted
<1>1. CASE Run
  BY <1>1 DEF Run, Enter, Goto, loopVars
<1>2. CASE NextAddress
  BY <1>2 DEF NextAddress, Goto, loopVars
<1>3. CASE Connect
  BY <1>3 DEF Connect, Goto, loopVars
<1>4. CASE WaitConnected
  BY <1>4 DEF WaitConnected, Take, Goto, loopVars
<1>5. CASE CloseFd("run", "close", "trywait")
  BY <1>5 DEF CloseFd, Goto, loopVars
<1>6. CASE ClearFd("run", "close2", "trywait")
  BY <1>6 DEF ClearFd, Goto, loopVars
<1>7. CASE TryWait
  BY <1>7 DEF TryWait, Take, Goto, loopVars
<1>8. CASE End
  BY <1>8 DEF End, Goto, loopVars
<1>9. CASE RunReturn
  BY <1>9 DEF RunReturn, Goto, loopVars
<1>10. CASE CloseFd("run", "lastclose", "return")
  BY <1>10 DEF CloseFd, Goto, loopVars
<1>11. CASE ClearFd("run", "lastclose2", "return")
  BY <1>11 DEF ClearFd, Goto, loopVars
<1>12. CASE StreamEnds
  BY <1>12 DEF StreamEnds, Goto, loopVars
<1>13. CASE Proceed
  BY <1>13 DEF Proceed, Enter, Goto, loopVars
<1>14. CASE EnableTls
  BY <1>14 DEF EnableTls, Goto, loopVars
<1>15. CASE WaitTls
  BY <1>15 DEF WaitTls, Take, Goto, loopVars
<1>16. CASE AfterTls
  BY <1>16 DEF AfterTls, Take, Goto, loopVars
<1>17. CASE ClearTlsCb
  BY <1>17 DEF ClearTlsCb, Goto, loopVars
<1>18. CASE TlsReturn
  BY <1>18 DEF TlsReturn, Goto, loopVars
<1>19. CASE Execute
  BY <1>19 DEF Execute, Goto, loopVars
<1>20. CASE HandleConnectionResult
  BY <1>20 DEF HandleConnectionResult, SetJob, Goto, loopVars
<1>21. CASE HandleTlsConnectionResult
  <2>1. "tls" \in ops /\ at["worker"] = "idle" /\ UNCHANGED <<msg, frame, proceeds>>
        /\ sock'.fd = sock.fd /\ sock'.tls = sock.tls
    <3>1. UNCHANGED sock \/ sock' = [sock EXCEPT !.ssl = 0]
      BY ONLY <1>21 DEF HandleTlsConnectionResult
    <3> QED BY <1>21, <3>1 DEF HandleTlsConnectionResult, loopVars
  <2>2. \/ UNCHANGED <<at, job, ops, sock>>
        \/ /\ at' = [at EXCEPT !["worker"] = "call"] /\ ops' = ops \ {"tls"}
           /\ \/ SetJob("worker", "tls", TRUE) /\ UNCHANGED <<hs, sock>> /\ hs = "answer"
              \/ SetJob("worker", "tls", FALSE)
    BY ONLY <1>21 DEF HandleTlsConnectionResult, Goto, SetJob
  <2>3. CASE UNCHANGED <<at, job, ops, sock>>
    BY <2>1, <2>3
  <2>4. CASE /\ at' = [at EXCEPT !["worker"] = "call"] /\ ops' = ops \ {"tls"}
             /\ SetJob("worker", "tls", TRUE) /\ UNCHANGED <<hs, sock>> /\ hs = "answer"
    BY <2>1, <2>4 DEF SetJob
  <2>5. CASE /\ at' = [at EXCEPT !["worker"] = "call"] /\ ops' = ops \ {"tls"}
             /\ SetJob("worker", "tls", FALSE)
    BY <2>1, <2>5 DEF SetJob
  <2> QED BY <2>2, <2>3, <2>4, <2>5
<1>22. CASE MsgTimer
  BY <1>22 DEF MsgTimer, SetJob, Goto, loopVars
<1>23. CASE Network
  BY <1>23 DEF Network, loopVars
<1>24. CASE StopStream
  BY <1>24 DEF StopStream, loopVars
<1>25. ASSUME NEW t \in Answerer, CloseFd(t, "close", "call") PROVE Handshake'
  BY <1>25 DEF CloseFd, Goto, loopVars
<1>26. ASSUME NEW t \in Answerer, ClearFd(t, "close2", "call") PROVE Handshake'
  BY <1>26 DEF ClearFd, Goto, loopVars
<1>27. ASSUME NEW t \in Answerer, Call(t) PROVE Handshake'
  BY <1>27 DEF Call, Goto, loopVars
<1>28. ASSUME NEW t \in Answerer, WriteFlag(t) PROVE Handshake'
  BY <1>28 DEF WriteFlag, Goto, loopVars
<1>29. ASSUME NEW t \in Answerer, Post(t) PROVE Handshake'
  BY <1>29 DEF Post, Goto, loopVars
<1>30. CASE UNCHANGED vars
  BY <1>30 DEF vars, loopVars
<1> QED BY <1>1, <1>2, <1>3, <1>4, <1>5, <1>6, <1>7, <1>8, <1>9, <1>10, <1>11,
          <1>12, <1>13, <1>14, <1>15, <1>16, <1>17, <1>18, <1>19, <1>20,
          <1>21, <1>22, <1>23, <1>24, <1>25, <1>26, <1>27, <1>28, <1>29, <1>30
          DEF Next, RunThread, RxThread, WorkerThread, TimerThread, Answering,
          Answerer

(* TlsModule resets the session only over a connection that is encrypted with *)
(* a finished handshake, as long as callbacks do not outlive the wait and the *)
(* server sends one <proceed/> in a run.                                     *)
THEOREM ResetCorrect == ASSUME ~Late, MaxProceed \in {0, 1} PROVE Spec => ResetEncrypted
<1> DEFINE IHandshake == IAnswer /\ Handshake
<1>1. Init => IHandshake
  BY InitAnswer DEF Init, Handshake, NoAnswer, Active, NoMsg, Thread, Answerer, AnsweringAt
<1>2. IHandshake /\ [Next]_vars => IHandshake'
  <2> SUFFICES ASSUME IAnswer, Handshake, [Next]_vars PROVE IHandshake'
    OBVIOUS
  <2>1. at \in [Thread -> Pc] /\ WaitTypes /\ JobTypes /\ NetTypes /\ SockTypes /\ CountTypes /\ Places
    BY DEF IAnswer, Types, TypeOK, WaitTypes, NetTypes, CountTypes
  <2>2. Handshake'
    BY <2>1, HandshakeStep DEF IAnswer
  <2> QED BY <2>2, IAnswerStep
<1>3. ASSUME IHandshake, [Next]_vars, at["rx"] = "wait", at'["rx"] = "reset"
      PROVE  sock.tls /\ sock.ssl = sock.fd /\ hs = "answer"
  <2>1. at \in [Thread -> Pc] /\ frame["tls"].sem \in {0, 1} /\ Handshake
    BY <1>3 DEF IAnswer, Types, TypeOK, Handshake, OneAnswer
  <2>2. WaitTls
    <3> USE <1>3, <2>1 DEF Thread, Answerer
    <3>1. CASE Run
      BY <3>1 DEF Run, Enter, Goto, loopVars
    <3>2. CASE NextAddress
      BY <3>2 DEF NextAddress, Goto, loopVars
    <3>3. CASE Connect
      BY <3>3 DEF Connect, Goto, loopVars
    <3>4. CASE WaitConnected
      BY <3>4 DEF WaitConnected, Take, Goto, loopVars
    <3>5. CASE CloseFd("run", "close", "trywait")
      BY <3>5 DEF CloseFd, Goto, loopVars
    <3>6. CASE ClearFd("run", "close2", "trywait")
      BY <3>6 DEF ClearFd, Goto, loopVars
    <3>7. CASE TryWait
      BY <3>7 DEF TryWait, Take, Goto, loopVars
    <3>8. CASE End
      BY <3>8 DEF End, Goto, loopVars
    <3>9. CASE RunReturn
      BY <3>9 DEF RunReturn, Goto, loopVars
    <3>10. CASE CloseFd("run", "lastclose", "return")
      BY <3>10 DEF CloseFd, Goto, loopVars
    <3>11. CASE ClearFd("run", "lastclose2", "return")
      BY <3>11 DEF ClearFd, Goto, loopVars
    <3>12. CASE StreamEnds
      BY <3>12 DEF StreamEnds, Goto, loopVars
    <3>13. CASE Proceed
      BY <3>13 DEF Proceed, Enter, Goto, loopVars
    <3>14. CASE EnableTls
      BY <3>14 DEF EnableTls, Goto, loopVars
    <3>15. CASE WaitTls
      BY <3>15
    <3>16. CASE AfterTls
      BY <3>16 DEF AfterTls, Take, Goto, loopVars
    <3>17. CASE ClearTlsCb
      BY <3>17 DEF ClearTlsCb, Goto, loopVars
    <3>18. CASE TlsReturn
      BY <3>18 DEF TlsReturn, Goto, loopVars
    <3>19. CASE Execute
      BY <3>19 DEF Execute, Goto, loopVars
    <3>20. CASE HandleConnectionResult
      BY <3>20 DEF HandleConnectionResult, SetJob, Goto, loopVars
    <3>21. CASE HandleTlsConnectionResult
      BY <3>21 DEF HandleTlsConnectionResult, SetJob, Goto, loopVars
    <3>22. CASE MsgTimer
      BY <3>22 DEF MsgTimer, SetJob, Goto, loopVars
    <3>23. CASE Network
      BY <3>23 DEF Network, loopVars
    <3>24. CASE StopStream
      BY <3>24 DEF StopStream, loopVars
    <3>25. ASSUME NEW t \in Answerer, CloseFd(t, "close", "call") PROVE WaitTls
      BY <3>25 DEF CloseFd, Goto, loopVars
    <3>26. ASSUME NEW t \in Answerer, ClearFd(t, "close2", "call") PROVE WaitTls
      BY <3>26 DEF ClearFd, Goto, loopVars
    <3>27. ASSUME NEW t \in Answerer, Call(t) PROVE WaitTls
      BY <3>27 DEF Call, Goto, loopVars
    <3>28. ASSUME NEW t \in Answerer, WriteFlag(t) PROVE WaitTls
      BY <3>28 DEF WriteFlag, Goto, loopVars
    <3>29. ASSUME NEW t \in Answerer, Post(t) PROVE WaitTls
      BY <3>29 DEF Post, Goto, loopVars
    <3>30. CASE UNCHANGED vars
      BY <3>30 DEF vars, loopVars
    <3> QED BY <3>1, <3>2, <3>3, <3>4, <3>5, <3>6, <3>7, <3>8, <3>9, <3>10,
              <3>11, <3>12, <3>13, <3>14, <3>15, <3>16, <3>17, <3>18, <3>19,
              <3>20, <3>21, <3>22, <3>23, <3>24, <3>25, <3>26, <3>27, <3>28,
              <3>29, <3>30 DEF Next, RunThread, RxThread, WorkerThread,
              TimerThread, Answering, Answerer
  <2>3. frame["tls"].sem = 1 /\ frame["tls"].connected
    BY <1>3, <2>1, <2>2 DEF WaitTls, Goto, Thread
  <2> QED BY <1>3, <2>1, <2>3 DEF Handshake, Encrypted
<1>4. IHandshake /\ [Next]_vars =>
        [at["rx"] = "wait" /\ at'["rx"] = "reset" =>
           sock.tls /\ sock.ssl = sock.fd /\ hs = "answer"]_vars
  BY <1>3
<1> QED BY <1>1, <1>2, <1>4, PTL DEF Spec, ResetEncrypted

-----------------------------------------------------------------------------
(* The order of the addresses                                               *)

Listed ==
    /\ \A i \in DOMAIN list : DOMAIN list[i] = AddressFields
    /\ GoodOrder(world, list)
    /\ \A i \in DOMAIN list :
          IF i <= pos /\ world.cfg.port # 0 THEN list[i].port = Htons(world.cfg.port)
          ELSE \E port : GoodPort(world, list[i], port)
    /\ at["run"] = "connect" => pos # 0

(* Only run() and its loop change the addresses.                             *)
LEMMA AddressesStay ==
    ASSUME Types, [Next]_vars, ~Run, ~NextAddress
    PROVE  UNCHANGED <<world, list, pos>> /\ (at'["run"] = "connect" => at["run"] = "connect")
<1> USE DEF Types, TypeOK, Places, Answerer, RunAt, RxAt, AnsweringAt, Thread, Goto, loopVars
<1> DEFINE Stay == UNCHANGED <<world, list, pos>> /\ (at'["run"] = "connect" => at["run"] = "connect")
<1>1. CASE Connect \/ WaitConnected \/ TryWait \/ End \/ RunReturn
  BY <1>1 DEF Connect, WaitConnected, TryWait, End, RunReturn
<1>2. CASE CloseFd("run", "close", "trywait") \/ CloseFd("run", "lastclose", "return")
  BY <1>2 DEF CloseFd
<1>3. CASE ClearFd("run", "close2", "trywait") \/ ClearFd("run", "lastclose2", "return")
  BY <1>3 DEF ClearFd
<1>4. CASE StreamEnds \/ Proceed \/ Network \/ StopStream
  BY <1>4 DEF StreamEnds, Proceed, Network, StopStream
<1>5. CASE EnableTls \/ WaitTls \/ AfterTls \/ ClearTlsCb \/ TlsReturn
  BY <1>5 DEF EnableTls, WaitTls, AfterTls, ClearTlsCb, TlsReturn
<1>6. CASE Execute \/ HandleConnectionResult \/ HandleTlsConnectionResult \/ MsgTimer
  BY <1>6 DEF Execute, HandleConnectionResult, HandleTlsConnectionResult, MsgTimer
<1>7. ASSUME NEW t \in Answerer, CloseFd(t, "close", "call") \/ ClearFd(t, "close2", "call")
      PROVE  Stay
  BY <1>7 DEF CloseFd, ClearFd
<1>8. ASSUME NEW t \in Answerer, Call(t) \/ WriteFlag(t) \/ Post(t) PROVE Stay
  BY <1>8 DEF Call, WriteFlag, Post
<1>9. CASE UNCHANGED vars
  BY <1>9 DEF vars
<1> QED BY <1>1, <1>2, <1>3, <1>4, <1>5, <1>6, <1>7, <1>8, <1>9
          DEF Next, RunThread, RxThread, WorkerThread, TimerThread, Answering

LEMMA ListedRun == ASSUME Types, Run PROVE Listed'
<1>1. /\ list' \in ServerAddressLists(world.cfg, world.dns) /\ world' = world /\ world \in Worlds
      /\ pos' = 0 /\ at'["run"] = "next"
  BY DEF Run, Goto, Types, TypeOK, ListTypes, Thread
<1>2. GoodList(world, list')
  BY <1>1, ListsAreGood
<1>3. /\ \A i \in DOMAIN list' : DOMAIN list'[i] = AddressFields /\ \E port : GoodPort(world, list'[i], port)
      /\ GoodOrder(world, list')
  BY <1>2, Zenon DEF GoodList
<1>4. \A i \in DOMAIN list' : ~(i <= pos')
  <2>1. list' \in Seq(ToSet(list'))
    BY <1>2 DEF GoodList
  <2>2. \A i \in DOMAIN list' : i \in 1..Len(list')
    BY <2>1, LenProperties
  <2> QED BY <1>1, <2>2
<1> QED BY <1>1, <1>3, <1>4 DEF Listed

LEMMA ListedNext == ASSUME Types, Listed, NextAddress PROVE Listed'
<1>1. world' = world /\ world \in Worlds /\ list \in Seq(ToSet(list)) /\ pos \in 0..Len(list)
  BY DEF NextAddress, Types, TypeOK, ListTypes
<1>2. CASE pos = Len(list)
  <2>1. UNCHANGED <<list, pos>> /\ at'["run"] = "end"
    BY <1>2 DEF NextAddress, Goto, Types, TypeOK, Thread
  <2> QED BY <1>1, <2>1 DEF Listed
<1>3. CASE pos # Len(list)
  <2>1. PICK n : n = pos + 1
    OBVIOUS
  <2>2. Len(list) \in Nat /\ DOMAIN list = 1..Len(list)
    BY <1>1, LenProperties
  <2>3. n \in DOMAIN list /\ n # 0 /\ n \in Nat /\ pos \in Nat
    <3>1. PICK m : m = Len(list)
      OBVIOUS
    <3>2. m \in Nat /\ pos \in 0..m /\ pos # m
      BY <1>1, <1>3, <2>2, <3>1
    <3>3. n \in 1..m /\ n # 0 /\ n \in Nat /\ pos \in Nat
      BY <2>1, <3>2
    <3> QED BY <2>2, <3>1, <3>3
  <2>4. PICK x : x = WithPort(world.cfg, list[n])
    OBVIOUS
  <2>5. pos' = n /\ list' = [list EXCEPT ![n] = x]
    BY <1>3, <2>1, <2>4 DEF NextAddress
  <2>6. DOMAIN list' = DOMAIN list /\ list'[n] = x /\ \A i \in DOMAIN list : i # n => list'[i] = list[i]
    BY <2>3, <2>5
  <2>7. /\ DOMAIN list[n] = AddressFields
        /\ IF n <= pos /\ world.cfg.port # 0 THEN list[n].port = Htons(world.cfg.port)
           ELSE \E port : GoodPort(world, list[n], port)
    BY <2>3 DEF Listed
  <2>8. /\ DOMAIN x = AddressFields /\ x.hostname = list[n].hostname /\ x.proto = list[n].proto
        /\ world.cfg.port # 0 => x.port = Htons(world.cfg.port)
        /\ world.cfg.port = 0 => x = list[n]
    <3>1. CASE world.cfg.port = 0
      BY <2>4, <2>7, <3>1 DEF WithPort
    <3>2. CASE world.cfg.port # 0
      <4>1. x = [list[n] EXCEPT !.port = Htons(world.cfg.port)]
        BY <2>4, <3>2 DEF WithPort
      <4>2. "port" \in DOMAIN list[n] /\ "hostname" \in DOMAIN list[n] /\ "proto" \in DOMAIN list[n]
        BY <2>7 DEF AddressFields
      <4> QED BY <2>7, <3>2, <4>1, <4>2
    <3> QED BY <3>1, <3>2
  <2>9. \A i \in DOMAIN list : /\ list'[i].hostname = list[i].hostname /\ list'[i].proto = list[i].proto
                               /\ RecordsFor(world, list'[i]) = RecordsFor(world, list[i])
    BY <2>6, <2>8 DEF RecordsFor
  <2>10. GoodOrder(world, list')
    <3>1. GoodOrder(world, list)
      BY DEF Listed
    <3> QED BY <2>6, <2>9, <3>1 DEF GoodOrder
  <2>11. ASSUME NEW i \in DOMAIN list
         PROVE  /\ DOMAIN list'[i] = AddressFields
                /\ IF i <= n /\ world.cfg.port # 0 THEN list'[i].port = Htons(world.cfg.port)
                   ELSE \E port : GoodPort(world, list'[i], port)
    <3>1. CASE i = n
      <4>1. CASE world.cfg.port # 0
        BY <2>3, <2>6, <2>8, <3>1, <4>1
      <4>2. CASE world.cfg.port = 0
        BY <2>6, <2>7, <2>8, <3>1, <4>2
      <4> QED BY <4>1, <4>2
    <3>2. CASE i # n
      <4>1. i \in Nat /\ (i <= n <=> i <= pos)
        BY <2>1, <2>2, <2>3, <3>2
      <4>2. list'[i] = list[i]
        BY <2>6, <3>2
      <4>3. /\ DOMAIN list[i] = AddressFields
            /\ IF i <= pos /\ world.cfg.port # 0 THEN list[i].port = Htons(world.cfg.port)
               ELSE \E port : GoodPort(world, list[i], port)
        BY DEF Listed
      <4> QED BY <4>1, <4>2, <4>3
    <3> QED BY <3>1, <3>2
  <2> QED BY <1>1, <2>3, <2>5, <2>6, <2>10, <2>11 DEF Listed
<1> QED BY <1>2, <1>3

LEMMA ListedStep == Types /\ Listed /\ [Next]_vars => Listed'
<1> SUFFICES ASSUME Types, Listed, [Next]_vars PROVE Listed'
  OBVIOUS
<1>1. CASE ~Run /\ ~NextAddress
  BY <1>1, AddressesStay DEF Listed
<1> QED BY <1>1, ListedRun, ListedNext

LEMMA TwiceHtons == \A port \in Short : Htons(Htons(port)) = port
<1>1. \A n \in Int : n \div 256 \in Int /\ n % 256 \in 0..255
  BY SMT
<1>2. \A n \in Int : n % 256 = n - 256 * (n \div 256)
  BY SMT
<1>3. SUFFICES ASSUME NEW port \in Short PROVE Htons(Htons(port)) = port
  OBVIOUS
<1>4. port \in Int /\ 0 <= port /\ port < 256 * 256
  BY SMTT(30) DEF Short
<1>5. PICK high : high = port \div 256
  OBVIOUS
<1>6. PICK low : low = port % 256
  OBVIOUS
<1>7. high \in Int /\ low \in 0..255 /\ low = port - 256 * high
  <2>1. high \in Int /\ low \in 0..255
    BY SMT, <1>1, <1>4, <1>5, <1>6
  <2>2. low = port - 256 * high
    BY SMT, <1>2, <1>4, <1>5, <1>6
  <2> QED BY <2>1, <2>2
<1>8. high \in 0..255
  BY SMT, <1>4, <1>7
<1>9. PICK swapped : swapped = low * 256 + high
  OBVIOUS
<1>10. swapped \in Int
  BY SMT, <1>7, <1>8, <1>9
<1>11. swapped % 256 = high /\ swapped \div 256 = low
  <2>1. \A l, h \in 0..255 : (l * 256 + h) % 256 = h /\ (l * 256 + h) \div 256 = l
    BY SMTT(30)
  <2>2. low \in 0..255 /\ high \in 0..255
    BY <1>7, <1>8
  <2>3. (low * 256 + high) % 256 = high /\ (low * 256 + high) \div 256 = low
    BY <2>1, <2>2, Zenon
  <2> QED BY <1>9, <2>3, Zenon
<1>12. Htons(port) = swapped
  BY <1>5, <1>6, <1>9, Zenon DEF Htons
<1>13. Htons(swapped) = high * 256 + low
  BY <1>11, Zenon DEF Htons
<1>14. high * 256 + low = port
  BY SMT, <1>4, <1>7, <1>8
<1> QED BY <1>12, <1>13, <1>14, Zenon

LEMMA ListedOrder == Types /\ Listed => AddressOrder
<1> SUFFICES ASSUME Types, Listed PROVE AddressOrder
  OBVIOUS
<1>1. world \in Worlds /\ list \in Seq(ToSet(list)) /\ pos \in 0..Len(list)
  BY DEF Types, TypeOK, ListTypes
<1>2. \A i \in DOMAIN list : RecordsOf(list[i]) = RecordsFor(world, list[i])
  <2> SUFFICES ASSUME NEW i \in DOMAIN list PROVE RecordsOf(list[i]) = RecordsFor(world, list[i])
    OBVIOUS
  <2>1. PICK query : query = SrvQuery(world, list[i].proto)
    OBVIOUS
  <2>2. RecordsOf(list[i]) = IF query \in DOMAIN world.dns.srv
             THEN {r \in ToSet(world.dns.srv[query]) : r.type = "SRV" /\ r.target = list[i].hostname} ELSE {}
    BY <2>1 DEF RecordsOf, SrvQuery
  <2>3. RecordsFor(world, list[i]) = {r \in SrvRecords(world, query) : r.target = list[i].hostname}
    BY <2>1 DEF RecordsFor
  <2> QED BY <2>2, <2>3 DEF SrvRecords
<1>3. \A i, j \in DOMAIN list :
        /\ list[i].proto = list[j].proto
        /\ i < j /\ RecordsOf(list[i]) # {} =>
              \E r \in RecordsOf(list[i]), q \in RecordsOf(list[j]) :
                  r.prio < q.prio \/ (r.prio = q.prio /\ r.weight >= q.weight)
  <2>1. GoodOrder(world, list)
    BY DEF Listed
  <2> QED BY <1>2, <2>1 DEF GoodOrder
<1>4. ASSUME at["run"] = "connect"
      PROVE  LET port == Htons(list[pos].port) IN
             IF world.cfg.port # 0 THEN port = world.cfg.port
             ELSE port = 5222 \/ \E r \in RecordsOf(list[pos]) : port = r.port
  <2>1. pos \in DOMAIN list /\ pos <= pos
    BY <1>1, <1>4, LenProperties DEF Listed
  <2>2. IF world.cfg.port # 0 THEN list[pos].port = Htons(world.cfg.port)
        ELSE \E port : GoodPort(world, list[pos], port)
    BY <2>1 DEF Listed
  <2>3. CASE world.cfg.port # 0
    <3>1. world.cfg.port \in Short
      BY <1>1, WorldAssumption, Zenon
    <3> QED BY <2>2, <2>3, <3>1, TwiceHtons
  <2>4. CASE world.cfg.port = 0
    <3>1. PICK port : GoodPort(world, list[pos], port)
      BY <2>2, <2>4
    <3>2. Htons(list[pos].port) = port
      BY <3>1, TwiceHtons DEF GoodPort
    <3>3. port = 5222 \/ \E r \in RecordsOf(list[pos]) : port = r.port
      BY <1>2, <2>1, <2>4, <3>1 DEF GoodPort
    <3> QED BY <2>4, <3>2, <3>3
  <2> QED BY <2>3, <2>4
<1> QED BY <1>3, <1>4, Zenon DEF AddressOrder

LEMMA InitListed == Init => Listed
<1> SUFFICES ASSUME Init PROVE Listed
  OBVIOUS
<1>1. list = <<>> /\ at["run"] = "idle"
  BY DEF Init, Thread
<1>2. DOMAIN list = {}
  BY <1>1
<1> QED BY <1>1, <1>2 DEF Listed, GoodOrder

(* The addresses are tried in the order of their SRV records and with the port *)
(* that was configured, that of their record or 5222, whatever name servers    *)
(* answer, and in every run.                                                 *)
THEOREM OrderCorrect == Spec => []AddressOrder
BY InitTypes, TypesStep, InitListed, ListedStep, ListedOrder, PTL DEF Spec
=============================================================================
