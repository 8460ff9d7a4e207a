---------------------------- MODULE StreamProofs ----------------------------
(***************************************************************************)
(* Proofs about Stream, for every script a client may send, every way it   *)
(* is cut into records and every width of the counters.                    *)
(*                                                                         *)
(* The text of a script is a fold over its elements.  What that fold gives *)
(* is proved by the least counterexample: a nonempty set of numbers has a  *)
(* least member.                                                           *)
(***************************************************************************)
EXTENDS Stream, FiniteSetTheorems, TLAPS

(* The least member of a set of natural numbers. *)
LEMMA LeastOf ==
    ASSUME NEW S, S \subseteq Nat, S # {}
    PROVE  \E x \in S : \A y \in S : x <= y
  <1>1. \E x \in S : \A y \in S : ~(<<y, x>> \in OpToRel(<, Nat))
    BY WFMin, NatLessThanWellFounded, Zenon
  <1>2. PICK x \in S : \A y \in S : ~(<<y, x>> \in OpToRel(<, Nat))
    BY <1>1, Zenon
  <1>3. ASSUME NEW y \in S PROVE x <= y
    <2>1. <<y, x>> \in Nat \X Nat
      OBVIOUS
    <2>2. ~(<<y, x>>[1] < <<y, x>>[2])
      BY <1>2, <2>1, Zenon DEF OpToRel
    <2>3. x \in Nat /\ y \in Nat /\ <<y, x>>[1] = y /\ <<y, x>>[2] = x
      OBVIOUS
    <2> QED
      BY <2>2, <2>3
  <1> QED
    BY <1>3

LEMMA MinIs ==
    ASSUME NEW S, S \subseteq Nat, S # {}
    PROVE  Min(S) \in S /\ \A y \in S : Min(S) <= y
  BY LeastOf DEF Min

----------------------------------------------------------------------------
(* The text of a script.                                                   *)

Symbols == {"<session", "<restart", "<message", "<child", "<enable", "<r", "<a", "</",
            "</stream", "<?", ">", "/>", " "}

LEMMA Singleton ==
    ASSUME NEW S, NEW a \in S
    PROVE  <<a>> \in Seq(S) /\ Len(<<a>>) = 1
  OBVIOUS

LEMMA Concat ==
    ASSUME NEW a \in Seq(Symbols), NEW b \in Seq(Symbols), NEW c, c = a \o b
    PROVE  /\ c \in Seq(Symbols) /\ Len(c) = Len(a) + Len(b)
           /\ \A k \in 1 .. Len(a) : c[k] = a[k]
           /\ \A k \in 1 .. Len(b) : c[Len(a) + k] = b[k]
  OBVIOUS

LEMMA TextIs ==
    ASSUME NEW e \in Elements
    PROVE  Text[e] \in Seq(Symbols) /\ Len(Text[e]) \in 1 .. 8
  <1>1. e \in {"session", "restart", "message", "empty", "decl", "enable", "r", "a",
               "longenable", "longr", "longa", "blank", "end"}
    BY DEF Elements, Text
  <1>2. CASE e = "session"
    <2>1. Text[e] = <<"<session", ">", "<child", "/>", "</", ">">>
      BY <1>2 DEF Text
    <2> QED
      BY <2>1 DEF Symbols
  <1>3. CASE e = "message"
    <2>1. Text[e] = <<"<message", ">", "<child", ">", "</", ">", "</", ">">>
      BY <1>3 DEF Text
    <2> QED
      BY <2>1 DEF Symbols
  <1>4. CASE e = "empty"
    <2>1. Text[e] = <<"<message", "/>">>
      BY <1>4 DEF Text
    <2> QED
      BY <2>1 DEF Symbols
  <1>5. CASE e = "decl"
    <2>1. Text[e] = <<"<?", ">", "<message", "/>">>
      BY <1>5 DEF Text
    <2> QED
      BY <2>1 DEF Symbols
  <1>6. CASE e = "enable"
    <2>1. Text[e] = <<"<enable", "/>">>
      BY <1>6 DEF Text
    <2> QED
      BY <2>1 DEF Symbols
  <1>7. CASE e = "r"
    <2>1. Text[e] = <<"<r", "/>">>
      BY <1>7 DEF Text
    <2> QED
      BY <2>1 DEF Symbols
  <1>8. CASE e = "longr"
    <2>1. Text[e] = <<"<r", ">", "</", ">">>
      BY <1>8 DEF Text
    <2> QED
      BY <2>1 DEF Symbols
  <1>9. CASE e = "a"
    <2>1. Text[e] = <<"<a", "/>">>
      BY <1>9 DEF Text
    <2> QED
      BY <2>1 DEF Symbols
  <1>10. CASE e = "blank"
    <2>1. Text[e] = <<" ">>
      BY <1>10 DEF Text
    <2>2. " " \in Symbols
      BY DEF Symbols
    <2>3. <<" ">> \in Seq(Symbols) /\ Len(<<" ">>) = 1
      BY <2>2, Singleton, Zenon
    <2>4. Text[e] \in Seq(Symbols) /\ Len(Text[e]) = 1
      BY <2>1, <2>3, Zenon
    <2> QED
      BY <2>4
  <1>11. CASE e = "end"
    <2>1. Text[e] = <<"</stream", ">">>
      BY <1>11 DEF Text
    <2> QED
      BY <2>1 DEF Symbols
  <1>12. CASE e = "restart"
    <2>1. Text[e] = <<"<restart", ">", "<child", "/>", "</", ">">>
      BY <1>12 DEF Text
    <2> QED
      BY <2>1 DEF Symbols
  <1>13. CASE e = "longenable"
    <2>1. Text[e] = <<"<enable", ">", "</", ">">>
      BY <1>13 DEF Text
    <2> QED
      BY <2>1 DEF Symbols
  <1>14. CASE e = "longa"
    <2>1. Text[e] = <<"<a", ">", "</", ">">>
      BY <1>14 DEF Text
    <2> QED
      BY <2>1 DEF Symbols
  <1> QED
    BY <1>1, <1>2, <1>3, <1>4, <1>5, <1>6, <1>7, <1>8, <1>9, <1>10, <1>11, <1>12, <1>13,
       <1>14

(* f[i] is the text of the first i of n elements. *)
Pieces(s, n) == [k \in 1 .. n |-> Text[s[k]]]
IsSums(f, s, n) ==
    /\ f \in [1 .. n -> Seq(Symbols)]
    /\ n >= 1 => f[1] = Text[s[1]]
    /\ \A i \in 2 .. n : f[i] = f[i - 1] \o Text[s[i]]

LEMMA SumsExist ==
    ASSUME NEW s \in Seq(Elements), NEW n \in 0 .. Len(s)
    PROVE  \E f : IsSums(f, s, n)
  <1> DEFINE Bad == {m \in 0 .. Len(s) : ~\E f : IsSums(f, s, m)}
  <1> SUFFICES ASSUME Bad # {} PROVE FALSE
    OBVIOUS
  <1>0. Bad \subseteq Nat /\ Len(s) \in Nat
    OBVIOUS
  <1>1. PICK m \in Bad : \A y \in Bad : m <= y
    BY <1>0, LeastOf, Zenon
  <1>2. m \in 0 .. Len(s) /\ Len(s) \in Nat
    BY <1>0, <1>1
  <1>3. m # 0
    <2>1. IsSums(<<>>, s, 0)
      BY DEF IsSums
    <2> QED
      BY <2>1
  <1>4. m - 1 \in 0 .. Len(s) /\ m - 1 \notin Bad
    BY <1>1, <1>2, <1>3
  <1>5. PICK g : IsSums(g, s, m - 1)
    BY <1>4
  <1>6. s[m] \in Elements /\ Text[s[m]] \in Seq(Symbols)
    BY <1>2, <1>3, TextIs
  <1> DEFINE last == IF m = 1 THEN Text[s[1]] ELSE g[m - 1] \o Text[s[m]]
             f == [i \in 1 .. m |-> IF i = m THEN last ELSE g[i]]
  <1>7. last \in Seq(Symbols)
    <2>1. CASE m = 1
      BY <1>6, <2>1
    <2>2. CASE m # 1
      <3>1. g[m - 1] \in Seq(Symbols)
        BY <1>2, <1>3, <1>5, <2>2 DEF IsSums
      <3> QED
        BY <1>6, <2>2, <3>1
    <2> QED
      BY <2>1, <2>2
  <1>8. \A i \in 1 .. m : i # m => i \in 1 .. m - 1
    BY <1>2
  <1>9. f \in [1 .. m -> Seq(Symbols)]
    BY <1>5, <1>7, <1>8 DEF IsSums
  <1>10. f[1] = Text[s[1]]
    BY <1>2, <1>3, <1>5 DEF IsSums
  <1>11. ASSUME NEW i \in 2 .. m PROVE f[i] = f[i - 1] \o Text[s[i]]
    <2>1. f[i - 1] = g[i - 1]
      BY <1>2
    <2>2. CASE i = m
      <3>1. m # 1 /\ f[i] = last
        BY <1>2, <2>2
      <3> QED
        BY <2>1, <2>2, <3>1
    <2>3. CASE i # m
      <3>1. f[i] = g[i] /\ i \in 2 .. m - 1
        BY <1>2, <2>3
      <3> QED
        BY <1>5, <2>1, <3>1 DEF IsSums
    <2> QED
      BY <2>2, <2>3
  <1>12. IsSums(f, s, m)
    BY <1>9, <1>10, <1>11 DEF IsSums
  <1> QED
    BY <1>12

(* FlattenSeq computes them. *)
Rec(f, q) == f = [i \in 1 .. Len(q) |-> IF i = 1 THEN q[i] ELSE f[i - 1] \o q[i]]

LEMMA FlattenIs ==
    ASSUME NEW q, Len(q) # 0, \E f : Rec(f, q)
    PROVE  \E f : Rec(f, q) /\ FlattenSeq(q) = f[Len(q)]
  BY Zenon DEF Rec, FlattenSeq

LEMMA PiecesIs ==
    ASSUME NEW s \in Seq(Elements), NEW n \in 0 .. Len(s)
    PROVE  /\ Pieces(s, n) \in Seq(Seq(Symbols)) /\ Len(Pieces(s, n)) = n
           /\ \A i \in 1 .. n : Pieces(s, n)[i] = Text[s[i]]
  <1>1. \A k \in 1 .. n : s[k] \in Elements
    OBVIOUS
  <1>2. \A k \in 1 .. n : Text[s[k]] \in Seq(Symbols)
    BY <1>1, TextIs
  <1>3. n \in Nat
    OBVIOUS
  <1> QED
    BY <1>2, <1>3 DEF Pieces

LEMMA FlattenSums ==
    ASSUME NEW s \in Seq(Elements), NEW n \in 1 .. Len(s), NEW f, IsSums(f, s, n)
    PROVE  FlattenSeq(Pieces(s, n)) = f[n]
  <1> DEFINE q == Pieces(s, n)
  <1>1. Len(q) = n /\ \A i \in 1 .. n : q[i] = Text[s[i]]
    BY PiecesIs
  <1> HIDE DEF q
  <1>2. Rec(f, q)
    <2>1. f = [i \in 1 .. n |-> f[i]]
      BY DEF IsSums
    <2>2. ASSUME NEW i \in 1 .. n
          PROVE  f[i] = IF i = 1 THEN q[i] ELSE f[i - 1] \o q[i]
      <3>1. n >= 1 /\ (i # 1 => i \in 2 .. n) /\ q[i] = Text[s[i]]
        BY <1>1
      <3> QED
        BY <3>1 DEF IsSums
    <2> QED
      BY <1>1, <2>1, <2>2 DEF Rec
  <1>3. PICK g : Rec(g, q) /\ FlattenSeq(q) = g[n]
    BY <1>1, <1>2, FlattenIs
  <1>4. \A i \in 1 .. n : g[i] = IF i = 1 THEN q[i] ELSE g[i - 1] \o q[i]
    BY <1>1, <1>3 DEF Rec
  <1> DEFINE Bad == {i \in 1 .. n : g[i] # f[i]}
  <1>5. ASSUME Bad # {} PROVE FALSE
    <2>1. Bad \subseteq Nat
      OBVIOUS
    <2>2. PICK m \in Bad : \A y \in Bad : m <= y
      BY <1>5, <2>1, LeastOf, Zenon
    <2>3. m \in 1 .. n /\ g[m] # f[m] /\ 1 \in 1 .. n /\ n >= 1 /\ n \in Nat
      BY <2>2
    <2>4. m # 1
      BY <1>1, <1>4, <2>3 DEF IsSums
    <2>5. m - 1 \in 1 .. n /\ m \in 2 .. n /\ m - 1 \notin Bad
      <3>1. m - 1 \in 1 .. n /\ m \in 2 .. n /\ ~(m <= m - 1)
        BY <2>3, <2>4
      <3> QED
        BY <2>2, <3>1
    <2>6. g[m - 1] = f[m - 1]
      BY <2>5
    <2>7. g[m] = g[m - 1] \o q[m]
      BY <1>4, <2>3, <2>4
    <2>8. f[m] = f[m - 1] \o q[m]
      BY <1>1, <2>3, <2>5 DEF IsSums
    <2> QED
      BY <2>3, <2>6, <2>7, <2>8, Zenon
  <1> QED
    BY <1>3, <1>5 DEF q

(* Each of them begins with those before it. *)
LEMMA SumsGrow ==
    ASSUME NEW s \in Seq(Elements), NEW n \in 1 .. Len(s), NEW f, IsSums(f, s, n),
           NEW i \in 1 .. n, NEW j \in i .. n
    PROVE  /\ Len(f[i]) \in Nat /\ Len(f[j]) \in Nat /\ Len(f[i]) <= Len(f[j])
           /\ \A k \in 1 .. Len(f[i]) : f[j][k] = f[i][k]
  <1> DEFINE Ok(m) == /\ Len(f[i]) <= Len(f[m])
                      /\ \A k \in 1 .. Len(f[i]) : f[m][k] = f[i][k]
             Bad == {m \in i .. n : ~Ok(m)}
  <1>0. \A m \in 1 .. n : f[m] \in Seq(Symbols) /\ Len(f[m]) \in Nat
    BY DEF IsSums
  <1>1. ASSUME Bad # {} PROVE FALSE
    <2>0. Bad \subseteq Nat
      OBVIOUS
    <2>1. PICK m \in Bad : \A y \in Bad : m <= y
      BY <1>1, <2>0, LeastOf, Zenon
    <2>2. m \in i .. n /\ ~Ok(m)
      BY <2>1, Zenon
    <2>3. m # i
      <3>1. Ok(i)
        BY <1>0
      <3> QED
        BY <2>2, <3>1, Zenon
    <2>4. m - 1 \in i .. n /\ Ok(m - 1) /\ m \in 2 .. n /\ m - 1 \in 1 .. n
      <3>1. m - 1 \in i .. n /\ m \in 2 .. n /\ m - 1 \in 1 .. n /\ ~(m <= m - 1)
        BY <2>2, <2>3
      <3>2. m - 1 \notin Bad
        BY <2>1, <3>1, Zenon
      <3> QED
        BY <3>1, <3>2, Zenon
    <2>5. f[m] = f[m - 1] \o Text[s[m]]
      BY <2>4 DEF IsSums
    <2>6. f[m - 1] \in Seq(Symbols) /\ Text[s[m]] \in Seq(Symbols)
      <3>1. m \in 1 .. Len(s)
        BY <2>4
      <3>2. s[m] \in Elements
        BY <3>1
      <3> QED
        BY <1>0, <2>4, <3>2, TextIs
    <2>7. /\ Len(f[m]) = Len(f[m - 1]) + Len(Text[s[m]])
          /\ \A k \in 1 .. Len(f[m - 1]) : f[m][k] = f[m - 1][k]
      <3> DEFINE a == f[m - 1]
                 b == Text[s[m]]
                 c == f[m]
      <3>1. a \in Seq(Symbols) /\ b \in Seq(Symbols) /\ c = a \o b
        BY <2>5, <2>6
      <3> HIDE DEF a, b, c
      <3>2. Len(c) = Len(a) + Len(b) /\ \A k \in 1 .. Len(a) : c[k] = a[k]
        BY <3>1, Concat
      <3> QED
        BY <3>2 DEF a, b, c
    <2>8. Ok(m)
      <3>1. /\ Len(f[m - 1]) \in Nat /\ Len(f[i]) \in Nat /\ Len(f[i]) <= Len(f[m - 1])
            /\ Len(Text[s[m]]) \in Nat
            /\ \A k \in 1 .. Len(f[i]) : f[m - 1][k] = f[i][k]
        BY <1>0, <2>4, <2>6
      <3>2. Len(f[i]) <= Len(f[m]) /\ \A k \in 1 .. Len(f[i]) : k \in 1 .. Len(f[m - 1])
        <4> DEFINE x == Len(f[i])
                   y == Len(f[m - 1])
                   z == Len(Text[s[m]])
        <4>1. x \in Nat /\ y \in Nat /\ z \in Nat /\ x <= y /\ Len(f[m]) = y + z
          BY <2>7, <3>1
        <4> HIDE DEF x, y, z
        <4>2. x <= Len(f[m]) /\ \A k \in 1 .. x : k \in 1 .. y
          BY <4>1
        <4> QED
          BY <4>2 DEF x, y
      <3>3. ASSUME NEW k \in 1 .. Len(f[i]) PROVE f[m][k] = f[i][k]
        <4>1. f[m][k] = f[m - 1][k]
          BY <2>7, <3>2
        <4>2. f[m - 1][k] = f[i][k]
          BY <3>1
        <4> QED
          BY <4>1, <4>2
      <3> QED
        BY <3>2, <3>3
    <2> QED
      BY <2>2, <2>8, Zenon
  <1>2. Ok(j)
    BY <1>1
  <1> QED
    BY <1>0, <1>2

LEMMA SumsPrefix ==
    ASSUME NEW s \in Seq(Elements), NEW n \in 1 .. Len(s), NEW f, IsSums(f, s, n),
           NEW m \in 1 .. n
    PROVE  FlattenSeq(Pieces(s, m)) = f[m]
  <1> DEFINE g == [i \in 1 .. m |-> f[i]]
  <1>1. /\ \A i \in 1 .. m : g[i] = f[i] /\ i \in 1 .. n
        /\ \A i \in 2 .. m : i - 1 \in 1 .. m /\ i \in 1 .. m /\ i \in 2 .. n
        /\ m >= 1 /\ n >= 1 /\ 1 \in 1 .. m /\ m \in 1 .. Len(s) /\ m \in 1 .. m
    OBVIOUS
  <1>2. g \in [1 .. m -> Seq(Symbols)]
    BY <1>1 DEF IsSums
  <1> HIDE DEF g
  <1>3. IsSums(g, s, m)
    BY <1>1, <1>2 DEF IsSums
  <1> QED
    BY <1>1, <1>3, FlattenSums

----------------------------------------------------------------------------
(* Where the elements of the client's script lie in its text.              *)

Layout ==
    /\ text \in Seq(Symbols)
    /\ Finish(0) = 0 /\ Finish(Len(script)) = Len(text)
    /\ \A i \in 0 .. Len(script) : Finish(i) \in 0 .. Len(text)
    /\ \A i, j \in 0 .. Len(script) : i <= j => Finish(i) <= Finish(j)
    /\ \A i \in 1 .. Len(script) :
          /\ Finish(i) = Finish(i - 1) + Len(Text[script[i]])
          /\ \A k \in 1 .. Len(Text[script[i]]) :
                text[Finish(i - 1) + k] = Text[script[i]][k]

LEMMA TextLayout ==
    ASSUME script \in Seq(Elements),
           text = FlattenSeq([i \in DOMAIN script |-> Text[script[i]]])
    PROVE  Layout
  <1> DEFINE N == Len(script)
  <1>1. N \in Nat /\ DOMAIN script = 1 .. N
    OBVIOUS
  <1>2. text = FlattenSeq(Pieces(script, N))
    BY <1>1 DEF Pieces
  <1>3. \A i : Finish(i) = Len(FlattenSeq(Pieces(script, i)))
    BY DEF Finish, Pieces
  <1>4. FlattenSeq(Pieces(script, 0)) = <<>>
    <2>1. Pieces(script, 0) = <<>>
      BY DEF Pieces
    <2>2. Len(<<>>) = 0
      OBVIOUS
    <2> QED
      BY <2>1, <2>2, Zenon DEF FlattenSeq
  <1>5. Finish(0) = 0
    BY <1>3, <1>4
  <1>6. CASE N = 0
    <2>1. text = <<>>
      BY <1>2, <1>4, <1>6
    <2>2. text \in Seq(Symbols) /\ Len(text) = 0
      BY <2>1
    <2>3. \A i \in 0 .. N : i = 0
      BY <1>6
    <2>4. ~\E i \in 1 .. N : TRUE
      BY <1>6
    <2> QED
      BY <1>5, <1>6, <2>2, <2>3, <2>4 DEF Layout
  <1>7. CASE N # 0
    <2>1. N \in 1 .. N /\ N \in 0 .. N
      BY <1>1, <1>7
    <2>2. PICK f : IsSums(f, script, N)
      BY <2>1, SumsExist
    <2>3. \A i \in 1 .. N : FlattenSeq(Pieces(script, i)) = f[i]
      BY <2>1, <2>2, SumsPrefix
    <2>4. text = f[N] /\ text \in Seq(Symbols)
      BY <1>2, <2>1, <2>2, <2>3 DEF IsSums
    <2>5. \A i \in 1 .. N : Finish(i) = Len(f[i]) /\ Len(f[i]) \in Nat
      BY <1>3, <2>2, <2>3 DEF IsSums
    <2>6. \A i \in 1 .. N : \A j \in i .. N :
             Len(f[i]) <= Len(f[j]) /\ \A k \in 1 .. Len(f[i]) : f[j][k] = f[i][k]
      BY <2>1, <2>2, SumsGrow
    <2>7. ASSUME NEW i \in 0 .. N, NEW j \in 0 .. N, i <= j
          PROVE  Finish(i) <= Finish(j) /\ Finish(i) \in Nat
      <3>1. CASE i = 0
        <4>1. j = 0 \/ j \in 1 .. N
          OBVIOUS
        <4> QED
          BY <1>5, <2>5, <3>1, <4>1
      <3>2. CASE i # 0
        <4>1. i \in 1 .. N /\ j \in 1 .. N /\ j \in i .. N
          BY <2>7, <3>2
        <4> QED
          BY <2>5, <2>6, <4>1
      <3> QED
        BY <3>1, <3>2
    <2>8. \A i \in 0 .. N : Finish(i) \in 0 .. Len(text)
      <3>1. Finish(N) = Len(text) /\ Len(text) \in Nat
        BY <2>1, <2>4, <2>5
      <3>2. \A i \in 0 .. N : i <= N
        OBVIOUS
      <3> QED
        BY <2>1, <2>7, <3>1, <3>2
    <2>9. ASSUME NEW i \in 1 .. N
          PROVE  /\ Finish(i) = Finish(i - 1) + Len(Text[script[i]])
                 /\ \A k \in 1 .. Len(Text[script[i]]) :
                       text[Finish(i - 1) + k] = Text[script[i]][k]
      <3> DEFINE e == Text[script[i]]
      <3>1. script[i] \in Elements
        OBVIOUS
      <3>2. e \in Seq(Symbols) /\ Len(e) \in Nat
        BY <3>1, TextIs
      <3>3. /\ Len(f[i]) = Finish(i - 1) + Len(e)
            /\ \A k \in 1 .. Len(e) : f[i][Finish(i - 1) + k] = e[k]
        <4>1. CASE i = 1
          <5>1. f[1] = e
            BY <2>1, <2>2, <4>1 DEF IsSums
          <5>2. Finish(i - 1) = 0
            BY <1>5, <4>1
          <5> QED
            BY <3>2, <4>1, <5>1, <5>2
        <4>2. CASE i # 1
          <5>1. i - 1 \in 1 .. N /\ i \in 2 .. N
            BY <4>2
          <5>2. f[i] = f[i - 1] \o e /\ f[i - 1] \in Seq(Symbols)
            BY <2>2, <5>1 DEF IsSums
          <5>3. Finish(i - 1) = Len(f[i - 1])
            BY <2>5, <5>1
          <5>4. /\ Len(f[i]) = Len(f[i - 1]) + Len(e)
                /\ \A k \in 1 .. Len(e) : f[i][Len(f[i - 1]) + k] = e[k]
            <6> DEFINE a == f[i - 1]
                       c == f[i]
            <6>1. a \in Seq(Symbols) /\ e \in Seq(Symbols) /\ c = a \o e
              BY <3>2, <5>2
            <6> HIDE DEF a, c, e
            <6>2. Len(c) = Len(a) + Len(e) /\ \A k \in 1 .. Len(e) : c[Len(a) + k] = e[k]
              BY <6>1, Concat
            <6> QED
              BY <6>2 DEF a, c
          <5> QED
            BY <5>3, <5>4, Zenon
        <4> QED
          BY <4>1, <4>2
      <3>4. \A k \in 1 .. Len(f[i]) : text[k] = f[i][k]
        <4>1. N \in i .. N
          BY <1>1
        <4> QED
          BY <2>4, <2>6, <4>1
      <3>5. Finish(i - 1) \in Nat
        <4>1. i - 1 \in 0 .. N
          OBVIOUS
        <4> QED
          BY <2>8, <4>1
      <3>6. Finish(i) = Len(f[i])
        BY <2>5
      <3> HIDE DEF e
      <3>7. \A k \in 1 .. Len(e) : Finish(i - 1) + k \in 1 .. Finish(i - 1) + Len(e)
        BY <3>2, <3>5
      <3>8. \A k \in 1 .. Len(e) : text[Finish(i - 1) + k] = e[k]
        BY <3>3, <3>4, <3>7
      <3> QED
        BY <3>3, <3>6, <3>8 DEF e
    <2>10. Finish(N) = Len(text)
      BY <2>1, <2>4, <2>5
    <2> QED
      BY <1>5, <2>4, <2>7, <2>8, <2>9, <2>10 DEF Layout
  <1> QED
    BY <1>6, <1>7

----------------------------------------------------------------------------
(* Remainders.                                                             *)

LEMMA RemainderIs ==
    ASSUME NEW x \in Nat, NEW w \in Nat \ {0}, NEW d \in Nat, NEW r \in 0 .. w - 1,
           x = w * d + r
    PROVE  x % w = r
  OBVIOUS

LEMMA Divide ==
    ASSUME NEW x \in Nat, NEW w \in Nat \ {0}
    PROVE  x % w \in 0 .. w - 1 /\ \E d \in Nat : x = w * d + (x % w)
  <1> DEFINE R == {r \in Nat : \E d \in Nat : x = w * d + r}
  <1>1. x \in R
    <2>1. 0 \in Nat /\ x = w * 0 + x
      OBVIOUS
    <2> QED
      BY <2>1
  <1>2. PICK r \in R : \A y \in R : r <= y
    <2>1. R \subseteq Nat
      OBVIOUS
    <2> QED
      BY <1>1, <2>1, LeastOf, Zenon
  <1>3. PICK d \in Nat : x = w * d + r
    BY <1>2
  <1>4. r \in Nat
    BY <1>2
  <1>5. r < w
    <2> SUFFICES ASSUME ~(r < w) PROVE FALSE
      OBVIOUS
    <2>1. r - w \in Nat /\ ~(r <= r - w)
      BY <1>4
    <2>2. x = w * (d + 1) + (r - w) /\ d + 1 \in Nat
      BY <1>3, <1>4
    <2>3. r - w \in R
      BY <2>1, <2>2
    <2> QED
      BY <1>2, <2>1, <2>3
  <1>6. x % w = r
    BY <1>3, <1>4, <1>5, RemainderIs
  <1>7. x = w * d + (x % w)
    BY <1>3, <1>6
  <1>8. x % w \in 0 .. w - 1
    <2>1. r \in 0 .. w - 1
      BY <1>4, <1>5
    <2> QED
      BY <1>6, <2>1
  <1> QED
    BY <1>7, <1>8, Zenon

LEMMA RemainderAdds ==
    ASSUME NEW x \in Nat, NEW w \in Nat \ {0}, NEW k \in Nat, (x % w) + k <= w
    PROVE  /\ (x % w) + k = w => (x + k) % w = 0
           /\ (x % w) + k # w => (x + k) % w = (x % w) + k
  <1>1. PICK d \in Nat : x = w * d + (x % w)
    BY Divide
  <1>2. x % w \in 0 .. w - 1
    BY Divide
  <1> DEFINE r == x % w
  <1>3. x = w * d + r /\ r \in 0 .. w - 1 /\ r + k <= w
    BY <1>1, <1>2
  <1> HIDE DEF r
  <1>4. CASE r + k = w
    <2>1. x + k = w * (d + 1) + 0 /\ d + 1 \in Nat /\ x + k \in Nat /\ 0 \in 0 .. w - 1
      BY <1>3, <1>4
    <2>2. (x + k) % w = 0
      BY <2>1, RemainderIs
    <2> QED
      BY <1>4, <2>2 DEF r
  <1>5. CASE r + k # w
    <2>1. x + k = w * d + (r + k) /\ x + k \in Nat /\ r + k \in 0 .. w - 1
      BY <1>3, <1>5
    <2>2. (x + k) % w = r + k
      BY <2>1, RemainderIs
    <2> QED
      BY <1>5, <2>2 DEF r
  <1> QED
    BY <1>4, <1>5

LEMMA CountModulo ==
    ASSUME NEW x \in Nat, NEW w \in Nat \ {0}
    PROVE  ((x % w) + 1) % w = (x + 1) % w
  <1> DEFINE r == x % w
  <1>1. r \in 0 .. w - 1 /\ r + 1 <= w
    BY Divide
  <1>2. (r + 1 = w => (x + 1) % w = 0) /\ (r + 1 # w => (x + 1) % w = r + 1)
    <2>1. 1 \in Nat
      OBVIOUS
    <2> QED
      BY <1>1, <2>1, RemainderAdds, Zenon
  <1> HIDE DEF r
  <1>3. CASE r + 1 = w
    <2>1. r + 1 = w * 1 + 0 /\ 0 \in 0 .. w - 1 /\ r + 1 \in Nat
      BY <1>1, <1>3
    <2>2. (r + 1) % w = 0
      BY <2>1, RemainderIs
    <2> QED
      BY <1>2, <1>3, <2>2 DEF r
  <1>4. CASE r + 1 # w
    <2>1. r + 1 = w * 0 + (r + 1) /\ r + 1 \in 0 .. w - 1 /\ r + 1 \in Nat
      BY <1>1, <1>4
    <2>2. (r + 1) % w = r + 1
      BY <2>1, RemainderIs
    <2> QED
      BY <1>2, <1>4, <2>2 DEF r
  <1> QED
    BY <1>3, <1>4

----------------------------------------------------------------------------
(* The search for the end of a stanza.                                     *)

LEMMA Pair ==
    /\ Cardinality({}) = 0 /\ \A a : Cardinality({a}) = 1
    /\ \A a, b : a # b => Cardinality({a, b}) = 2
  <1>1. Cardinality({}) = 0
    BY FS_EmptySet
  <1>2. \A a : IsFiniteSet({a}) /\ Cardinality({a}) = 1
    BY FS_Singleton
  <1>3. ASSUME NEW a, NEW b, a # b PROVE Cardinality({a, b}) = 2
    <2>1. {a, b} = {a} \cup {b} /\ b \notin {a}
      BY <1>3
    <2>2. Cardinality({a} \cup {b}) = Cardinality({a}) + 1
      BY <1>2, <2>1, FS_AddElement
    <2> QED
      BY <1>2, <2>1, <2>2
  <1> QED
    BY <1>1, <1>2, <1>3

LEMMA EndInBuffer ==
    ASSUME NEW buf \in Seq(Symbols)
    PROVE  find_stanza_end(buf) \in 0 .. Len(buf)
  <1> DEFINE ends == {k \in DOMAIN buf : EndsAt(buf, k)}
  <1>1. find_stanza_end(buf) = IF ends = {} THEN 0 ELSE Min(ends)
    BY DEF find_stanza_end
  <1>2. ends \subseteq 1 .. Len(buf) /\ ends \subseteq Nat /\ Len(buf) \in Nat
    OBVIOUS
  <1>3. ends # {} => Min(ends) \in ends
    BY <1>2, MinIs
  <1> HIDE DEF ends
  <1>4. CASE ends = {}
    BY <1>1, <1>2, <1>4
  <1>5. CASE ends # {}
    <2>1. find_stanza_end(buf) \in 1 .. Len(buf)
      BY <1>1, <1>2, <1>3, <1>5
    <2> QED
      BY <1>2, <2>1
  <1> QED
    BY <1>4, <1>5

(* The first stanza ends at n if n is the first place where one may end. *)
LEMMA FirstEnd ==
    ASSUME NEW buf \in Seq(Symbols), NEW n \in Nat \ {0},
           n <= Len(buf) => EndsAt(buf, n),
           \A k \in 1 .. n - 1 : k <= Len(buf) => ~EndsAt(buf, k)
    PROVE  find_stanza_end(buf) = IF n <= Len(buf) THEN n ELSE 0
  <1> DEFINE ends == {k \in DOMAIN buf : EndsAt(buf, k)}
  <1>1. find_stanza_end(buf) = IF ends = {} THEN 0 ELSE Min(ends)
    BY DEF find_stanza_end
  <1>2. ends \subseteq Nat /\ Len(buf) \in Nat /\ \A k : k \in ends <=> k \in 1 .. Len(buf) /\ EndsAt(buf, k)
    OBVIOUS
  <1>3. ends # {} => Min(ends) \in ends /\ \A y \in ends : Min(ends) <= y
    BY <1>2, MinIs
  <1> HIDE DEF ends
  <1>4. \A k \in ends : n <= k
    BY <1>2
  <1>5. CASE n <= Len(buf)
    <2>1. n \in ends
      BY <1>2, <1>5
    <2>2. Min(ends) \in Nat /\ n <= Min(ends) /\ Min(ends) <= n
      BY <1>2, <1>3, <1>4, <2>1
    <2>3. Min(ends) = n
      BY <2>2
    <2> QED
      BY <1>1, <1>5, <2>1, <2>3
  <1>6. CASE ~(n <= Len(buf))
    <2>1. ends = {}
      BY <1>2, <1>4, <1>6
    <2> QED
      BY <1>1, <1>6, <2>1
  <1> QED
    BY <1>5, <1>6

(* buf begins with the text of e, as far as it goes. *)
Begins(buf, e) == \A k \in 1 .. Len(buf) : k <= Len(Text[e]) => buf[k] = Text[e][k]

LEMMA SessionEnd ==
    ASSUME NEW e \in {"session", "restart"}, NEW buf \in Seq(Symbols), Begins(buf, e)
    PROVE  Len(Text[e]) = 6 /\ find_stanza_end(buf) = IF 6 <= Len(buf) THEN 6 ELSE 0
  <1> DEFINE tag == IF e = "session" THEN "<session" ELSE "<restart"
  <1>1. Text[e] = <<tag, ">", "<child", "/>", "</", ">">>
    <2>1. CASE e = "session"
      BY <2>1 DEF Text
    <2>2. CASE e = "restart"
      BY <2>2 DEF Text
    <2> QED
      BY <2>1, <2>2
  <1>0. tag \in {"<session", "<restart"}
    OBVIOUS
  <1> HIDE DEF tag
  <1>2. Len(Text[e]) = 6
    BY <1>1
  <1>3. 1 <= Len(buf) => buf[1] \in {"<session", "<restart"}
    BY <1>0, <1>1, <1>2 DEF Begins
  <1>4. 2 <= Len(buf) => buf[2] = ">"
    BY <1>1, <1>2 DEF Begins
  <1>5. 3 <= Len(buf) => buf[3] = "<child"
    BY <1>1, <1>2 DEF Begins
  <1>6. 4 <= Len(buf) => buf[4] = "/>"
    BY <1>1, <1>2 DEF Begins
  <1>7. 5 <= Len(buf) => buf[5] = "</"
    BY <1>1, <1>2 DEF Begins
  <1>8. 6 <= Len(buf) => buf[6] = ">"
    BY <1>1, <1>2 DEF Begins
  <1>9. 4 <= Len(buf) => Depth(buf, 4) = 1
    <2> SUFFICES ASSUME 4 <= Len(buf) PROVE Depth(buf, 4) = 1
      OBVIOUS
    <2>1. /\ ~OpensAt(buf, 1) /\ OpensAt(buf, 2) /\ ~OpensAt(buf, 3)
          /\ ~OpensAt(buf, 4)
      BY <1>3, <1>4, <1>5, <1>6, <1>7, <1>8 DEF OpensAt, StartTags
    <2>2. /\ ~ClosesAt(buf, 1) /\ ~ClosesAt(buf, 2) /\ ~ClosesAt(buf, 3)
          /\ ~ClosesAt(buf, 4)
      BY <1>3, <1>4, <1>5, <1>6, <1>7, <1>8 DEF ClosesAt, EndTags
    <2>3. \A j \in 1 .. 4 : j \in {1, 2, 3, 4}
      OBVIOUS
    <2>4. {j \in 1 .. 4 : OpensAt(buf, j)} = {2}
      BY <2>1, <2>3
    <2>5. {j \in 1 .. 4 : ClosesAt(buf, j)} = {}
      BY <2>2, <2>3
    <2>6. Cardinality({2}) = 1 /\ Cardinality({}) = 0
      BY Pair, Zenon
    <2>7. /\ Cardinality({j \in 1 .. 4 : OpensAt(buf, j)}) = 1
          /\ Cardinality({j \in 1 .. 4 : ClosesAt(buf, j)}) = 0
      BY <2>4, <2>5, <2>6, Zenon
    <2> QED
      BY <2>7 DEF Depth
  <1>10. 6 <= Len(buf) => Depth(buf, 6) = 0
    <2> SUFFICES ASSUME 6 <= Len(buf) PROVE Depth(buf, 6) = 0
      OBVIOUS
    <2>1. /\ ~OpensAt(buf, 1) /\ OpensAt(buf, 2) /\ ~OpensAt(buf, 3)
          /\ ~OpensAt(buf, 4) /\ ~OpensAt(buf, 5) /\ ~OpensAt(buf, 6)
      BY <1>3, <1>4, <1>5, <1>6, <1>7, <1>8 DEF OpensAt, StartTags
    <2>2. /\ ~ClosesAt(buf, 1) /\ ~ClosesAt(buf, 2) /\ ~ClosesAt(buf, 3)
          /\ ~ClosesAt(buf, 4) /\ ~ClosesAt(buf, 5) /\ ClosesAt(buf, 6)
      BY <1>3, <1>4, <1>5, <1>6, <1>7, <1>8 DEF ClosesAt, EndTags
    <2>3. \A j \in 1 .. 6 : j \in {1, 2, 3, 4, 5, 6}
      OBVIOUS
    <2>4. {j \in 1 .. 6 : OpensAt(buf, j)} = {2}
      BY <2>1, <2>3
    <2>5. {j \in 1 .. 6 : ClosesAt(buf, j)} = {6}
      BY <2>2, <2>3
    <2>6. Cardinality({2}) = 1 /\ Cardinality({6}) = 1
      BY Pair, Zenon
    <2>7. /\ Cardinality({j \in 1 .. 6 : OpensAt(buf, j)}) = 1
          /\ Cardinality({j \in 1 .. 6 : ClosesAt(buf, j)}) = 1
      BY <2>4, <2>5, <2>6, Zenon
    <2> QED
      BY <2>7 DEF Depth
  <1>11. 6 <= Len(buf) => EndsAt(buf, 6)
    BY <1>3, <1>4, <1>5, <1>6, <1>7, <1>8, <1>10 DEF EndsAt, ClosesAt, EndTags
  <1>12. \A k \in 1 .. 6 - 1 : k <= Len(buf) => ~EndsAt(buf, k)
    BY <1>3, <1>4, <1>5, <1>6, <1>7, <1>8, <1>9 DEF EndsAt, ClosesAt, EndTags
  <1> QED
    BY <1>2, <1>11, <1>12, FirstEnd

LEMMA MessageEnd ==
    ASSUME NEW buf \in Seq(Symbols), Begins(buf, "message")
    PROVE  find_stanza_end(buf) = IF 8 <= Len(buf) THEN 8 ELSE 0
  <1>1. Text["message"] = <<"<message", ">", "<child", ">", "</", ">", "</", ">">>
    BY DEF Text
  <1>2. Len(Text["message"]) = 8
    BY <1>1
  <1>3. 1 <= Len(buf) => buf[1] = "<message"
    BY <1>1, <1>2 DEF Begins
  <1>4. 2 <= Len(buf) => buf[2] = ">"
    BY <1>1, <1>2 DEF Begins
  <1>5. 3 <= Len(buf) => buf[3] = "<child"
    BY <1>1, <1>2 DEF Begins
  <1>6. 4 <= Len(buf) => buf[4] = ">"
    BY <1>1, <1>2 DEF Begins
  <1>7. 5 <= Len(buf) => buf[5] = "</"
    BY <1>1, <1>2 DEF Begins
  <1>8. 6 <= Len(buf) => buf[6] = ">"
    BY <1>1, <1>2 DEF Begins
  <1>9. 7 <= Len(buf) => buf[7] = "</"
    BY <1>1, <1>2 DEF Begins
  <1>10. 8 <= Len(buf) => buf[8] = ">"
    BY <1>1, <1>2 DEF Begins
  <1>11. 6 <= Len(buf) => Depth(buf, 6) = 1
    <2> SUFFICES ASSUME 6 <= Len(buf) PROVE Depth(buf, 6) = 1
      OBVIOUS
    <2>1. /\ ~OpensAt(buf, 1) /\ OpensAt(buf, 2) /\ ~OpensAt(buf, 3)
          /\ OpensAt(buf, 4) /\ ~OpensAt(buf, 5) /\ ~OpensAt(buf, 6)
      BY <1>3, <1>4, <1>5, <1>6, <1>7, <1>8, <1>9, <1>10 DEF OpensAt, StartTags
    <2>2. /\ ~ClosesAt(buf, 1) /\ ~ClosesAt(buf, 2) /\ ~ClosesAt(buf, 3)
          /\ ~ClosesAt(buf, 4) /\ ~ClosesAt(buf, 5) /\ ClosesAt(buf, 6)
      BY <1>3, <1>4, <1>5, <1>6, <1>7, <1>8, <1>9, <1>10 DEF ClosesAt, EndTags
    <2>3. \A j \in 1 .. 6 : j \in {1, 2, 3, 4, 5, 6}
      OBVIOUS
    <2>4. {j \in 1 .. 6 : OpensAt(buf, j)} = {2, 4}
      BY <2>1, <2>3
    <2>5. {j \in 1 .. 6 : ClosesAt(buf, j)} = {6}
      BY <2>2, <2>3
    <2>6. 2 # 4
      OBVIOUS
    <2>7. Cardinality({2, 4}) = 2 /\ Cardinality({6}) = 1
      BY <2>6, Pair, Zenon
    <2>8. /\ Cardinality({j \in 1 .. 6 : OpensAt(buf, j)}) = 2
          /\ Cardinality({j \in 1 .. 6 : ClosesAt(buf, j)}) = 1
      BY <2>4, <2>5, <2>7, Zenon
    <2> QED
      BY <2>8 DEF Depth
  <1>12. 8 <= Len(buf) => Depth(buf, 8) = 0
    <2> SUFFICES ASSUME 8 <= Len(buf) PROVE Depth(buf, 8) = 0
      OBVIOUS
    <2>1. /\ ~OpensAt(buf, 1) /\ OpensAt(buf, 2) /\ ~OpensAt(buf, 3)
          /\ OpensAt(buf, 4) /\ ~OpensAt(buf, 5) /\ ~OpensAt(buf, 6)
          /\ ~OpensAt(buf, 7) /\ ~OpensAt(buf, 8)
      BY <1>3, <1>4, <1>5, <1>6, <1>7, <1>8, <1>9, <1>10 DEF OpensAt, StartTags
    <2>2. /\ ~ClosesAt(buf, 1) /\ ~ClosesAt(buf, 2) /\ ~ClosesAt(buf, 3)
          /\ ~ClosesAt(buf, 4) /\ ~ClosesAt(buf, 5) /\ ClosesAt(buf, 6)
          /\ ~ClosesAt(buf, 7) /\ ClosesAt(buf, 8)
      BY <1>3, <1>4, <1>5, <1>6, <1>7, <1>8, <1>9, <1>10 DEF ClosesAt, EndTags
    <2>3. \A j \in 1 .. 8 : j \in {1, 2, 3, 4, 5, 6, 7, 8}
      OBVIOUS
    <2>4. {j \in 1 .. 8 : OpensAt(buf, j)} = {2, 4}
      BY <2>1, <2>3
    <2>5. {j \in 1 .. 8 : ClosesAt(buf, j)} = {6, 8}
      BY <2>2, <2>3
    <2>6. 2 # 4 /\ 6 # 8
      OBVIOUS
    <2>7. Cardinality({2, 4}) = 2 /\ Cardinality({6, 8}) = 2
      BY <2>6, Pair, Zenon
    <2>8. /\ Cardinality({j \in 1 .. 8 : OpensAt(buf, j)}) = 2
          /\ Cardinality({j \in 1 .. 8 : ClosesAt(buf, j)}) = 2
      BY <2>4, <2>5, <2>7, Zenon
    <2> QED
      BY <2>8 DEF Depth
  <1>13. 8 <= Len(buf) => EndsAt(buf, 8)
    BY <1>3, <1>4, <1>5, <1>6, <1>7, <1>8, <1>9, <1>10, <1>12 DEF EndsAt, ClosesAt, EndTags
  <1>14. \A k \in 1 .. 8 - 1 : k <= Len(buf) => ~EndsAt(buf, k)
    BY <1>3, <1>4, <1>5, <1>6, <1>7, <1>8, <1>9, <1>10, <1>11 DEF EndsAt, ClosesAt, EndTags
  <1> QED
    BY <1>13, <1>14, FirstEnd

LEMMA DeclEnd ==
    ASSUME NEW buf \in Seq(Symbols), Begins(buf, "decl")
    PROVE  find_stanza_end(buf) = IF 4 <= Len(buf) THEN 4 ELSE 0
  <1>1. Text["decl"] = <<"<?", ">", "<message", "/>">>
    BY DEF Text
  <1>2. Len(Text["decl"]) = 4
    BY <1>1
  <1>3. 1 <= Len(buf) => buf[1] = "<?"
    BY <1>1, <1>2 DEF Begins
  <1>4. 2 <= Len(buf) => buf[2] = ">"
    BY <1>1, <1>2 DEF Begins
  <1>5. 3 <= Len(buf) => buf[3] = "<message"
    BY <1>1, <1>2 DEF Begins
  <1>6. 4 <= Len(buf) => buf[4] = "/>"
    BY <1>1, <1>2 DEF Begins
  <1>7. 4 <= Len(buf) => Depth(buf, 4) = 0
    <2> SUFFICES ASSUME 4 <= Len(buf) PROVE Depth(buf, 4) = 0
      OBVIOUS
    <2>1. /\ ~OpensAt(buf, 1) /\ ~OpensAt(buf, 2) /\ ~OpensAt(buf, 3)
          /\ ~OpensAt(buf, 4)
      BY <1>3, <1>4, <1>5, <1>6 DEF OpensAt, StartTags
    <2>2. /\ ~ClosesAt(buf, 1) /\ ~ClosesAt(buf, 2) /\ ~ClosesAt(buf, 3)
          /\ ~ClosesAt(buf, 4)
      BY <1>3, <1>4, <1>5, <1>6 DEF ClosesAt, EndTags
    <2>3. \A j \in 1 .. 4 : j \in {1, 2, 3, 4}
      OBVIOUS
    <2>4. {j \in 1 .. 4 : OpensAt(buf, j)} = {}
      BY <2>1, <2>3
    <2>5. {j \in 1 .. 4 : ClosesAt(buf, j)} = {}
      BY <2>2, <2>3
    <2>6. Cardinality({}) = 0 /\ Cardinality({}) = 0
      BY Pair, Zenon
    <2>7. /\ Cardinality({j \in 1 .. 4 : OpensAt(buf, j)}) = 0
          /\ Cardinality({j \in 1 .. 4 : ClosesAt(buf, j)}) = 0
      BY <2>4, <2>5, <2>6, Zenon
    <2> QED
      BY <2>7 DEF Depth
  <1>8. 4 <= Len(buf) => EndsAt(buf, 4)
    BY <1>3, <1>4, <1>5, <1>6, <1>7 DEF EndsAt, ClosesAt, EndTags
  <1>9. \A k \in 1 .. 4 - 1 : k <= Len(buf) => ~EndsAt(buf, k)
    BY <1>3, <1>4, <1>5, <1>6 DEF EndsAt, ClosesAt, EndTags
  <1> QED
    BY <1>8, <1>9, FirstEnd

LEMMA PairEnd ==
    ASSUME NEW e \in {"longenable", "longr", "longa"}, NEW buf \in Seq(Symbols),
           Begins(buf, e)
    PROVE  Len(Text[e]) = 4 /\ find_stanza_end(buf) = IF 4 <= Len(buf) THEN 4 ELSE 0
  <1> DEFINE tag == IF e = "longenable" THEN "<enable" ELSE IF e = "longr" THEN "<r" ELSE "<a"
  <1>1. Text[e] = <<tag, ">", "</", ">">>
    <2>1. CASE e = "longenable"
      BY <2>1 DEF Text
    <2>2. CASE e = "longr"
      BY <2>2 DEF Text
    <2>3. CASE e = "longa"
      BY <2>3 DEF Text
    <2> QED
      BY <2>1, <2>2, <2>3
  <1>0. tag \in {"<enable", "<r", "<a"}
    OBVIOUS
  <1> HIDE DEF tag
  <1>2. Len(Text[e]) = 4
    BY <1>1
  <1>3. 1 <= Len(buf) => buf[1] \in {"<enable", "<r", "<a"}
    BY <1>0, <1>1, <1>2 DEF Begins
  <1>4. 2 <= Len(buf) => buf[2] = ">"
    BY <1>1, <1>2 DEF Begins
  <1>5. 3 <= Len(buf) => buf[3] = "</"
    BY <1>1, <1>2 DEF Begins
  <1>6. 4 <= Len(buf) => buf[4] = ">"
    BY <1>1, <1>2 DEF Begins
  <1>7. 4 <= Len(buf) => Depth(buf, 4) = 0
    <2> SUFFICES ASSUME 4 <= Len(buf) PROVE Depth(buf, 4) = 0
      OBVIOUS
    <2>1. /\ ~OpensAt(buf, 1) /\ OpensAt(buf, 2) /\ ~OpensAt(buf, 3)
          /\ ~OpensAt(buf, 4)
      BY <1>3, <1>4, <1>5, <1>6 DEF OpensAt, StartTags
    <2>2. /\ ~ClosesAt(buf, 1) /\ ~ClosesAt(buf, 2) /\ ~ClosesAt(buf, 3)
          /\ ClosesAt(buf, 4)
      BY <1>3, <1>4, <1>5, <1>6 DEF ClosesAt, EndTags
    <2>3. \A j \in 1 .. 4 : j \in {1, 2, 3, 4}
      OBVIOUS
    <2>4. {j \in 1 .. 4 : OpensAt(buf, j)} = {2}
      BY <2>1, <2>3
    <2>5. {j \in 1 .. 4 : ClosesAt(buf, j)} = {4}
      BY <2>2, <2>3
    <2>6. Cardinality({2}) = 1 /\ Cardinality({4}) = 1
      BY Pair, Zenon
    <2>7. /\ Cardinality({j \in 1 .. 4 : OpensAt(buf, j)}) = 1
          /\ Cardinality({j \in 1 .. 4 : ClosesAt(buf, j)}) = 1
      BY <2>4, <2>5, <2>6, Zenon
    <2> QED
      BY <2>7 DEF Depth
  <1>8. 4 <= Len(buf) => EndsAt(buf, 4)
    BY <1>3, <1>4, <1>5, <1>6, <1>7 DEF EndsAt, ClosesAt, EndTags
  <1>9. \A k \in 1 .. 4 - 1 : k <= Len(buf) => ~EndsAt(buf, k)
    BY <1>3, <1>4, <1>5, <1>6 DEF EndsAt, ClosesAt, EndTags
  <1> QED
    BY <1>2, <1>8, <1>9, FirstEnd

LEMMA SingleTagEnd ==
    ASSUME NEW e \in {"empty", "enable", "r", "a"}, NEW buf \in Seq(Symbols), Begins(buf, e)
    PROVE  Len(Text[e]) = 2 /\ find_stanza_end(buf) = IF 2 <= Len(buf) THEN 2 ELSE 0
  <1>1. Text[e][1] \in StartTags /\ Text[e][2] = "/>" /\ Len(Text[e]) = 2
    <2>1. CASE e = "empty"
      <3>1. Text[e] = <<"<message", "/>">>
        BY <2>1 DEF Text
      <3> QED
        BY <3>1 DEF StartTags
    <2>2. CASE e = "enable"
      <3>1. Text[e] = <<"<enable", "/>">>
        BY <2>2 DEF Text
      <3> QED
        BY <3>1 DEF StartTags
    <2>3. CASE e = "r"
      <3>1. Text[e] = <<"<r", "/>">>
        BY <2>3 DEF Text
      <3> QED
        BY <3>1 DEF StartTags
    <2>4. CASE e = "a"
      <3>1. Text[e] = <<"<a", "/>">>
        BY <2>4 DEF Text
      <3> QED
        BY <3>1 DEF StartTags
    <2> QED
      BY <2>1, <2>2, <2>3, <2>4
  <1>2. /\ 1 <= Len(buf) => buf[1] \in StartTags
        /\ 2 <= Len(buf) => buf[2] = "/>"
    BY <1>1 DEF Begins
  <1>3. 2 <= Len(buf) => Depth(buf, 2) = 0
    <2> SUFFICES ASSUME 2 <= Len(buf) PROVE Depth(buf, 2) = 0
      OBVIOUS
    <2>1. {j \in 1 .. 2 : OpensAt(buf, j)} = {}
      BY <1>2 DEF OpensAt, StartTags
    <2>2. {j \in 1 .. 2 : ClosesAt(buf, j)} = {}
      BY <1>2 DEF ClosesAt, EndTags, StartTags
    <2>3. /\ Cardinality({j \in 1 .. 2 : OpensAt(buf, j)}) = 0
          /\ Cardinality({j \in 1 .. 2 : ClosesAt(buf, j)}) = 0
      BY <2>1, <2>2, Pair, Zenon
    <2> QED
      BY <2>3 DEF Depth
  <1>4. 2 <= Len(buf) => EndsAt(buf, 2)
    BY <1>2, <1>3 DEF EndsAt
  <1>5. \A k \in 1 .. 2 - 1 : k <= Len(buf) => ~EndsAt(buf, k)
    BY <1>2 DEF EndsAt, ClosesAt, StartTags
  <1> QED
    BY <1>1, <1>4, <1>5, FirstEnd

(* However little of it has arrived, the end of an element is found where  *)
(* it is, and not before it is there.                                      *)
LEMMA EndFound ==
    ASSUME NEW e \in Elements \ {"blank", "end"}, NEW buf \in Seq(Symbols), Begins(buf, e)
    PROVE  find_stanza_end(buf) = IF Len(Text[e]) <= Len(buf) THEN Len(Text[e]) ELSE 0
  <1>1. e \in {"session", "restart", "message", "empty", "decl", "enable", "r", "a",
               "longenable", "longr", "longa"}
    BY DEF Elements, Text
  <1>2. CASE e \in {"session", "restart"}
    BY <1>2, SessionEnd
  <1>3. CASE e = "message"
    <2>1. Len(Text[e]) = 8
      BY <1>3 DEF Text
    <2> QED
      BY <1>3, <2>1, MessageEnd
  <1>4. CASE e = "decl"
    <2>1. Len(Text[e]) = 4
      BY <1>4 DEF Text
    <2> QED
      BY <1>4, <2>1, DeclEnd
  <1>5. CASE e \in {"longenable", "longr", "longa"}
    BY <1>5, PairEnd
  <1>6. CASE e \in {"empty", "enable", "r", "a"}
    BY <1>6, SingleTagEnd
  <1> QED
    BY <1>1, <1>2, <1>3, <1>4, <1>5, <1>6

(* How each element begins. *)
LEMMA FirstSymbol ==
    ASSUME NEW e \in Elements
    PROVE  /\ Text[e][1] = " " <=> e = "blank"
           /\ Text[e][1] = "</stream" <=> e = "end"
           /\ Text[e][1] = "<session" <=> e = "session"
           /\ Text[e][1] = "<restart" <=> e = "restart"
           /\ Text[e][1] = "<enable" <=> e \in {"enable", "longenable"}
           /\ Text[e][1] = "<r" <=> e \in {"r", "longr"}
           /\ Text[e][1] = "<a" <=> e \in {"a", "longa"}
  <1>1. e \in {"session", "restart", "message", "empty", "decl", "enable", "r", "a",
               "longenable", "longr", "longa", "blank", "end"}
    BY DEF Elements, Text
  <1>2. /\ Text["session"][1] = "<session" /\ Text["message"][1] = "<message"
        /\ Text["empty"][1] = "<message" /\ Text["decl"][1] = "<?"
        /\ Text["restart"][1] = "<restart"
    BY DEF Text
  <1>3. /\ Text["enable"][1] = "<enable" /\ Text["r"][1] = "<r" /\ Text["longr"][1] = "<r"
        /\ Text["a"][1] = "<a" /\ Text["blank"][1] = " " /\ Text["end"][1] = "</stream"
    BY DEF Text
  <1>4. Text["longenable"][1] = "<enable" /\ Text["longa"][1] = "<a"
    BY DEF Text
  <1> QED
    BY <1>1, <1>2, <1>3, <1>4

LEMMA Lengths ==
    /\ Len(Text["blank"]) = 1 /\ Len(Text["enable"]) = 2 /\ Len(Text["r"]) = 2
    /\ Len(Text["a"]) = 2
    /\ \A e \in Elements \ {"blank"} : Len(Text[e]) >= 2
  <1>1. Len(Text["blank"]) = 1
    <2>1. Text["blank"] = <<" ">> /\ " " \in Symbols
      BY DEF Text, Symbols
    <2>2. Len(<<" ">>) = 1
      BY <2>1, Singleton, Zenon
    <2> QED
      BY <2>1, <2>2, Zenon
  <1>2. Len(Text["enable"]) = 2 /\ Len(Text["r"]) = 2 /\ Len(Text["a"]) = 2
    BY DEF Text
  <1>3. Len(Text["session"]) = 6 /\ Len(Text["message"]) = 8 /\ Len(Text["longr"]) = 4
    BY DEF Text
  <1>4. Len(Text["empty"]) = 2 /\ Len(Text["decl"]) = 4 /\ Len(Text["end"]) = 2
    BY DEF Text
  <1>7. Len(Text["restart"]) = 6 /\ Len(Text["longenable"]) = 4 /\ Len(Text["longa"]) = 4
    BY DEF Text
  <1>5. \A e \in Elements : e \in {"session", "restart", "message", "empty", "decl", "enable",
                                   "r", "a", "longenable", "longr", "longa", "blank", "end"}
    BY DEF Elements, Text
  <1>6. ASSUME NEW e \in Elements \ {"blank"} PROVE Len(Text[e]) >= 2
    <2> DEFINE n(x) == Len(Text[x])
    <2>1. /\ n("enable") = 2 /\ n("r") = 2 /\ n("a") = 2 /\ n("session") = 6
          /\ n("message") = 8 /\ n("longr") = 4 /\ n("empty") = 2 /\ n("decl") = 4
          /\ n("end") = 2 /\ n("restart") = 6 /\ n("longenable") = 4 /\ n("longa") = 4
      BY <1>2, <1>3, <1>4, <1>7
    <2>2. e \in {"session", "restart", "message", "empty", "decl", "enable", "r", "a",
                 "longenable", "longr", "longa", "end"}
      BY <1>5
    <2> HIDE DEF n
    <2>3. n(e) >= 2
      BY <2>1, <2>2
    <2> QED
      BY <2>3 DEF n
  <1> QED
    BY <1>1, <1>2, <1>6, Zenon

----------------------------------------------------------------------------
(* Counting the elements of the script.                                    *)

LEMMA ScriptKept ==
    ASSUME script' = script
    PROVE  /\ Good' = Good
           /\ \A i : /\ Finish(i)' = Finish(i) /\ InSession(i)' = InSession(i)
                     /\ Meant(i)' = Meant(i) /\ Paired(i)' = Paired(i)
                     /\ Rank(i)' = Rank(i) /\ SentSinceEnable(i)' = SentSinceEnable(i)
  <1>1. \A i : Finish(i)' = Finish(i)
    BY DEF Finish
  <1>2. \A i : InSession(i)' = InSession(i)
    BY DEF InSession
  <1>3. \A i : Meant(i)' = Meant(i)
    BY <1>2 DEF Meant, Stray, SentAs
  <1>4. \A i : Paired(i)' = Paired(i)
    BY <1>2 DEF Paired
  <1>5. Good' = Good
    BY <1>4 DEF Good
  <1>6. \A i : Rank(i)' = Rank(i)
    BY <1>5 DEF Rank
  <1>7. \A i : SentSinceEnable(i)' = SentSinceEnable(i)
    BY <1>3, <1>5 DEF SentSinceEnable
  <1> QED
    BY <1>1, <1>2, <1>3, <1>4, <1>5, <1>6, <1>7

LEMMA GoodIsFinite ==
    ASSUME script \in Seq(Elements)
    PROVE  /\ Good \subseteq 1 .. Len(script) /\ IsFiniteSet(Good)
           /\ \A S : S \subseteq Good => IsFiniteSet(S) /\ Cardinality(S) \in Nat
  <1>1. Good \subseteq 1 .. Len(script) /\ 1 \in Int /\ Len(script) \in Int
    BY DEF Good
  <1>2. IsFiniteSet(1 .. Len(script))
    BY <1>1, FS_Interval
  <1>3. IsFiniteSet(Good)
    BY <1>1, <1>2, FS_Subset
  <1>4. ASSUME NEW S, S \subseteq Good PROVE IsFiniteSet(S) /\ Cardinality(S) \in Nat
    BY <1>3, <1>4, FS_Subset, FS_CardinalityType
  <1> QED
    BY <1>1, <1>3, <1>4

Upto(i) == {k \in Good : k <= i}

LEMMA RankIs ==
    ASSUME script \in Seq(Elements)
    PROVE  /\ Rank(0) = 0 /\ Cardinality(Good) \in Nat
           /\ \A i \in Nat : Rank(i) \in Nat /\ Rank(i) <= Cardinality(Good)
           /\ \A i \in Nat : Rank(i + 1) = IF i + 1 \in Good THEN Rank(i) + 1 ELSE Rank(i)
           /\ \A i \in Good : \A j \in Nat : j < i => Rank(j) < Rank(i)
           /\ \A i \in Good : Rank(i) \in Nat \ {0}
           /\ \A i, j \in Good : Rank(i) = Rank(j) => i = j
  <1>1. \A i : Rank(i) = Cardinality(Upto(i))
    BY DEF Rank, Upto
  <1>2. IsFiniteSet(Good) /\ Cardinality(Good) \in Nat
    BY GoodIsFinite
  <1>0. \A k \in Good : k \in Nat /\ k > 0
    BY GoodIsFinite
  <1>3. \A i : Upto(i) \subseteq Good
    BY DEF Upto
  <1>4. \A i : IsFiniteSet(Upto(i)) /\ Cardinality(Upto(i)) \in Nat
    BY <1>3, GoodIsFinite, Zenon
  <1>5. Rank(0) = 0
    <2>1. Upto(0) = {}
      <3>1. \A k \in Good : ~(k <= 0)
        BY <1>0
      <3> QED
        BY <3>1 DEF Upto
    <2>2. Cardinality(Upto(0)) = 0
      BY <2>1, Pair, Zenon
    <2> QED
      BY <1>1, <2>2
  <1>6. \A i \in Nat : Rank(i) \in Nat /\ Rank(i) <= Cardinality(Good)
    BY <1>1, <1>2, <1>3, <1>4, FS_Subset
  <1>7. ASSUME NEW i \in Nat
        PROVE  Rank(i + 1) = IF i + 1 \in Good THEN Rank(i) + 1 ELSE Rank(i)
    <2>1. CASE i + 1 \in Good
      <3>1. Upto(i + 1) = Upto(i) \cup {i + 1} /\ i + 1 \notin Upto(i)
        <4>1. \A k \in Good : k <= i + 1 <=> k <= i \/ k = i + 1
          BY <1>0
        <4>2. ~(i + 1 <= i) /\ i + 1 <= i + 1
          OBVIOUS
        <4> QED
          BY <2>1, <4>1, <4>2 DEF Upto
      <3>2. Cardinality(Upto(i) \cup {i + 1}) = Cardinality(Upto(i)) + 1
        BY <1>4, <3>1, FS_AddElement
      <3>3. Cardinality(Upto(i + 1)) = Cardinality(Upto(i)) + 1
        BY <3>1, <3>2
      <3> QED
        BY <1>1, <2>1, <3>3
    <2>2. CASE i + 1 \notin Good
      <3>1. Upto(i + 1) = Upto(i)
        <4>1. \A k \in Good : k <= i + 1 <=> k <= i
          BY <1>0, <2>2
        <4> QED
          BY <4>1 DEF Upto
      <3> QED
        BY <1>1, <2>2, <3>1
    <2> QED
      BY <2>1, <2>2
  <1>8. ASSUME NEW i \in Good, NEW j \in Nat, j < i PROVE Rank(j) < Rank(i)
    <2>1. Upto(j) \cup {i} \subseteq Upto(i) /\ i \notin Upto(j)
      <3>1. i \in Nat /\ j \in Nat /\ i <= i /\ ~(i <= j)
        BY <1>0, <1>8
      <3>2. \A k \in Good : k <= j => k <= i
        BY <1>0, <1>8, <3>1
      <3> QED
        BY <3>1, <3>2 DEF Upto
    <2>2. Cardinality(Upto(j) \cup {i}) = Cardinality(Upto(j)) + 1
      BY <1>4, <2>1, FS_AddElement, Zenon
    <2>3. Cardinality(Upto(j) \cup {i}) <= Cardinality(Upto(i))
      BY <1>4, <2>1, FS_Subset
    <2>4. Cardinality(Upto(j)) \in Nat /\ Cardinality(Upto(i)) \in Nat
      BY <1>4
    <2>5. Cardinality(Upto(j)) < Cardinality(Upto(i))
      BY <2>2, <2>3, <2>4
    <2> QED
      BY <1>1, <2>5
  <1>9. \A i \in Good : Rank(i) \in Nat \ {0}
    <2> TAKE i \in Good
    <2>1. 0 \in Nat /\ 0 < i /\ i \in Nat
      BY <1>0
    <2>2. Rank(0) < Rank(i) /\ Rank(i) \in Nat
      BY <1>6, <1>8, <2>1
    <2> QED
      BY <1>5, <2>2
  <1>10. ASSUME NEW i \in Good, NEW j \in Good, Rank(i) = Rank(j) PROVE i = j
    <2>1. i \in Nat /\ j \in Nat /\ Rank(i) \in Nat /\ (i = j \/ i < j \/ j < i)
      BY <1>0, <1>6
    <2> QED
      BY <1>8, <1>10, <2>1
  <1> QED
    BY <1>2, <1>5, <1>6, <1>7, <1>8, <1>9, <1>10

(* Nothing is said from a pair of tags of stream management on. *)
LEMMA PairIsLast ==
    ASSUME script \in Seq(Elements), NEW c \in Nat, Paired(c + 1)
    PROVE  Rank(c) = Cardinality(Good)
  <1>1. Good \subseteq Nat
    BY GoodIsFinite
  <1>2. ASSUME NEW k \in Good PROVE k <= c
    <2>1. k \in Nat /\ (~(k <= c) => c + 1 \in 1 .. k)
      BY <1>1
    <2> QED
      BY <2>1 DEF Good
  <1>3. {k \in Good : k <= c} = Good
    BY <1>2
  <1> QED
    BY <1>3 DEF Rank

(* What the next element does to the number of stanzas since <enable/>. *)
Since(i) == {k \in Good : /\ k < i /\ Meant(k) = "stanza"
                          /\ \E e \in 1 .. k : Meant(e) = "enable"
                          /\ \A e \in k .. i - 1 : Meant(e) # "enable"}

LEMMA SinceGrows ==
    ASSUME script \in Seq(Elements), NEW i \in Nat \ {0}
    PROVE  /\ SentSinceEnable(i) \in Nat
           /\ Meant(i) = "enable" => SentSinceEnable(i + 1) = 0
           /\ Meant(i) # "enable" /\ (i \in Good => Meant(i) # "stanza")
                 => SentSinceEnable(i + 1) = SentSinceEnable(i)
           /\ i \in Good /\ Meant(i) = "stanza" /\ (\E e \in 1 .. i - 1 : Meant(e) = "enable")
                 => SentSinceEnable(i + 1) = SentSinceEnable(i) + 1
           /\ Meant(i) = "stanza" /\ ~(\E e \in 1 .. i - 1 : Meant(e) = "enable")
                 => SentSinceEnable(i + 1) = SentSinceEnable(i)
  <1>1. \A j : SentSinceEnable(j) = Cardinality(Since(j))
    BY DEF SentSinceEnable, Since
  <1>2. \A j : Since(j) \subseteq Good
    BY DEF Since
  <1>3. \A j : IsFiniteSet(Since(j)) /\ Cardinality(Since(j)) \in Nat
    BY <1>2, GoodIsFinite, Zenon
  <1>4. \A k \in Good : k \in Nat /\ k > 0
    BY GoodIsFinite
  <1>5. /\ \A k \in Good : k < i + 1 <=> k < i \/ k = i
        /\ \A k \in Good : \A e : k < i => (e \in k .. (i + 1) - 1 <=> e \in k .. i - 1 \/ e = i)
        /\ \A e : e \in i .. (i + 1) - 1 <=> e = i
        /\ \A e : e \in 1 .. i <=> e \in 1 .. i - 1 \/ e = i
        /\ ~(i < i)
    BY <1>4
  <1>6. ASSUME Meant(i) = "enable" PROVE SentSinceEnable(i + 1) = 0
    <2>1. ASSUME NEW k \in Since(i + 1) PROVE FALSE
      <3>1. k \in Good /\ k < i + 1 /\ \A e \in k .. (i + 1) - 1 : Meant(e) # "enable"
        BY <2>1 DEF Since
      <3>2. i \in k .. (i + 1) - 1
        BY <1>4, <3>1
      <3> QED
        BY <1>6, <3>1, <3>2
    <2>2. Since(i + 1) = {}
      BY <2>1
    <2>3. Cardinality(Since(i + 1)) = 0
      BY <2>2, Pair, Zenon
    <2> QED
      BY <1>1, <2>3
  <1>7. ASSUME Meant(i) # "enable"
        PROVE  \A k \in Good : k # i => (k \in Since(i + 1) <=> k \in Since(i))
    BY <1>5, <1>7 DEF Since
  <1>8. i \notin Since(i)
    BY <1>5 DEF Since
  <1>9. ASSUME Meant(i) # "enable", i \notin Since(i + 1)
        PROVE  SentSinceEnable(i + 1) = SentSinceEnable(i)
    <2>1. Since(i + 1) = Since(i)
      <3>1. \A k \in Good : k \in Since(i + 1) <=> k \in Since(i)
        BY <1>7, <1>8, <1>9
      <3>2. \A k : k \in Since(i + 1) <=> k \in Since(i)
        BY <1>2, <3>1
      <3> QED
        BY <3>2, Zenon
    <2> QED
      BY <1>1, <2>1
  <1>10. i \in Good /\ Meant(i) # "stanza" => i \notin Since(i + 1)
    BY DEF Since
  <1>11. i \notin Good => i \notin Since(i + 1)
    BY DEF Since
  <1>12. ASSUME i \in Good, Meant(i) = "stanza"
         PROVE  i \in Since(i + 1) <=> \E e \in 1 .. i - 1 : Meant(e) = "enable"
    <2>1. Meant(i) # "enable"
      BY <1>12
    <2> QED
      BY <1>5, <1>12, <2>1 DEF Since
  <1>13. ASSUME i \in Good, Meant(i) = "stanza", \E e \in 1 .. i - 1 : Meant(e) = "enable"
         PROVE  SentSinceEnable(i + 1) = SentSinceEnable(i) + 1
    <2>0. Meant(i) # "enable"
      BY <1>13
    <2>1. i \in Since(i + 1)
      BY <1>12, <1>13
    <2>2. Since(i + 1) = Since(i) \cup {i}
      <3>1. \A k \in Good : k \in Since(i + 1) <=> k \in Since(i) \/ k = i
        BY <1>7, <2>0, <2>1
      <3> QED
        BY <1>2, <1>13, <3>1
    <2>3. Cardinality(Since(i) \cup {i}) = Cardinality(Since(i)) + 1
      BY <1>3, <1>8, FS_AddElement
    <2>4. Cardinality(Since(i + 1)) = Cardinality(Since(i)) + 1
      BY <2>2, <2>3
    <2> QED
      BY <1>1, <2>4
  <1>14. SentSinceEnable(i) \in Nat
    BY <1>1, <1>3
  <1>15. Meant(i) = "stanza" => Meant(i) # "enable"
    OBVIOUS
  <1> QED
    BY <1>6, <1>9, <1>10, <1>11, <1>12, <1>13, <1>14, <1>15

----------------------------------------------------------------------------
(* The buffer and the script.                                              *)

LEMMA BufferIs ==
    ASSUME TypeOK, Layout
    PROVE  /\ rx_buffer \in Seq(Symbols) /\ Len(rx_buffer) = arrived - taken
           /\ Len(rx_buffer) \in Nat
           /\ \A k \in 1 .. Len(rx_buffer) : rx_buffer[k] = text[taken + k]
           /\ rx_buffer # <<>> <=> taken < arrived
           /\ rx_buffer # <<>> => Head(rx_buffer) = rx_buffer[1] /\ 1 \in 1 .. Len(rx_buffer)
  <1>1. text \in Seq(Symbols) /\ arrived \in 0 .. Len(text) /\ taken \in 0 .. arrived
    BY DEF TypeOK, Layout
  <1>2. arrived \in Nat /\ taken \in Nat /\ Len(text) \in Nat /\ taken <= arrived /\ arrived <= Len(text)
    BY <1>1
  <1>3. rx_buffer \in Seq(Symbols)
    BY <1>1, <1>2 DEF rx_buffer
  <1>4. Len(rx_buffer) = arrived - taken /\ Len(rx_buffer) \in Nat
    BY <1>1, <1>2 DEF rx_buffer
  <1>5. \A k \in 1 .. Len(rx_buffer) : rx_buffer[k] = text[taken + k]
    BY <1>1, <1>2 DEF rx_buffer
  <1>6. rx_buffer # <<>> <=> Len(rx_buffer) # 0
    BY <1>3
  <1>7. rx_buffer # <<>> => Head(rx_buffer) = rx_buffer[1]
    BY <1>3
  <1> HIDE DEF rx_buffer
  <1> QED
    BY <1>2, <1>3, <1>4, <1>5, <1>6, <1>7

(* Between two elements the buffer begins with the next one. *)
LEMMA AtFront ==
    ASSUME TypeOK, Layout, script \in Seq(Elements), NEW c \in 0 .. Len(script),
           taken = Finish(c)
    PROVE  /\ rx_buffer # <<>> => c < Len(script)
           /\ c < Len(script) =>
                 /\ c + 1 \in 1 .. Len(script) /\ script[c + 1] \in Elements
                 /\ Begins(rx_buffer, script[c + 1])
                 /\ Finish(c + 1) = taken + Len(Text[script[c + 1]])
                 /\ Len(Text[script[c + 1]]) \in Nat \ {0}
                 /\ rx_buffer # <<>> => Head(rx_buffer) = Text[script[c + 1]][1]
  <1>1. /\ rx_buffer \in Seq(Symbols) /\ Len(rx_buffer) = arrived - taken
        /\ Len(rx_buffer) \in Nat
        /\ \A k \in 1 .. Len(rx_buffer) : rx_buffer[k] = text[taken + k]
        /\ rx_buffer # <<>> <=> taken < arrived
        /\ rx_buffer # <<>> => Head(rx_buffer) = rx_buffer[1] /\ 1 \in 1 .. Len(rx_buffer)
    BY BufferIs
  <1>2. c \in Nat /\ Len(script) \in Nat /\ c <= Len(script)
    OBVIOUS
  <1>3. arrived \in Nat /\ taken \in Nat /\ Len(text) \in Nat /\ arrived <= Len(text)
    BY DEF TypeOK, Layout
  <1>4. rx_buffer # <<>> => c < Len(script)
    <2>1. c = Len(script) => taken = Len(text)
      BY DEF Layout
    <2> QED
      BY <1>1, <1>2, <1>3, <2>1
  <1>5. ASSUME c < Len(script)
        PROVE  /\ c + 1 \in 1 .. Len(script) /\ script[c + 1] \in Elements
               /\ Begins(rx_buffer, script[c + 1])
               /\ Finish(c + 1) = taken + Len(Text[script[c + 1]])
               /\ Len(Text[script[c + 1]]) \in Nat \ {0}
               /\ rx_buffer # <<>> => Head(rx_buffer) = Text[script[c + 1]][1]
    <2>1. c + 1 \in 1 .. Len(script) /\ (c + 1) - 1 = c
      BY <1>2, <1>5
    <2>2. script[c + 1] \in Elements
      BY <2>1
    <2> DEFINE t == Text[script[c + 1]]
    <2>3. Len(t) \in Nat \ {0} /\ 1 \in 1 .. Len(t) /\ 1 <= Len(t)
      <3> DEFINE n == Len(t)
      <3>1. n \in 1 .. 8
        BY <2>2, TextIs, Zenon
      <3> HIDE DEF n
      <3>2. n \in Nat \ {0} /\ 1 \in 1 .. n /\ 1 <= n
        BY <3>1
      <3> QED
        BY <3>2, Zenon DEF n
    <2>4. /\ Finish(c + 1) = taken + Len(t)
          /\ \A k \in 1 .. Len(t) : text[taken + k] = t[k]
      <3>1. /\ Finish(c + 1) = Finish((c + 1) - 1) + Len(t)
            /\ \A k \in 1 .. Len(t) : text[Finish((c + 1) - 1) + k] = t[k]
        BY <2>1, Zenon DEF Layout
      <3>2. Finish((c + 1) - 1) = taken
        BY <2>1, Zenon
      <3> QED
        BY <3>1, <3>2, Zenon
    <2>5. ASSUME NEW k \in 1 .. Len(rx_buffer), k <= Len(t) PROVE rx_buffer[k] = t[k]
      <3>1. k \in 1 .. Len(t)
        BY <1>1, <2>3, <2>5
      <3> QED
        BY <1>1, <2>4, <3>1
    <2>6. Begins(rx_buffer, script[c + 1])
      BY <2>5 DEF Begins
    <2>7. rx_buffer # <<>> => Head(rx_buffer) = t[1]
      BY <1>1, <2>3, <2>5
    <2> QED
      BY <2>1, <2>2, <2>3, <2>4, <2>6, <2>7
  <1> QED
    BY <1>4, <1>5

----------------------------------------------------------------------------
(* Counting what is sent.                                                  *)

(* k sends leave a request flagged, or fewer than an interval sent. *)
LEMMA Sends ==
    ASSUME StreamAssumption, TypeOK,
           NEW k \in Nat, NEW enabled \in BOOLEAN, NEW count \in 0 .. W - 1,
           NEW flagged \in BOOLEAN, NEW since \in 0 .. SM_ACK_INTERVAL,
           flagged \/ since <= count % SM_ACK_INTERVAL,
           SendRaw(k, enabled, count, flagged), Unasked(k, enabled, since)
    PROVE  /\ sm_outbound_count' \in 0 .. W - 1 /\ sm_want_ack' \in BOOLEAN
           /\ unasked' \in 0 .. SM_ACK_INTERVAL
           /\ DueIsFlagged'
  <1> DEFINE I == SM_ACK_INTERVAL
  <1>0. I \in Nat \ {0} /\ W \in Nat \ {0}
    BY DEF StreamAssumption
  <1>1. sm_outbound_count' = (IF enabled THEN (count + k) % W ELSE count)
    BY DEF SendRaw
  <1>2. sm_want_ack' = (flagged \/ \E j \in 1 .. k : enabled /\ AckDue((count + j) % W))
    BY DEF SendRaw
  <1>3. unasked' = IF enabled THEN Min({since + k, I}) ELSE since
    BY DEF Unasked
  <1>4. count \in Nat /\ count < W /\ count + k \in Nat /\ since \in Nat /\ since <= I
    BY <1>0
  <1>5. (count + k) % W \in 0 .. W - 1
    BY <1>0, <1>4, Divide
  <1>6. Min({since + k, I}) \in 0 .. I /\ Min({since + k, I}) <= since + k
    <2>1. {since + k, I} \subseteq Nat /\ {since + k, I} # {}
      BY <1>0, <1>4
    <2>2. Min({since + k, I}) \in {since + k, I} /\ Min({since + k, I}) <= since + k
          /\ Min({since + k, I}) <= I
      BY <2>1, MinIs
    <2> QED
      BY <1>0, <1>4, <2>2
  <1>7. sm_outbound_count' \in 0 .. W - 1 /\ unasked' \in 0 .. I
    BY <1>0, <1>1, <1>3, <1>4, <1>5, <1>6
  <1>8. ASSUME ~sm_want_ack' PROVE unasked' <= sm_outbound_count' % I
    <2>1. ~flagged /\ since <= count % I
      BY <1>2, <1>8
    <2>2. CASE ~enabled
      BY <1>1, <1>3, <2>1, <2>2
    <2>3. CASE enabled
      <3>1. \A j \in 1 .. k : ((count + j) % W) % I # 0
        BY <1>2, <1>8, <2>3 DEF AckDue
      <3>2. count + k < W
        <4> SUFFICES ASSUME ~(count + k < W) PROVE FALSE
          OBVIOUS
        <4>1. W - count \in 1 .. k /\ count + (W - count) = W * 1 + 0
          BY <1>0, <1>4
        <4>2. (count + (W - count)) % W = 0
          BY <1>0, <1>4, <4>1, RemainderIs
        <4>3. 0 % I = 0
          <5>1. 0 = I * 0 + 0 /\ 0 \in 0 .. I - 1 /\ 0 \in Nat
            BY <1>0
          <5> QED
            BY <1>0, <5>1, RemainderIs
        <4> QED
          BY <3>1, <4>1, <4>2, <4>3
      <3>3. ASSUME NEW j \in 0 .. k PROVE (count + j) % W = count + j
        <4>1. count + j = W * 0 + (count + j) /\ count + j \in 0 .. W - 1 /\ count + j \in Nat
          BY <1>0, <1>4, <3>2
        <4> QED
          BY <1>0, <4>1, RemainderIs
      <3> DEFINE r == count % I
      <3>4. r \in 0 .. I - 1
        BY <1>0, <1>4, Divide
      <3> HIDE DEF r
      <3>5. r + k < I
        <4> SUFFICES ASSUME ~(r + k < I) PROVE FALSE
          OBVIOUS
        <4>1. I - r \in 1 .. k /\ I - r \in 0 .. k /\ I - r \in Nat /\ r + (I - r) = I
          BY <1>0, <3>4
        <4>2. (count + (I - r)) % I = 0
          <5>1. (count % I) + (I - r) <= I /\ (count % I) + (I - r) = I
            BY <1>0, <4>1, <3>4 DEF r
          <5> QED
            BY <1>0, <1>4, <4>1, <5>1, RemainderAdds
        <4> DEFINE j == I - r
        <4> HIDE DEF j
        <4>3. (count + j) % W = count + j /\ ((count + j) % W) % I # 0
          BY <3>1, <3>3, <4>1 DEF j
        <4>4. (count + j) % I = 0
          BY <4>2 DEF j
        <4> QED
          BY <4>3, <4>4
      <3>6. (count + k) % I = r + k
        <4>1. (count % I) + k <= I /\ (count % I) + k # I
          BY <1>0, <3>4, <3>5 DEF r
        <4>2. (count + k) % I = (count % I) + k
          <5>1. count \in Nat /\ I \in Nat \ {0} /\ k \in Nat
            BY <1>0, <1>4
          <5>2. \A x \in Nat, w \in Nat \ {0}, q \in Nat :
                  (x % w) + q <= w /\ (x % w) + q # w => (x + q) % w = (x % w) + q
            BY RemainderAdds
          <5> HIDE DEF I
          <5> QED
            BY <4>1, <5>1, <5>2, Zenon
        <4> QED
          BY <4>2 DEF r
      <3>7. sm_outbound_count' = count + k
        <4>1. k \in 0 .. k
          OBVIOUS
        <4> QED
          BY <1>1, <2>3, <3>3, <4>1
      <3>8. unasked' = Min({since + k, I})
        BY <1>3, <2>3
      <3>9. since + k <= r + k
        BY <1>4, <2>1, <3>4 DEF r
      <3>10. unasked' <= r + k
        <4> DEFINE u == Min({since + k, I})
        <4>1. u \in 0 .. I /\ u <= since + k
          BY <1>6
        <4> HIDE DEF u
        <4>2. u <= r + k
          BY <1>0, <1>4, <3>4, <3>9, <4>1
        <4> QED
          BY <3>8, <4>2 DEF u
      <3> QED
        BY <3>6, <3>7, <3>10
    <2> QED
      BY <2>2, <2>3
  <1>9. sm_want_ack' \in BOOLEAN
    BY <1>2, Zenon
  <1> QED
    BY <1>7, <1>8, <1>9 DEF DueIsFlagged

----------------------------------------------------------------------------
(* What the steps have in common.                                          *)

LEMMA Facts ==
    ASSUME StreamAssumption, IInv
    PROVE  /\ script \in Seq(Elements) /\ Layout
           /\ TypeOK /\ InStepOrOver /\ FramesMatch /\ AckIsExact /\ DueIsFlagged
           /\ text = FlattenSeq([i \in DOMAIN script |-> Text[script[i]]])
           /\ Len(handled) \in Nat
           /\ W \in Nat \ {0} /\ SM_ACK_INTERVAL \in Nat \ {0} /\ RX_BUFFER \in Nat \ {0}
           /\ MaxReplies \in Nat /\ MaxPushes \in Nat
  <1>1. script \in Seq(Elements)
    BY DEF StreamAssumption, IInv, TypeOK
  <1>2. text = FlattenSeq([i \in DOMAIN script |-> Text[script[i]]])
    BY DEF IInv
  <1>3. Layout
    BY <1>1, <1>2, TextLayout
  <1>4. Len(handled) \in Nat
    BY DEF IInv, TypeOK
  <1>5. /\ W \in Nat \ {0} /\ SM_ACK_INTERVAL \in Nat \ {0} /\ RX_BUFFER \in Nat \ {0}
        /\ MaxReplies \in Nat /\ MaxPushes \in Nat
    BY DEF StreamAssumption
  <1> QED
    BY <1>1, <1>2, <1>3, <1>4, <1>5 DEF IInv

LEMMA TextKept ==
    ASSUME text = FlattenSeq([i \in DOMAIN script |-> Text[script[i]]]),
           script' = script, text' = text
    PROVE  (text = FlattenSeq([i \in DOMAIN script |-> Text[script[i]]]))'
  OBVIOUS

(* A step that handles nothing. *)
LEMMA HandledKept ==
    ASSUME FramesMatch, AckIsExact, script' = script, handled' = handled
    PROVE  FramesMatch' /\ AckIsExact'
  <1>1. FramesMatch'
    BY ScriptKept DEF FramesMatch
  <1>2. AckIsExact'
    BY ScriptKept DEF AckIsExact
  <1> QED
    BY <1>1, <1>2

LEMMA StepKept ==
    ASSUME NEW c, InStep(c), script' = script, taken' = taken, handled' = handled,
           state' = state, sm_enabled' = sm_enabled, sm_inbound_h' = sm_inbound_h
    PROVE  InStep(c)'
  BY ScriptKept DEF InStep

(* handled grows, or stays: what is said of an element handled before, is  *)
(* said of it still.                                                       *)
Grows == handled' = handled \/ \E e : handled' = Append(handled, e)

LEMMA GrowsBy ==
    ASSUME TypeOK, Grows
    PROVE  /\ Len(handled) \in Nat /\ Len(handled') \in Nat /\ Len(handled') >= Len(handled)
           /\ \A k \in 1 .. Len(handled) : handled'[k] = handled[k]
  <1> DEFINE T == [to : 1 .. Len(text), what : {"stanza", "enable", "r", "a"},
                   h : 0 .. W - 1]
  <1>1. handled \in Seq(T)
    BY DEF TypeOK
  <1> HIDE DEF T
  <1>2. CASE handled' = handled
    BY <1>1, <1>2
  <1>3. ASSUME NEW e, handled' = Append(handled, e)
        PROVE  /\ Len(handled) \in Nat /\ Len(handled') \in Nat
               /\ Len(handled') >= Len(handled)
               /\ \A k \in 1 .. Len(handled) : handled'[k] = handled[k]
    BY <1>1, <1>3
  <1> QED
    BY <1>2, <1>3 DEF Grows

LEMMA OverStays ==
    ASSUME StreamAssumption, IInv, script' = script, Grows,
           Cardinality(Good) <= Len(handled)
    PROVE  FramesMatch' /\ AckIsExact'
  <1>1. \A i \in Good : Rank(i) \in 1 .. Len(handled)
    <2> TAKE i \in Good
    <2>1. i \in Nat /\ Rank(i) \in Nat \ {0} /\ Len(handled) \in Nat
      BY Facts, RankIs, GoodIsFinite
    <2>2. Rank(i) <= Cardinality(Good) /\ Cardinality(Good) \in Nat
      BY <2>1, Facts, RankIs
    <2> QED
      BY <2>1, <2>2
  <1>2. \A i \in Good : Rank(i) <= Len(handled) /\ handled'[Rank(i)] = handled[Rank(i)]
    <2>1. TypeOK
      BY Facts
    <2> QED
      BY <1>1, <2>1, GrowsBy
  <1>3. Good' = Good /\ \A i : /\ Finish(i)' = Finish(i) /\ Meant(i)' = Meant(i)
                               /\ Rank(i)' = Rank(i)
                               /\ SentSinceEnable(i)' = SentSinceEnable(i)
    BY ScriptKept
  <1>4. FramesMatch'
    BY <1>2, <1>3, Facts DEF FramesMatch
  <1>5. AckIsExact'
    BY <1>2, <1>3, Facts DEF AckIsExact
  <1> QED
    BY <1>4, <1>5

LEMMA OverIsOver ==
    ASSUME StreamAssumption, IInv, script' = script, Grows,
           Len(handled) > Cardinality(Good)
    PROVE  InStepOrOver' /\ FramesMatch' /\ AckIsExact'
  <1>1. Cardinality(Good) \in Nat /\ Len(handled) \in Nat
    BY Facts, RankIs
  <1>2. Len(handled') \in Nat /\ Len(handled') >= Len(handled)
    BY Facts, GrowsBy
  <1>3. FramesMatch' /\ AckIsExact'
    BY <1>1, OverStays
  <1>4. (Len(handled) > Cardinality(Good))'
    BY <1>1, <1>2, ScriptKept
  <1> QED
    BY <1>3, <1>4 DEF InStepOrOver

(* The next element is handled as what it is. *)
LEMMA HandledNext ==
    ASSUME StreamAssumption, IInv, script' = script, NEW c \in 0 .. Len(script),
           Len(handled) = Rank(c), c + 1 \in Good,
           NEW e, handled' = Append(handled, e), e.to = Finish(c + 1), e.what = Meant(c + 1),
           e.what = "r" => e.h = SentSinceEnable(c + 1) % W
    PROVE  FramesMatch' /\ AckIsExact' /\ Len(handled') = Rank(c + 1)
  <1>1. c \in Nat /\ Rank(c + 1) = Rank(c) + 1 /\ Rank(c) \in Nat
    BY Facts, RankIs
  <1>2. TypeOK /\ FramesMatch /\ AckIsExact
    BY Facts
  <1>3. /\ Len(handled') = Rank(c + 1) /\ handled'[Rank(c + 1)] = e
        /\ \A k \in 1 .. Len(handled) : handled'[k] = handled[k]
    <2> DEFINE T == [to : 1 .. Len(text), what : {"stanza", "enable", "r", "a"},
                     h : 0 .. W - 1]
    <2>1. handled \in Seq(T)
      BY <1>2 DEF TypeOK
    <2> HIDE DEF T
    <2>2. Len(handled') = Len(handled) + 1 /\ handled'[Len(handled) + 1] = e
      BY <2>1
    <2>3. Rank(c + 1) = Len(handled) + 1
      BY <1>1
    <2>4. \A k \in 1 .. Len(handled) : handled'[k] = handled[k]
      BY <2>1
    <2> QED
      BY <2>2, <2>3, <2>4
  <1>4. ASSUME NEW i \in Good, Rank(i) <= Len(handled')
        PROVE  \/ i = c + 1
               \/ Rank(i) <= Len(handled) /\ handled'[Rank(i)] = handled[Rank(i)]
    <2>1. Rank(i) \in Nat \ {0}
      BY Facts, RankIs
    <2>2. CASE Rank(i) = Rank(c + 1)
      BY <2>2, Facts, RankIs
    <2>3. CASE Rank(i) # Rank(c + 1)
      <3>1. Rank(i) \in 1 .. Len(handled) /\ Rank(i) <= Len(handled)
        BY <1>1, <1>3, <1>4, <2>1, <2>3
      <3> QED
        BY <1>3, <3>1
    <2> QED
      BY <2>2, <2>3
  <1>5. Good' = Good /\ \A i : /\ Finish(i)' = Finish(i) /\ Meant(i)' = Meant(i)
                               /\ Rank(i)' = Rank(i)
                               /\ SentSinceEnable(i)' = SentSinceEnable(i)
    BY ScriptKept
  <1>6. FramesMatch'
    <2>1. ASSUME NEW i \in Good, Rank(i) <= Len(handled')
          PROVE  handled'[Rank(i)].to = Finish(i) /\ handled'[Rank(i)].what = Meant(i)
      <3>1. CASE i = c + 1
        BY <1>3, <3>1
      <3>2. CASE Rank(i) <= Len(handled) /\ handled'[Rank(i)] = handled[Rank(i)]
        BY <1>2, <3>2 DEF FramesMatch
      <3> QED
        BY <1>4, <2>1, <3>1, <3>2
    <2> QED
      BY <1>5, <2>1 DEF FramesMatch
  <1>7. AckIsExact'
    <2>1. ASSUME NEW i \in Good, Rank(i) <= Len(handled'), handled'[Rank(i)].what = "r"
          PROVE  handled'[Rank(i)].h = SentSinceEnable(i) % W
      <3>1. CASE i = c + 1
        BY <1>3, <2>1, <3>1
      <3>2. CASE Rank(i) <= Len(handled) /\ handled'[Rank(i)] = handled[Rank(i)]
        BY <1>2, <2>1, <3>2 DEF AckIsExact
      <3> QED
        BY <1>4, <2>1, <3>1, <3>2
    <2> QED
      BY <1>5, <2>1 DEF AckIsExact
  <1> QED
    BY <1>3, <1>6, <1>7

(* The first n symbols of the buffer are taken. *)
LEMMA TakeTypes ==
    ASSUME StreamAssumption, IInv, NEW n \in 1 .. Len(rx_buffer),
           NEW what \in {"stanza", "enable", "r", "a"}, NEW h \in 0 .. W - 1,
           Take(n, what, h), UNCHANGED wire
    PROVE  /\ script' \in Scripts /\ arrived' \in 0 .. Len(text') /\ taken' \in 0 .. arrived'
           /\ arrived' - taken' < RX_BUFFER
           /\ handled' \in Seq([to : 1 .. Len(text'), what : {"stanza", "enable", "r", "a"},
                                h : 0 .. W - 1])
           /\ Grows
  <1>1. script' = script /\ text' = text /\ arrived' = arrived
    BY DEF wire
  <1>2. TypeOK /\ Layout
    BY Facts
  <1>3. Len(rx_buffer) = arrived - taken
    BY <1>2, BufferIs
  <1>4. arrived \in Nat /\ taken \in Nat /\ Len(text) \in Nat /\ arrived <= Len(text)
        /\ arrived - taken < RX_BUFFER /\ RX_BUFFER \in Nat
    BY <1>2, Facts DEF TypeOK, Layout
  <1>5. n \in Nat /\ n >= 1 /\ n <= arrived - taken
    BY <1>3, <1>4
  <1>6. taken' = taken + n /\ handled' = Append(handled, [to |-> taken + n, what |-> what, h |-> h])
    BY DEF Take
  <1>7. taken' \in 0 .. arrived /\ taken + n \in 1 .. Len(text) /\ arrived - taken' < RX_BUFFER
    BY <1>4, <1>5, <1>6
  <1> DEFINE T == [to : 1 .. Len(text), what : {"stanza", "enable", "r", "a"}, h : 0 .. W - 1]
             e == [to |-> taken + n, what |-> what, h |-> h]
  <1>8. e \in T /\ handled \in Seq(T)
    BY <1>2, <1>7 DEF TypeOK
  <1>9. handled' = Append(handled, e)
    BY <1>6
  <1> HIDE DEF T, e
  <1>10. handled' \in Seq(T)
    BY <1>8, <1>9
  <1>11. Grows
    BY <1>9 DEF Grows
  <1> QED
    BY <1>1, <1>2, <1>7, <1>10, <1>11 DEF T, TypeOK

(* An element is sent in a session if the one before it asks for one, or   *)
(* is sent in one and does not undo it.                                    *)
LEMMA SessionNext ==
    ASSUME NEW c \in Nat
    PROVE  InSession((c + 1) + 1)
              <=> script[c + 1] = "session" \/ (InSession(c + 1) /\ script[c + 1] # "restart")
  <1> DEFINE lasts(k, i) == /\ script[k] = "session"
                            /\ \A m \in k + 1 .. i : script[m] # "restart"
  <1>1. (c + 1) - 1 = c /\ ((c + 1) + 1) - 1 = c + 1
    OBVIOUS
  <1>2. /\ InSession(c + 1) <=> \E k \in 1 .. c : lasts(k, c)
        /\ InSession((c + 1) + 1) <=> \E k \in 1 .. c + 1 : lasts(k, c + 1)
    BY <1>1 DEF InSession
  <1>3. \A k : k \in 1 .. c + 1 <=> k \in 1 .. c \/ k = c + 1
    OBVIOUS
  <1>4. lasts(c + 1, c + 1) <=> script[c + 1] = "session"
    <2>1. \A m : m \notin (c + 1) + 1 .. c + 1
      OBVIOUS
    <2> QED
      BY <2>1
  <1>5. ASSUME NEW k \in 1 .. c
        PROVE  lasts(k, c + 1) <=> lasts(k, c) /\ script[c + 1] # "restart"
    <2>1. \A m : m \in k + 1 .. c + 1 <=> m \in k + 1 .. c \/ m = c + 1
      OBVIOUS
    <2> QED
      BY <2>1
  <1> HIDE DEF lasts
  <1> QED
    BY <1>2, <1>3, <1>4, <1>5

(* The state after element e. *)
After(e) ==
    IF e = "session" THEN "SESSION" ELSE IF e = "restart" THEN "BIND" ELSE state

(* From one element to the next. *)
LEMMA Advance ==
    ASSUME StreamAssumption, IInv, script' = script, pc' = "loop",
           NEW c \in 0 .. Len(script), c < Len(script), InStep(c),
           script[c + 1] # "end", ~Paired(c + 1),
           taken' = Finish(c + 1), Len(handled') = Rank(c + 1),
           state' = After(script[c + 1]),
           sm_enabled' = (sm_enabled \/ Meant(c + 1) = "enable"),
           sm_inbound_h' = SentSinceEnable((c + 1) + 1) % W
    PROVE  InStepOrOver'
  <1>1. c \in Nat /\ Len(script) \in Nat /\ c + 1 \in 0 .. Len(script)
    BY Facts
  <1>2. \A k : k \in 1 .. c + 1 <=> k \in 1 .. c \/ k = c + 1
    BY <1>1
  <1>4. InSession((c + 1) + 1)
           <=> script[c + 1] = "session" \/ (InSession(c + 1) /\ script[c + 1] # "restart")
    BY <1>1, SessionNext
  <1>5. state = IF InSession(c + 1) THEN "SESSION" ELSE "BIND"
    BY DEF InStep
  <1>6. state' = IF InSession((c + 1) + 1) THEN "SESSION" ELSE "BIND"
    BY <1>4, <1>5 DEF After
  <1>7. \A k \in 1 .. c + 1 : script[k] # "end" /\ ~Paired(k)
    BY <1>2 DEF InStep
  <1>8. sm_enabled' = (\E k \in 1 .. c + 1 : Meant(k) = "enable")
    <2>1. sm_enabled = (\E k \in 1 .. c : Meant(k) = "enable")
      BY DEF InStep
    <2>2. (\E k \in 1 .. c + 1 : Meant(k) = "enable")
             <=> (\E k \in 1 .. c : Meant(k) = "enable") \/ Meant(c + 1) = "enable"
      BY <1>2
    <2> QED
      BY <2>1, <2>2, Zenon
  <1>9. /\ \A i : /\ Finish(i)' = Finish(i) /\ InSession(i)' = InSession(i)
                  /\ Meant(i)' = Meant(i) /\ Paired(i)' = Paired(i)
                  /\ Rank(i)' = Rank(i) /\ SentSinceEnable(i)' = SentSinceEnable(i)
    BY ScriptKept
  <1>10. InStep(c + 1)'
    BY <1>6, <1>7, <1>8, <1>9 DEF InStep
  <1>11. c + 1 \in 0 .. Len(script')
    BY <1>1
  <1>12. ~(pc' = "idle")
    OBVIOUS
  <1> QED
    BY <1>10, <1>11, <1>12 DEF InStepOrOver

(* In the loop the callback is between two elements, or all is said. *)
LEMMA InLoop ==
    ASSUME StreamAssumption, IInv, pc = "loop"
    PROVE  \/ \E c \in 0 .. Len(script) : InStep(c)
           \/ Len(handled) > Cardinality(Good)
  BY Facts DEF InStepOrOver

(* What stream management finds at the front. *)
LEMMA SmFront ==
    ASSUME StreamAssumption, IInv, SmElement(rx_buffer) # "none"
    PROVE  /\ state = "SESSION" /\ Len(rx_buffer) >= 2 /\ 2 \in 1 .. Len(rx_buffer)
           /\ rx_buffer # <<>>
           /\ Head(rx_buffer) = SmElement(rx_buffer)
  <1>1. state = "SESSION" /\ Len(rx_buffer) >= 2 /\ Head(rx_buffer) = SmElement(rx_buffer)
    BY DEF SmElement
  <1>2. Len(rx_buffer) \in Nat /\ Len(rx_buffer) = arrived - taken /\ arrived \in Nat /\ taken \in Nat
        /\ (rx_buffer # <<>> <=> taken < arrived)
    <2>1. TypeOK /\ Layout
      BY Facts
    <2>2. arrived \in Nat /\ taken \in Nat
      BY <2>1 DEF TypeOK, Layout
    <2> QED
      BY <2>1, <2>2, BufferIs
  <1> HIDE DEF rx_buffer
  <1> QED
    BY <1>1, <1>2

(* An element of which stream management takes two symbols. *)
LEMMA SmStep ==
    ASSUME StreamAssumption, IInv, pc = "loop", pc' = pc,
           NEW tag \in {"<enable", "<r", "<a"}, NEW name, NEW h \in 0 .. W - 1,
           \/ tag = "<enable" /\ name = "enable" /\ sm_enabled' = TRUE /\ sm_inbound_h' = 0
           \/ /\ tag = "<r" /\ name = "r" /\ h = sm_inbound_h
              /\ sm_enabled' = sm_enabled /\ sm_inbound_h' = sm_inbound_h
           \/ /\ tag = "<a" /\ name = "a"
              /\ sm_enabled' = sm_enabled /\ sm_inbound_h' = sm_inbound_h,
           SmElement(rx_buffer) = tag, Take(2, name, h), UNCHANGED wire, state' = state,
           Grows
    PROVE  InStepOrOver' /\ FramesMatch' /\ AckIsExact'
  <1>1. script' = script
    BY DEF wire
  <1>2. script \in Seq(Elements) /\ Layout /\ TypeOK /\ W \in Nat \ {0} /\ Len(handled) \in Nat
    BY Facts
  <1>3. CASE Len(handled) > Cardinality(Good)
    BY <1>1, <1>3, OverIsOver
  <1>4. ASSUME NEW c \in 0 .. Len(script), InStep(c)
        PROVE  InStepOrOver' /\ FramesMatch' /\ AckIsExact'
    <2> DEFINE e == script[c + 1]
    <2>1. SmElement(rx_buffer) # "none"
      OBVIOUS
    <2>2. state = "SESSION" /\ rx_buffer # <<>> /\ Head(rx_buffer) = tag
      BY <2>1, SmFront
    <2>3. taken = Finish(c) /\ Len(handled) = Rank(c) /\ c \in Nat
      BY <1>4 DEF InStep
    <2>4. /\ c < Len(script) /\ c + 1 \in 1 .. Len(script) /\ e \in Elements
          /\ Finish(c + 1) = taken + Len(Text[e]) /\ Text[e][1] = tag
      BY <1>2, <2>2, <2>3, AtFront
    <2>5. InSession(c + 1)
      BY <1>4, <2>2 DEF InStep
    <2> DEFINE rec == [to |-> taken + 2, what |-> name, h |-> h]
    <2>6. taken' = taken + 2 /\ handled' = Append(handled, rec)
      BY DEF Take
    <2>7. rec.to = taken + 2 /\ rec.what = name /\ rec.h = h
      OBVIOUS
    <2> HIDE DEF rec
    <2>8. CASE e \in {"longenable", "longr", "longa"}
      <3>1. Paired(c + 1)
        BY <2>5, <2>8 DEF Paired
      <3>2. Cardinality(Good) = Len(handled)
        BY <1>2, <2>3, <3>1, PairIsLast
      <3>3. FramesMatch' /\ AckIsExact'
        <4>1. Cardinality(Good) <= Len(handled)
          BY <1>2, <3>2
        <4> QED
          BY <1>1, <4>1, OverStays
      <3>4. (Len(handled) > Cardinality(Good))'
        <4>1. Len(handled') = Len(handled) + 1
          BY <1>2, <2>6 DEF TypeOK
        <4>2. Cardinality(Good)' = Len(handled)
          BY <1>1, <3>2, ScriptKept
        <4> QED
          BY <1>2, <4>1, <4>2
      <3> QED
        BY <3>3, <3>4 DEF InStepOrOver
    <2>9. CASE e \notin {"longenable", "longr", "longa"}
      <3>1. e = name
        <4>1. /\ tag = "<enable" => e \in {"enable", "longenable"}
              /\ tag = "<r" => e \in {"r", "longr"}
              /\ tag = "<a" => e \in {"a", "longa"}
          <5> HIDE DEF e
          <5> QED
            BY <2>4, FirstSymbol
        <4> HIDE DEF e
        <4>2. /\ tag = "<enable" => e = "enable"
              /\ tag = "<r" => e = "r"
              /\ tag = "<a" => e = "a"
          BY <4>1, <2>9
        <4> QED
          BY <4>2
      <3>2. e \in {"enable", "r", "a"} /\ Len(Text[e]) = 2
        <4>1. e = "enable" \/ e = "r" \/ e = "a"
          BY <3>1
        <4> QED
          BY <4>1, Lengths
      <3>3. Finish(c + 1) = taken + 2
        BY <2>4, <3>2
      <3>4. Meant(c + 1) = name
        <4>1. CASE e = "enable"
          BY <2>5, <3>1, <4>1 DEF Meant, Stray, SentAs
        <4>2. CASE e = "r"
          BY <2>5, <3>1, <4>2 DEF Meant, Stray, SentAs
        <4>3. CASE e = "a"
          BY <2>5, <3>1, <4>3 DEF Meant, Stray, SentAs
        <4> QED
          BY <3>2, <4>1, <4>2, <4>3
      <3>5. ~Paired(c + 1)
        BY <3>2 DEF Paired
      <3>6. c + 1 \in Good
        <4>1. \A k \in 1 .. c : ~Paired(k)
          BY <1>4 DEF InStep
        <4>2. \A k \in 1 .. c + 1 : k \in 1 .. c \/ k = c + 1
          BY <2>3
        <4>3. c + 1 \in DOMAIN script
          BY <1>2, <2>4
        <4> QED
          BY <3>2, <3>5, <4>1, <4>2, <4>3 DEF Good
      <3>7. /\ c + 1 \in Nat \ {0}
            /\ SentSinceEnable(c + 1) \in Nat
            /\ Meant(c + 1) = "enable" => SentSinceEnable((c + 1) + 1) = 0
            /\ Meant(c + 1) \in {"r", "a"} =>
                 SentSinceEnable((c + 1) + 1) = SentSinceEnable(c + 1)
        <4>1. c + 1 \in Nat \ {0}
          BY <2>3
        <4> QED
          BY <1>2, <4>1, SinceGrows
      <3>8. sm_inbound_h = SentSinceEnable(c + 1) % W
        BY <1>4 DEF InStep
      <3>9. sm_inbound_h' = SentSinceEnable((c + 1) + 1) % W
        <4>1. CASE name = "enable"
          <5>1. 0 % W = 0
            <6>1. 0 = W * 0 + 0 /\ 0 \in 0 .. W - 1 /\ 0 \in Nat
              BY <1>2
            <6> QED
              BY <1>2, <6>1, RemainderIs
          <5> QED
            BY <3>4, <3>7, <4>1, <5>1
        <4>2. CASE name \in {"r", "a"}
          BY <3>4, <3>7, <3>8, <4>2
        <4> QED
          BY <3>1, <3>2, <4>1, <4>2
      <3>10. FramesMatch' /\ AckIsExact' /\ Len(handled') = Rank(c + 1)
        <4>1. rec.to = Finish(c + 1) /\ rec.what = Meant(c + 1)
          BY <2>7, <3>3, <3>4
        <4>2. rec.what = "r" => rec.h = SentSinceEnable(c + 1) % W
          BY <2>7, <3>8
        <4> QED
          BY <1>1, <2>3, <2>6, <3>6, <4>1, <4>2, HandledNext
      <3>11. sm_enabled' = (sm_enabled \/ Meant(c + 1) = "enable")
        <4>1. sm_enabled \in BOOLEAN
          BY <1>2 DEF TypeOK
        <4>2. CASE name = "enable"
          BY <3>4, <4>2
        <4>3. CASE name # "enable"
          BY <3>4, <4>1, <4>3
        <4> QED
          BY <4>2, <4>3
      <3>12. /\ e # "end" /\ pc' = "loop" /\ taken' = Finish(c + 1)
             /\ state' = After(script[c + 1])
        BY <2>2, <2>6, <3>2, <3>3 DEF After
      <3>13. InStepOrOver'
        BY <1>1, <1>4, <2>4, <3>5, <3>9, <3>10, <3>11, <3>12, Advance
      <3> QED
        BY <3>10, <3>13
    <2> QED
      BY <2>8, <2>9
  <1> QED
    BY <1>3, <1>4, InLoop

----------------------------------------------------------------------------
(* Each action keeps the invariant.                                        *)

(* A step that leaves alone what has been taken and handled, and that      *)
(* returns only with less than an element in the buffer.                   *)
LEMMA StepsInPlace ==
    ASSUME StreamAssumption, IInv, script' = script, taken' = taken, handled' = handled,
           state' = state, sm_enabled' = sm_enabled, sm_inbound_h' = sm_inbound_h,
           pc = "idle" => open,
           pc' # "idle" \/ ~open' \/ (pc = "idle" /\ arrived' = arrived)
    PROVE  InStepOrOver' /\ FramesMatch' /\ AckIsExact'
  <1>1. FramesMatch' /\ AckIsExact'
    BY Facts, HandledKept
  <1>2. Good' = Good /\ \A i : Finish(i)' = Finish(i)
    BY ScriptKept
  <1>3. CASE Len(handled) > Cardinality(Good)
    BY <1>3, OverIsOver DEF Grows
  <1>4. ASSUME NEW c \in 0 .. Len(script), InStep(c),
               pc = "idle" /\ open /\ c < Len(script) => arrived < Finish(c + 1)
        PROVE  InStepOrOver'
    <2>1. InStep(c)'
      BY <1>4, StepKept
    <2>2. c \in 0 .. Len(script')
      OBVIOUS
    <2>3. pc' = "idle" /\ open' /\ c < Len(script') => arrived' < Finish(c + 1)'
      BY <1>2, <1>4
    <2> QED
      BY <2>1, <2>2, <2>3 DEF InStepOrOver
  <1> QED
    BY <1>1, <1>3, <1>4, Facts DEF InStepOrOver

LEMMA RecordKeeps ==
    ASSUME StreamAssumption, IInv, NEW n \in 1 .. MaxRecord, Record(n)
    PROVE  IInv'
  <1>1. TypeOK'
    <2>1. arrived + n \in 0 .. Len(text) /\ taken \in 0 .. arrived + n
          /\ (arrived + n) - taken < RX_BUFFER
      <3>1. TypeOK /\ Layout /\ RX_BUFFER \in Nat
        BY Facts
      <3>2. arrived \in Nat /\ taken \in Nat /\ taken <= arrived /\ Len(text) \in Nat
        BY <3>1 DEF TypeOK, Layout
      <3>3. n \in Nat /\ n >= 1 /\ n <= Len(text) - arrived /\ arrived + n - taken < RX_BUFFER - 1
        BY <3>2 DEF Record, Fits
      <3> QED
        BY <3>1, <3>2, <3>3
    <2> QED
      BY <2>1, Facts DEF TypeOK, Record, sm
  <1>2. (text = FlattenSeq([i \in DOMAIN script |-> Text[script[i]]]))'
    BY Facts, TextKept DEF Record
  <1>3. InStepOrOver' /\ FramesMatch' /\ AckIsExact'
    BY StepsInPlace DEF Record, sm
  <1>4. DueIsFlagged'
    BY Facts DEF DueIsFlagged, Record, sm
  <1> QED
    BY <1>1, <1>2, <1>3, <1>4 DEF IInv

LEMMA OverflowKeeps ==
    ASSUME StreamAssumption, IInv, NEW n \in 1 .. MaxRecord, Overflow(n)
    PROVE  IInv'
  <1>1. TypeOK'
    BY Facts DEF TypeOK, Overflow, sm, wire
  <1>2. (text = FlattenSeq([i \in DOMAIN script |-> Text[script[i]]]))'
    BY Facts, TextKept DEF Overflow, wire
  <1>3. InStepOrOver' /\ FramesMatch' /\ AckIsExact'
    BY StepsInPlace DEF Overflow, sm, wire
  <1>4. DueIsFlagged'
    BY Facts DEF DueIsFlagged, Overflow, sm
  <1> QED
    BY <1>1, <1>2, <1>3, <1>4 DEF IInv

LEMMA EndOfSegmentKeeps ==
    ASSUME StreamAssumption, IInv, EndOfSegment
    PROVE  IInv'
  <1>1. TypeOK'
    BY Facts DEF TypeOK, EndOfSegment, sm, wire
  <1>2. (text = FlattenSeq([i \in DOMAIN script |-> Text[script[i]]]))'
    BY Facts, TextKept DEF EndOfSegment, wire
  <1>3. InStepOrOver' /\ FramesMatch' /\ AckIsExact'
    BY StepsInPlace DEF EndOfSegment, sm, wire
  <1>4. DueIsFlagged'
    BY Facts DEF DueIsFlagged, EndOfSegment, sm
  <1> QED
    BY <1>1, <1>2, <1>3, <1>4 DEF IInv

LEMMA SkipBlankKeeps ==
    ASSUME StreamAssumption, IInv, SkipBlank
    PROVE  IInv'
  <1>0. /\ script' = script /\ text' = text /\ arrived' = arrived /\ handled' = handled
        /\ pc = "loop" /\ pc' = "loop" /\ open' = open /\ state' = state /\ pushes' = pushes
        /\ UNCHANGED <<sm_enabled, sm_want_ack, sm_inbound_h, sm_outbound_count, unasked>>
        /\ taken' = taken + 1 /\ rx_buffer # <<>> /\ Head(rx_buffer) = " "
    BY DEF SkipBlank, wire, sm
  <1>1. script \in Seq(Elements) /\ Layout /\ TypeOK
    BY Facts
  <1>2. TypeOK'
    <2>1. taken < arrived
      BY <1>0, <1>1, BufferIs
    <2>2. arrived \in Nat /\ taken \in Nat /\ RX_BUFFER \in Nat
      BY <1>1, Facts DEF TypeOK, Layout
    <2>3. taken + 1 \in 0 .. arrived /\ arrived - (taken + 1) < RX_BUFFER
      BY <1>1, <2>1, <2>2 DEF TypeOK
    <2> QED
      BY <1>0, <1>1, <2>3 DEF TypeOK
  <1>3. (text = FlattenSeq([i \in DOMAIN script |-> Text[script[i]]]))'
    BY <1>0, Facts, TextKept
  <1>4. FramesMatch' /\ AckIsExact'
    BY <1>0, Facts, HandledKept
  <1>5. ASSUME Len(handled) > Cardinality(Good) PROVE InStepOrOver'
    BY <1>0, <1>5, OverIsOver DEF Grows
  <1>6. ASSUME NEW c \in 0 .. Len(script), InStep(c) PROVE InStepOrOver'
    <2>1. taken = Finish(c) /\ Len(handled) = Rank(c) /\ c \in Nat
      BY <1>6 DEF InStep
    <2>2. /\ c < Len(script) /\ script[c + 1] \in Elements
          /\ Finish(c + 1) = taken + Len(Text[script[c + 1]])
          /\ Text[script[c + 1]][1] = " "
      BY <1>0, <1>1, <2>1, AtFront
    <2>3. script[c + 1] = "blank"
      BY <2>2, FirstSymbol
    <2>4. Finish(c + 1) = taken + 1
      BY <2>2, <2>3, Lengths
    <2>5. c + 1 \notin Good /\ ~Paired(c + 1)
      BY <2>3 DEF Good, Paired
    <2>6. Rank(c + 1) = Rank(c)
      BY <1>1, <2>1, <2>5, RankIs
    <2>7. Meant(c + 1) # "enable"
      BY <2>3 DEF Meant, SentAs
    <2>8. SentSinceEnable((c + 1) + 1) = SentSinceEnable(c + 1)
      <3>1. c + 1 \in Nat \ {0}
        BY <2>1
      <3> QED
        BY <1>1, <2>5, <2>7, <3>1, SinceGrows
    <2>9. sm_inbound_h' = SentSinceEnable((c + 1) + 1) % W
      BY <1>0, <1>6, <2>8 DEF InStep
    <2>10. sm_enabled' = (sm_enabled \/ Meant(c + 1) = "enable")
      BY <1>0, <1>1, <2>7 DEF TypeOK
    <2>11. /\ script[c + 1] # "end" /\ taken' = Finish(c + 1) /\ Len(handled') = Rank(c + 1)
           /\ state' = After(script[c + 1])
      BY <1>0, <2>1, <2>3, <2>4, <2>6 DEF After
    <2> QED
      BY <1>0, <1>6, <2>2, <2>5, <2>9, <2>10, <2>11, Advance
  <1>7. DueIsFlagged'
    BY <1>0, Facts DEF DueIsFlagged
  <1> QED
    BY <1>0, <1>2, <1>3, <1>4, <1>5, <1>6, <1>7, InLoop DEF IInv

LEMMA StreamEndKeeps ==
    ASSUME StreamAssumption, IInv, StreamEnd
    PROVE  IInv'
  <1>0. script' = script /\ text' = text /\ handled' = handled /\ pc' = "idle" /\ open' = FALSE
    BY DEF StreamEnd, wire
  <1>1. TypeOK'
    <2>1. arrived \in 0 .. arrived /\ arrived - arrived < RX_BUFFER
      <3>1. arrived \in Nat /\ RX_BUFFER \in Nat \ {0}
        BY Facts DEF TypeOK, Layout
      <3> QED
        BY <3>1
    <2> QED
      BY <2>1, Facts DEF TypeOK, StreamEnd, sm, wire
  <1>2. (text = FlattenSeq([i \in DOMAIN script |-> Text[script[i]]]))'
    BY <1>0, Facts, TextKept
  <1>3. FramesMatch' /\ AckIsExact'
    BY <1>0, Facts, HandledKept
  <1>4. InStepOrOver'
    BY <1>0 DEF InStepOrOver
  <1>5. DueIsFlagged'
    BY Facts DEF DueIsFlagged, StreamEnd, sm
  <1> QED
    BY <1>1, <1>2, <1>3, <1>4, <1>5 DEF IInv

LEMMA ReturnKeeps ==
    ASSUME StreamAssumption, IInv, Return
    PROVE  IInv'
  <1>0. /\ script' = script /\ text' = text /\ arrived' = arrived /\ taken' = taken
        /\ handled' = handled /\ pc = "loop" /\ pc' = "idle" /\ open' = open
        /\ state' = state /\ pushes' = pushes
        /\ UNCHANGED <<sm_enabled, sm_want_ack, sm_inbound_h, sm_outbound_count, unasked>>
        /\ Nothing(rx_buffer)
    BY DEF Return, wire, sm
  <1>1. script \in Seq(Elements) /\ Layout /\ TypeOK
    BY Facts
  <1>2. TypeOK'
    BY <1>0, <1>1 DEF TypeOK
  <1>3. (text = FlattenSeq([i \in DOMAIN script |-> Text[script[i]]]))'
    BY <1>0, Facts, TextKept
  <1>4. FramesMatch' /\ AckIsExact'
    BY <1>0, Facts, HandledKept
  <1>5. ASSUME Len(handled) > Cardinality(Good) PROVE InStepOrOver'
    BY <1>0, <1>5, OverIsOver DEF Grows
  <1>6. ASSUME NEW c \in 0 .. Len(script), InStep(c) PROVE InStepOrOver'
    <2>1. taken = Finish(c)
      BY <1>6 DEF InStep
    <2>2. InStep(c)' /\ c \in 0 .. Len(script')
      BY <1>0, <1>6, StepKept
    <2>3. ASSUME c < Len(script) PROVE arrived < Finish(c + 1)
      <3> DEFINE e == script[c + 1]
                 n == Len(Text[e])
                 b == Len(rx_buffer)
      <3>1. /\ e \in Elements /\ Begins(rx_buffer, e) /\ Finish(c + 1) = taken + n
            /\ n \in Nat \ {0}
            /\ rx_buffer # <<>> => Head(rx_buffer) = Text[e][1]
        BY <1>1, <2>1, <2>3, AtFront
      <3>2. /\ rx_buffer \in Seq(Symbols) /\ b = arrived - taken /\ b \in Nat
            /\ rx_buffer # <<>> <=> taken < arrived
        BY <1>1, BufferIs
      <3>3. arrived \in Nat /\ taken \in Nat /\ taken <= arrived
        BY <1>1 DEF TypeOK, Layout
      <3>4. CASE rx_buffer = <<>>
        <4> HIDE DEF n, b
        <4>1. ~(taken < arrived)
          BY <3>2, <3>4
        <4>2. arrived < taken + n
          BY <3>1, <3>3, <4>1
        <4> QED
          BY <3>1, <4>2
      <3>5. CASE rx_buffer # <<>>
        <4>1. /\ Head(rx_buffer) # " " /\ Head(rx_buffer) # "</stream"
              /\ find_stanza_end(rx_buffer) = 0
          BY <1>0, <3>5 DEF Nothing, StreamEnds
        <4>2. e \in Elements \ {"blank", "end"}
          BY <3>1, <3>5, <4>1, FirstSymbol
        <4>3. find_stanza_end(rx_buffer) = IF n <= b THEN n ELSE 0
          BY <3>1, <3>2, <4>2, EndFound
        <4> HIDE DEF n, b
        <4>4. b < n
          <5>1. n # 0 /\ n \in Nat /\ b \in Nat
            BY <3>1, <3>2
          <5>2. ~(n <= b)
            BY <4>1, <4>3, <5>1
          <5> QED
            BY <5>1, <5>2
        <4>5. arrived < taken + n
          BY <3>1, <3>2, <3>3, <4>4
        <4> QED
          BY <3>1, <4>5
      <3> QED
        BY <3>4, <3>5
    <2>4. pc' = "idle" /\ open' /\ c < Len(script') => arrived' < Finish(c + 1)'
      BY <1>0, <2>3, ScriptKept
    <2> QED
      BY <2>2, <2>4 DEF InStepOrOver
  <1>7. DueIsFlagged'
    BY <1>0, Facts DEF DueIsFlagged
  <1> QED
    BY <1>0, <1>2, <1>3, <1>4, <1>5, <1>6, <1>7, InLoop DEF IInv

LEMMA EnableKeeps ==
    ASSUME StreamAssumption, IInv, Enable
    PROVE  IInv'
  <1>0. /\ UNCHANGED wire /\ script' = script /\ text' = text /\ pc = "loop" /\ pc' = pc
        /\ open' = open /\ state' = state /\ pushes' = pushes
        /\ sm_enabled' = TRUE /\ sm_inbound_h' = 0 /\ Take(2, "enable", 0)
        /\ SmElement(rx_buffer) = "<enable"
        /\ SendRaw(1, TRUE, 0, sm_want_ack) /\ Unasked(1, TRUE, 0)
    BY DEF Enable, wire
  <1>1. TypeOK /\ DueIsFlagged /\ W \in Nat \ {0} /\ SM_ACK_INTERVAL \in Nat \ {0}
    BY Facts
  <1>2. 0 \in 0 .. W - 1 /\ 0 \in 0 .. SM_ACK_INTERVAL /\ 0 <= 0 % SM_ACK_INTERVAL /\ 1 \in Nat
    <2>1. 0 % SM_ACK_INTERVAL \in 0 .. SM_ACK_INTERVAL - 1
      BY <1>1, Divide
    <2> QED
      BY <1>1, <2>1
  <1>3. /\ sm_outbound_count' \in 0 .. W - 1 /\ sm_want_ack' \in BOOLEAN
        /\ unasked' \in 0 .. SM_ACK_INTERVAL /\ DueIsFlagged'
    <2>1. sm_want_ack \in BOOLEAN
      BY <1>1 DEF TypeOK
    <2> QED
      BY <1>0, <1>1, <1>2, <2>1, Sends
  <1>4. /\ script' \in Scripts /\ arrived' \in 0 .. Len(text') /\ taken' \in 0 .. arrived'
        /\ arrived' - taken' < RX_BUFFER
        /\ handled' \in Seq([to : 1 .. Len(text'), what : {"stanza", "enable", "r", "a"},
                             h : 0 .. W - 1])
        /\ Grows
    <2>1. 2 \in 1 .. Len(rx_buffer)
      BY <1>0, SmFront
    <2> QED
      BY <1>0, <1>2, <2>1, TakeTypes
  <1>5. TypeOK'
    BY <1>0, <1>1, <1>2, <1>3, <1>4 DEF TypeOK
  <1>6. (text = FlattenSeq([i \in DOMAIN script |-> Text[script[i]]]))'
    BY <1>0, Facts, TextKept
  <1>7. InStepOrOver' /\ FramesMatch' /\ AckIsExact'
    BY <1>0, <1>2, <1>4, SmStep
  <1> QED
    BY <1>3, <1>5, <1>6, <1>7 DEF IInv

LEMMA SendAckKeeps ==
    ASSUME StreamAssumption, IInv, SendAck
    PROVE  IInv'
  <1>0. /\ UNCHANGED wire /\ script' = script /\ text' = text /\ pc = "loop" /\ pc' = pc
        /\ open' = open /\ state' = state /\ pushes' = pushes
        /\ sm_enabled' = sm_enabled /\ sm_inbound_h' = sm_inbound_h
        /\ Take(2, "r", sm_inbound_h)
        /\ SmElement(rx_buffer) = "<r"
        /\ SendRaw(1, sm_enabled, sm_outbound_count, sm_want_ack)
        /\ Unasked(1, sm_enabled, unasked)
    BY DEF SendAck, wire
  <1>1. TypeOK /\ DueIsFlagged
    BY Facts
  <1>2. /\ sm_outbound_count' \in 0 .. W - 1 /\ sm_want_ack' \in BOOLEAN
        /\ unasked' \in 0 .. SM_ACK_INTERVAL /\ DueIsFlagged'
    <2>1. /\ sm_want_ack \in BOOLEAN /\ sm_enabled \in BOOLEAN /\ 1 \in Nat
          /\ sm_outbound_count \in 0 .. W - 1 /\ unasked \in 0 .. SM_ACK_INTERVAL
      BY <1>1 DEF TypeOK
    <2>2. sm_want_ack \/ unasked <= sm_outbound_count % SM_ACK_INTERVAL
      BY <1>1 DEF DueIsFlagged
    <2> QED
      BY <1>0, <1>1, <2>1, <2>2, Sends
  <1>3. sm_inbound_h \in 0 .. W - 1
    BY <1>1 DEF TypeOK
  <1>4. /\ script' \in Scripts /\ arrived' \in 0 .. Len(text') /\ taken' \in 0 .. arrived'
        /\ arrived' - taken' < RX_BUFFER
        /\ handled' \in Seq([to : 1 .. Len(text'), what : {"stanza", "enable", "r", "a"},
                             h : 0 .. W - 1])
        /\ Grows
    <2>1. 2 \in 1 .. Len(rx_buffer)
      BY <1>0, SmFront
    <2> QED
      BY <1>0, <1>3, <2>1, TakeTypes
  <1>5. TypeOK'
    BY <1>0, <1>1, <1>2, <1>4 DEF TypeOK
  <1>6. (text = FlattenSeq([i \in DOMAIN script |-> Text[script[i]]]))'
    BY <1>0, Facts, TextKept
  <1>7. InStepOrOver' /\ FramesMatch' /\ AckIsExact'
    BY <1>0, <1>3, <1>4, SmStep
  <1> QED
    BY <1>2, <1>5, <1>6, <1>7 DEF IInv

LEMMA TakeAckKeeps ==
    ASSUME StreamAssumption, IInv, TakeAck
    PROVE  IInv'
  <1>0. /\ UNCHANGED wire /\ script' = script /\ text' = text /\ pc = "loop" /\ pc' = pc
        /\ open' = open /\ state' = state /\ pushes' = pushes
        /\ UNCHANGED <<sm_enabled, sm_want_ack, sm_inbound_h, sm_outbound_count, unasked>>
        /\ Take(2, "a", 0) /\ SmElement(rx_buffer) = "<a"
    BY DEF TakeAck, wire, sm
  <1>1. TypeOK /\ DueIsFlagged /\ W \in Nat \ {0}
    BY Facts
  <1>2. 0 \in 0 .. W - 1
    BY <1>1
  <1>3. DueIsFlagged'
    BY <1>0, <1>1 DEF DueIsFlagged
  <1>4. /\ script' \in Scripts /\ arrived' \in 0 .. Len(text') /\ taken' \in 0 .. arrived'
        /\ arrived' - taken' < RX_BUFFER
        /\ handled' \in Seq([to : 1 .. Len(text'), what : {"stanza", "enable", "r", "a"},
                             h : 0 .. W - 1])
        /\ Grows
    <2>1. 2 \in 1 .. Len(rx_buffer)
      BY <1>0, SmFront
    <2> QED
      BY <1>0, <1>2, <2>1, TakeTypes
  <1>5. TypeOK'
    BY <1>0, <1>1, <1>4 DEF TypeOK
  <1>6. (text = FlattenSeq([i \in DOMAIN script |-> Text[script[i]]]))'
    BY <1>0, Facts, TextKept
  <1>7. InStepOrOver' /\ FramesMatch' /\ AckIsExact'
    BY <1>0, <1>2, <1>4, SmStep
  <1> QED
    BY <1>3, <1>5, <1>6, <1>7 DEF IInv

LEMMA StanzaKeeps ==
    ASSUME StreamAssumption, IInv, Stanza
    PROVE  IInv'
  <1> DEFINE n == find_stanza_end(rx_buffer)
  <1>0. /\ UNCHANGED wire /\ script' = script /\ text' = text /\ arrived' = arrived
        /\ pc = "loop" /\ pc' = "loop" /\ open' = open /\ pushes' = pushes
        /\ sm_enabled' = sm_enabled
        /\ sm_inbound_h' = (IF sm_enabled THEN (sm_inbound_h + 1) % W ELSE sm_inbound_h)
        /\ state' = (CASE Head(rx_buffer) = "<session" -> "SESSION"
                       [] Head(rx_buffer) = "<restart" -> "BIND"
                       [] OTHER -> state)
        /\ Take(n, "stanza", 0) /\ n > 0
        /\ rx_buffer # <<>> /\ Head(rx_buffer) # " " /\ Head(rx_buffer) # "</stream"
        /\ SmElement(rx_buffer) = "none"
    BY DEF Stanza, StreamEnds, wire
  <1>1. /\ script \in Seq(Elements) /\ Layout /\ TypeOK /\ DueIsFlagged /\ W \in Nat \ {0}
        /\ Len(handled) \in Nat /\ MaxReplies \in Nat
    BY Facts
  <1>2. /\ sm_outbound_count' \in 0 .. W - 1 /\ sm_want_ack' \in BOOLEAN
        /\ unasked' \in 0 .. SM_ACK_INTERVAL /\ DueIsFlagged'
    <2>1. /\ sm_want_ack \in BOOLEAN /\ sm_enabled \in BOOLEAN
          /\ sm_outbound_count \in 0 .. W - 1 /\ unasked \in 0 .. SM_ACK_INTERVAL
      BY <1>1 DEF TypeOK
    <2>2. sm_want_ack \/ unasked <= sm_outbound_count % SM_ACK_INTERVAL
      BY <1>1 DEF DueIsFlagged
    <2>3. PICK k \in 0 .. MaxReplies :
             /\ SendRaw(k, sm_enabled, sm_outbound_count, sm_want_ack)
             /\ Unasked(k, sm_enabled, unasked)
      BY DEF Stanza
    <2>4. k \in Nat
      BY <1>1
    <2> QED
      BY <1>1, <2>1, <2>2, <2>3, <2>4, Sends
  <1>3. rx_buffer \in Seq(Symbols) /\ Len(rx_buffer) \in Nat
    BY <1>1, BufferIs
  <1>4. n \in 1 .. Len(rx_buffer)
    <2>1. n \in 0 .. Len(rx_buffer)
      BY <1>3, EndInBuffer
    <2> DEFINE b == Len(rx_buffer)
    <2>2. n > 0 /\ n \in 0 .. b /\ b \in Nat
      BY <1>0, <1>3, <2>1
    <2> HIDE DEF n, b
    <2>3. n \in 1 .. b
      BY <2>2
    <2> QED
      BY <2>3 DEF b
  <1>5. /\ script' \in Scripts /\ arrived' \in 0 .. Len(text') /\ taken' \in 0 .. arrived'
        /\ arrived' - taken' < RX_BUFFER
        /\ handled' \in Seq([to : 1 .. Len(text'), what : {"stanza", "enable", "r", "a"},
                             h : 0 .. W - 1])
        /\ Grows
    <2>1. 0 \in 0 .. W - 1
      BY <1>1
    <2> QED
      BY <1>0, <1>4, <2>1, TakeTypes
  <1>6. TypeOK'
    <2>1. sm_inbound_h' \in 0 .. W - 1
      <3>1. sm_inbound_h \in 0 .. W - 1 /\ sm_inbound_h + 1 \in Nat
        BY <1>1 DEF TypeOK
      <3>2. (sm_inbound_h + 1) % W \in 0 .. W - 1
        BY <1>1, <3>1, Divide
      <3> QED
        BY <1>0, <3>1, <3>2
    <2>2. state' \in {"CONNECTED", "BIND", "SESSION"}
      BY <1>0, <1>1 DEF TypeOK
    <2> HIDE DEF n
    <2> QED
      BY <1>0, <1>1, <1>2, <1>5, <2>1, <2>2 DEF TypeOK
  <1>7. (text = FlattenSeq([i \in DOMAIN script |-> Text[script[i]]]))'
    BY <1>0, Facts, TextKept
  <1>8. ASSUME Len(handled) > Cardinality(Good)
        PROVE  InStepOrOver' /\ FramesMatch' /\ AckIsExact'
    BY <1>0, <1>5, <1>8, OverIsOver
  <1>9. ASSUME NEW c \in 0 .. Len(script), InStep(c)
        PROVE  InStepOrOver' /\ FramesMatch' /\ AckIsExact'
    <2> DEFINE e == script[c + 1]
    <2>1. taken = Finish(c) /\ Len(handled) = Rank(c) /\ c \in Nat
      BY <1>9 DEF InStep
    <2>2. /\ c < Len(script) /\ c + 1 \in 1 .. Len(script) /\ e \in Elements
          /\ Begins(rx_buffer, e)
          /\ Finish(c + 1) = taken + Len(Text[e]) /\ Len(Text[e]) \in Nat \ {0}
          /\ Head(rx_buffer) = Text[e][1]
      BY <1>0, <1>1, <2>1, AtFront
    <2>3. e \in Elements \ {"blank", "end"}
      BY <1>0, <2>2, FirstSymbol
    <2>4. n = IF Len(Text[e]) <= Len(rx_buffer) THEN Len(Text[e]) ELSE 0
      BY <1>3, <2>2, <2>3, EndFound
    <2>5. n = Len(Text[e]) /\ Len(Text[e]) <= Len(rx_buffer)
      <3> DEFINE m == Len(Text[e])
                 b == Len(rx_buffer)
      <3>1. n > 0 /\ n = IF m <= b THEN m ELSE 0
        BY <1>0, <2>4
      <3> HIDE DEF m, b, n
      <3>2. n = m /\ m <= b
        BY <3>1
      <3> QED
        BY <3>2 DEF m, b
    <2>6. Finish(c + 1) = taken + n
      BY <2>2, <2>5
    <2>7. Len(rx_buffer) >= 2
      <3>1. Len(Text[e]) >= 2
        BY <2>3, Lengths
      <3> DEFINE m == Len(Text[e])
                 b == Len(rx_buffer)
      <3>2. m >= 2 /\ m <= b /\ m \in Nat /\ b \in Nat
        BY <1>3, <2>2, <2>5, <3>1
      <3> HIDE DEF m, b
      <3>3. b >= 2
        BY <3>2
      <3> QED
        BY <3>3 DEF b
    <2>8. state = "SESSION" <=> InSession(c + 1)
      BY <1>9 DEF InStep
    <2>9. InSession(c + 1) => e \notin {"enable", "r", "a", "longenable", "longr", "longa"}
      <3>1. state = "SESSION" => Head(rx_buffer) \notin {"<enable", "<r", "<a"}
        BY <1>0, <2>7 DEF SmElement
      <3> QED
        BY <2>2, <2>8, <3>1, FirstSymbol
    <2>10. Meant(c + 1) = "stanza"
      <3>1. CASE ~InSession(c + 1)
        BY <3>1 DEF Meant, Stray
      <3>2. CASE InSession(c + 1)
        BY <2>9, <3>2 DEF Meant, Stray, SentAs
      <3> QED
        BY <3>1, <3>2
    <2>11. ~Paired(c + 1)
      BY <2>9 DEF Paired
    <2>12. c + 1 \in Good
      <3>1. \A k \in 1 .. c : ~Paired(k)
        BY <1>9 DEF InStep
      <3>2. \A k \in 1 .. c + 1 : k \in 1 .. c \/ k = c + 1
        BY <2>1
      <3>3. c + 1 \in DOMAIN script
        BY <1>1, <2>2
      <3> QED
        BY <2>3, <2>11, <3>1, <3>2, <3>3 DEF Good
    <2>13. sm_enabled = (\E k \in 1 .. (c + 1) - 1 : Meant(k) = "enable")
      <3>1. (c + 1) - 1 = c
        BY <2>1
      <3> QED
        BY <1>9, <3>1 DEF InStep
    <2>14. sm_inbound_h' = SentSinceEnable((c + 1) + 1) % W
      <3>1. c + 1 \in Nat \ {0}
        BY <2>1
      <3>2. sm_inbound_h = SentSinceEnable(c + 1) % W /\ SentSinceEnable(c + 1) \in Nat
        BY <1>1, <1>9, <3>1, SinceGrows DEF InStep
      <3>3. CASE sm_enabled
        <4>1. SentSinceEnable((c + 1) + 1) = SentSinceEnable(c + 1) + 1
          BY <1>1, <2>10, <2>12, <2>13, <3>1, <3>3, SinceGrows
        <4>2. sm_inbound_h' = (sm_inbound_h + 1) % W
          BY <1>0, <3>3
        <4>3. ((SentSinceEnable(c + 1) % W) + 1) % W = (SentSinceEnable(c + 1) + 1) % W
          BY <1>1, <3>2, CountModulo
        <4> QED
          BY <3>2, <4>1, <4>2, <4>3
      <3>4. CASE ~sm_enabled
        <4>1. SentSinceEnable((c + 1) + 1) = SentSinceEnable(c + 1)
          BY <1>1, <2>10, <2>13, <3>1, <3>4, SinceGrows
        <4> QED
          BY <1>0, <3>2, <3>4, <4>1
      <3> QED
        BY <3>3, <3>4
    <2> DEFINE rec == [to |-> taken + n, what |-> "stanza", h |-> 0]
    <2>15. taken' = taken + n /\ handled' = Append(handled, rec)
      BY <1>0 DEF Take
    <2>16. rec.to = Finish(c + 1) /\ rec.what = Meant(c + 1) /\ rec.what # "r"
      BY <2>6, <2>10
    <2> HIDE DEF rec, n
    <2>17. FramesMatch' /\ AckIsExact' /\ Len(handled') = Rank(c + 1)
      BY <1>0, <2>1, <2>12, <2>15, <2>16, HandledNext
    <2>18. sm_enabled' = (sm_enabled \/ Meant(c + 1) = "enable")
      BY <1>0, <1>1, <2>10 DEF TypeOK
    <2>19. /\ script[c + 1] # "end" /\ taken' = Finish(c + 1)
           /\ state' = After(script[c + 1])
      <3>1. /\ Head(rx_buffer) = "<session" <=> script[c + 1] = "session"
            /\ Head(rx_buffer) = "<restart" <=> script[c + 1] = "restart"
        BY <2>2, FirstSymbol
      <3> QED
        BY <1>0, <2>3, <2>6, <2>15, <3>1 DEF After
    <2>20. InStepOrOver'
      BY <1>0, <1>9, <2>2, <2>11, <2>14, <2>17, <2>18, <2>19, Advance
    <2> QED
      BY <2>17, <2>20
  <1> HIDE DEF n
  <1>10. InStepOrOver' /\ FramesMatch' /\ AckIsExact'
    BY <1>0, <1>8, <1>9, InLoop
  <1> QED
    BY <1>2, <1>6, <1>7, <1>10 DEF IInv

LEMMA RequestAckKeeps ==
    ASSUME StreamAssumption, IInv, RequestAck
    PROVE  IInv'
  <1>0. /\ script' = script /\ text' = text /\ arrived' = arrived /\ taken' = taken
        /\ handled' = handled /\ pc = "idle" /\ pc' = pc /\ open /\ open' = open
        /\ state' = state /\ pushes' = pushes /\ sm_enabled' = sm_enabled
        /\ sm_inbound_h' = sm_inbound_h /\ unasked' = 0
        /\ SendRaw(IF sm_enabled THEN 1 ELSE 0, sm_enabled, sm_outbound_count, FALSE)
    BY DEF RequestAck, wire
  <1>1. TypeOK /\ W \in Nat \ {0} /\ SM_ACK_INTERVAL \in Nat \ {0}
    BY Facts
  <1>2. sm_outbound_count' \in 0 .. W - 1 /\ sm_want_ack' \in BOOLEAN
    <2>1. sm_outbound_count' =
             IF sm_enabled THEN (sm_outbound_count + 1) % W ELSE sm_outbound_count
      BY <1>0 DEF SendRaw
    <2>2. sm_outbound_count \in 0 .. W - 1 /\ sm_outbound_count + 1 \in Nat
      BY <1>1 DEF TypeOK
    <2>3. (sm_outbound_count + 1) % W \in 0 .. W - 1
      BY <1>1, <2>2, Divide
    <2>4. sm_want_ack' \in BOOLEAN
      BY <1>0, Zenon DEF SendRaw
    <2> QED
      BY <2>1, <2>2, <2>3, <2>4
  <1>3. 0 \in 0 .. SM_ACK_INTERVAL /\ DueIsFlagged'
    <2>1. sm_outbound_count' \in Nat
      BY <1>1, <1>2
    <2>2. sm_outbound_count' % SM_ACK_INTERVAL \in 0 .. SM_ACK_INTERVAL - 1
      BY <1>1, <2>1, Divide
    <2> QED
      BY <1>0, <1>1, <2>2 DEF DueIsFlagged
  <1>4. TypeOK'
    BY <1>0, <1>1, <1>2, <1>3 DEF TypeOK
  <1>5. (text = FlattenSeq([i \in DOMAIN script |-> Text[script[i]]]))'
    BY <1>0, Facts, TextKept
  <1>6. InStepOrOver' /\ FramesMatch' /\ AckIsExact'
    BY <1>0, StepsInPlace
  <1> QED
    BY <1>3, <1>4, <1>5, <1>6 DEF IInv

LEMMA PushKeeps ==
    ASSUME StreamAssumption, IInv, Push
    PROVE  IInv'
  <1>0. /\ script' = script /\ text' = text /\ arrived' = arrived /\ taken' = taken
        /\ handled' = handled /\ pc = "idle" /\ pc' = pc /\ open /\ open' = open
        /\ state' = state /\ pushes' = pushes + 1 /\ pushes < MaxPushes
        /\ sm_enabled' = sm_enabled /\ sm_inbound_h' = sm_inbound_h
        /\ SendRaw(1, sm_enabled, sm_outbound_count, sm_want_ack)
        /\ Unasked(1, sm_enabled, unasked)
    BY DEF Push, wire
  <1>1. TypeOK /\ DueIsFlagged /\ MaxPushes \in Nat
    BY Facts
  <1>2. /\ sm_outbound_count' \in 0 .. W - 1 /\ sm_want_ack' \in BOOLEAN
        /\ unasked' \in 0 .. SM_ACK_INTERVAL /\ DueIsFlagged'
    <2>1. /\ sm_want_ack \in BOOLEAN /\ sm_enabled \in BOOLEAN /\ 1 \in Nat
          /\ sm_outbound_count \in 0 .. W - 1 /\ unasked \in 0 .. SM_ACK_INTERVAL
      BY <1>1 DEF TypeOK
    <2>2. sm_want_ack \/ unasked <= sm_outbound_count % SM_ACK_INTERVAL
      BY <1>1 DEF DueIsFlagged
    <2> QED
      BY <1>0, <1>1, <2>1, <2>2, Sends
  <1>3. pushes' \in 0 .. MaxPushes
    BY <1>0, <1>1 DEF TypeOK
  <1>4. TypeOK'
    BY <1>0, <1>1, <1>2, <1>3 DEF TypeOK
  <1>5. (text = FlattenSeq([i \in DOMAIN script |-> Text[script[i]]]))'
    BY <1>0, Facts, TextKept
  <1>6. InStepOrOver' /\ FramesMatch' /\ AckIsExact'
    BY <1>0, StepsInPlace
  <1> QED
    BY <1>2, <1>4, <1>5, <1>6 DEF IInv

----------------------------------------------------------------------------
LEMMA InitOK ==
    ASSUME StreamAssumption, Init
    PROVE  IInv
  <1>1. script \in Seq(Elements)
    BY DEF StreamAssumption, Init
  <1>2. Layout
    BY <1>1, TextLayout DEF Init
  <1>3. /\ W \in Nat \ {0} /\ SM_ACK_INTERVAL \in Nat \ {0} /\ RX_BUFFER \in Nat \ {0}
        /\ MaxPushes \in Nat /\ Len(text) \in Nat /\ Len(script) \in Nat
    BY <1>1, <1>2 DEF StreamAssumption, Layout
  <1>4. TypeOK
    <2>1. 0 \in 0 .. Len(text) /\ 0 \in 0 .. 0 /\ 0 - 0 < RX_BUFFER /\ 0 \in 0 .. W - 1
          /\ 0 \in 0 .. MaxPushes /\ 0 \in 0 .. SM_ACK_INTERVAL
      BY <1>3
    <2>2. handled \in Seq([to : 1 .. Len(text), what : {"stanza", "enable", "r", "a"},
                           h : 0 .. W - 1])
      BY DEF Init
    <2> QED
      BY <2>1, <2>2 DEF TypeOK, Init
  <1>5. Rank(0) = 0 /\ \A i \in Good : Rank(i) \in Nat \ {0}
    BY <1>1, RankIs
  <1>6. handled = <<>> /\ Len(handled) = 0
    BY DEF Init
  <1>7. FramesMatch /\ AckIsExact
    <2>1. \A i \in Good : ~(Rank(i) <= Len(handled))
      BY <1>5, <1>6
    <2> QED
      BY <2>1 DEF FramesMatch, AckIsExact
  <1>8. DueIsFlagged
    <2>1. 0 % SM_ACK_INTERVAL \in 0 .. SM_ACK_INTERVAL - 1
      BY <1>3, Divide
    <2> QED
      BY <1>3, <2>1 DEF DueIsFlagged, Init
  <1>9. InStepOrOver
    <2>1. ~\E k \in 1 .. 0 : TRUE
      OBVIOUS
    <2>2. ~\E k \in 1 .. (0 + 1) - 1 : TRUE
      OBVIOUS
    <2>3. ~InSession(0 + 1)
      BY <2>2 DEF InSession
    <2>4. SentSinceEnable(0 + 1) % W = 0
      <3>1. ASSUME NEW k \in Since(0 + 1) PROVE FALSE
        <4>1. k \in Good /\ k < 0 + 1
          BY <3>1 DEF Since
        <4> QED
          BY <1>1, <4>1, GoodIsFinite
      <3>2. Since(0 + 1) = {}
        BY <3>1
      <3>3. Cardinality(Since(0 + 1)) = 0
        BY <3>2, Pair, Zenon
      <3>4. SentSinceEnable(0 + 1) = 0
        BY <3>3 DEF SentSinceEnable, Since
      <3>5. 0 % W = 0
        <4>1. 0 = W * 0 + 0 /\ 0 \in 0 .. W - 1 /\ 0 \in Nat
          BY <1>3
        <4> QED
          BY <1>3, <4>1, RemainderIs
      <3> QED
        BY <3>4, <3>5
    <2>5. InStep(0)
      BY <1>2, <1>5, <1>6, <2>1, <2>3, <2>4 DEF InStep, Init, Layout
    <2>6. 0 \in 0 .. Len(script)
      BY <1>3
    <2>7. 0 < Len(script) => arrived < Finish(0 + 1)
      <3>1. Finish(0) = 0 /\ taken = Finish(0)
        BY <1>2 DEF Layout, Init
      <3>2. 0 < Len(script) => Finish(0 + 1) = taken + Len(Text[script[0 + 1]])
                               /\ Len(Text[script[0 + 1]]) \in Nat \ {0}
        BY <1>1, <1>2, <1>4, <2>6, <3>1, AtFront
      <3>3. arrived = 0 /\ taken = 0
        BY DEF Init
      <3> QED
        BY <3>2, <3>3
    <2> QED
      BY <2>5, <2>6, <2>7 DEF InStepOrOver
  <1> QED
    BY <1>4, <1>7, <1>8, <1>9 DEF IInv, Init

LEMMA Unchanged ==
    ASSUME StreamAssumption, IInv, UNCHANGED vars
    PROVE  IInv'
  <1>0. /\ script' = script /\ text' = text /\ arrived' = arrived /\ taken' = taken
        /\ handled' = handled /\ pc' = pc /\ open' = open /\ state' = state
        /\ pushes' = pushes /\ sm_enabled' = sm_enabled /\ sm_want_ack' = sm_want_ack
        /\ sm_inbound_h' = sm_inbound_h /\ sm_outbound_count' = sm_outbound_count
        /\ unasked' = unasked
    BY DEF vars
  <1>1. TypeOK'
    BY <1>0, Facts DEF TypeOK
  <1>2. (text = FlattenSeq([i \in DOMAIN script |-> Text[script[i]]]))'
    BY <1>0, Facts, TextKept
  <1>3. FramesMatch' /\ AckIsExact'
    BY <1>0, Facts, HandledKept
  <1>4. InStepOrOver'
    <2>1. CASE pc = "idle" /\ ~open
      BY <1>0, <2>1 DEF InStepOrOver
    <2>2. CASE pc = "idle" => open
      <3>1. pc' # "idle" \/ ~open' \/ (pc = "idle" /\ arrived' = arrived)
        BY <1>0
      <3> QED
        BY <1>0, <2>2, <3>1, StepsInPlace
    <2> QED
      BY <2>1, <2>2
  <1>5. DueIsFlagged'
    BY <1>0, Facts DEF DueIsFlagged
  <1> QED
    BY <1>1, <1>2, <1>3, <1>4, <1>5 DEF IInv

LEMMA Invariance == Spec => []IInv
  <1>1. Init => IInv
    BY InitOK, StreamAssumption
  <1>2. IInv /\ [Next]_vars => IInv'
    <2> SUFFICES ASSUME IInv, [Next]_vars PROVE IInv'
      OBVIOUS
    <2> USE StreamAssumption
    <2>1. CASE Receive
      BY <2>1, RecordKeeps, OverflowKeeps DEF Receive
    <2>2. CASE EndOfSegment
      BY <2>2, EndOfSegmentKeeps
    <2>3. CASE Loop
      <3>1. CASE SkipBlank
        BY <3>1, SkipBlankKeeps
      <3>2. CASE StreamEnd
        BY <3>2, StreamEndKeeps
      <3>3. CASE Enable
        BY <3>3, EnableKeeps
      <3>4. CASE SendAck
        BY <3>4, SendAckKeeps
      <3>5. CASE TakeAck
        BY <3>5, TakeAckKeeps
      <3>6. CASE Stanza
        BY <3>6, StanzaKeeps
      <3>7. CASE Return
        BY <3>7, ReturnKeeps
      <3> QED
        BY <2>3, <3>1, <3>2, <3>3, <3>4, <3>5, <3>6, <3>7 DEF Loop
    <2>4. CASE RequestAck
      BY <2>4, RequestAckKeeps
    <2>5. CASE Push
      BY <2>5, PushKeeps
    <2>6. CASE UNCHANGED vars
      BY <2>6, Unchanged
    <2> QED
      BY <2>1, <2>2, <2>3, <2>4, <2>5, <2>6 DEF Next
  <1> QED
    BY <1>1, <1>2, PTL DEF Spec

(* The variables have their types: the buffer never holds more than it has *)
(* room for, and its NUL, and nothing leaves it that is not there.         *)
THEOREM TypeCorrect == Spec => []TypeOK
  <1>1. IInv => TypeOK
    BY DEF IInv
  <1> QED
    BY <1>1, Invariance, PTL

(* The loop of xmpp_recv_callback: whatever script a client follows, and   *)
(* however TCP and TLS cut it, the elements handled are those sent, in     *)
(* that order, each one whole and taken for what it was sent as; but       *)
(* stream management outside a session is taken for a stanza, also after a *)
(* namespace with "stream" undid the session, and nothing is said from a   *)
(* pair of tags on.                                                        *)
THEOREM Framing == Spec => []FramesMatch
  <1>1. IInv => FramesMatch
    BY DEF IInv
  <1> QED
    BY <1>1, Invariance, PTL

(* xmpp_sm_send_ack: the number in every <a/> is that of the stanzas sent  *)
(* since <enable/> and before the request, modulo the counter's width; an  *)
(* element of stream management sent outside a session counts as a stanza. *)
THEOREM AckNumber == Spec => []AckIsExact
  <1>1. IInv => AckIsExact
    BY DEF IInv
  <1> QED
    BY <1>1, Invariance, PTL

(* xmpp_recv_callback returns only when no complete element is left. *)
THEOREM NothingLeft == Spec => []NothingWaits
  <1>1. IInv => NothingWaits
    <2> SUFFICES ASSUME IInv, pc = "idle", open
                 PROVE  Len(handled) >= Cardinality({i \in Good : Finish(i) <= arrived})
      BY DEF NothingWaits
    <2> USE StreamAssumption
    <2> DEFINE There == {i \in Good : Finish(i) <= arrived}
    <2>1. script \in Seq(Elements) /\ Layout /\ TypeOK /\ Len(handled) \in Nat
      BY Facts
    <2>2. /\ Good \subseteq 1 .. Len(script) /\ IsFiniteSet(Good) /\ Cardinality(Good) \in Nat
          /\ \A S : S \subseteq Good => IsFiniteSet(S) /\ Cardinality(S) \in Nat
      BY <2>1, GoodIsFinite
    <2>3. There \subseteq Good
      OBVIOUS
    <2>4. Cardinality(There) \in Nat
      BY <2>2, <2>3, Zenon
    <2>5. CASE Len(handled) > Cardinality(Good)
      <3>1. Cardinality(There) <= Cardinality(Good)
        BY <2>2, <2>3, FS_Subset
      <3> HIDE DEF There
      <3>2. Len(handled) >= Cardinality(There)
        BY <2>1, <2>2, <2>4, <2>5, <3>1
      <3> QED
        BY <3>2 DEF There
    <2>6. ASSUME NEW c \in 0 .. Len(script), InStep(c),
                 c < Len(script) => arrived < Finish(c + 1)
          PROVE  Len(handled) >= Cardinality(There)
      <3>1. c \in Nat /\ Len(script) \in Nat /\ Len(handled) = Rank(c)
        BY <2>1, <2>6 DEF InStep
      <3>2. ASSUME NEW i \in There PROVE i <= c
        <4>1. i \in Good /\ i \in 1 .. Len(script) /\ Finish(i) <= arrived
          BY <2>2
        <4>2. CASE c < Len(script) /\ ~(i <= c)
          <5>1. c + 1 <= i /\ c + 1 \in 0 .. Len(script) /\ i \in 0 .. Len(script)
            BY <3>1, <4>1, <4>2
          <5>2. Finish(c + 1) <= Finish(i) /\ Finish(c + 1) \in Nat /\ Finish(i) \in Nat
            BY <2>1, <5>1 DEF Layout
          <5>3. arrived \in Nat /\ arrived < Finish(c + 1)
            BY <2>1, <2>6, <4>2 DEF TypeOK, Layout
          <5> QED
            BY <4>1, <5>2, <5>3
        <4> QED
          BY <3>1, <4>1, <4>2
      <3>3. There \subseteq Upto(c) /\ Upto(c) \subseteq Good
        BY <3>2 DEF Upto
      <3>4. IsFiniteSet(Upto(c)) /\ Cardinality(Upto(c)) = Rank(c)
        BY <2>2, <3>3 DEF Rank, Upto
      <3>5. Cardinality(There) <= Cardinality(Upto(c))
        BY <3>3, <3>4, FS_Subset
      <3> HIDE DEF There
      <3> QED
        BY <2>1, <2>4, <3>1, <3>4, <3>5
    <2> QED
      BY <2>5, <2>6, Facts DEF InStepOrOver
  <1> QED
    BY <1>1, Invariance, PTL

(* xmpp_sm_on_stanza_sent: when SM_ACK_INTERVAL stanzas went out since the *)
(* last request, sm_want_ack is set, also where the count wraps.           *)
THEOREM RequestDue == Spec => [](unasked = SM_ACK_INTERVAL => sm_want_ack)
  <1>1. IInv => (unasked = SM_ACK_INTERVAL => sm_want_ack)
    <2> SUFFICES ASSUME IInv, unasked = SM_ACK_INTERVAL, ~sm_want_ack PROVE FALSE
      OBVIOUS
    <2> USE StreamAssumption
    <2>1. TypeOK /\ DueIsFlagged /\ SM_ACK_INTERVAL \in Nat \ {0} /\ W \in Nat \ {0}
      BY Facts
    <2>2. sm_outbound_count \in Nat
      BY <2>1 DEF TypeOK
    <2>3. sm_outbound_count % SM_ACK_INTERVAL \in 0 .. SM_ACK_INTERVAL - 1
      BY <2>1, <2>2, Divide
    <2>4. unasked <= sm_outbound_count % SM_ACK_INTERVAL
      BY <2>1 DEF DueIsFlagged
    <2> QED
      BY <2>1, <2>3, <2>4
  <1> QED
    BY <1>1, Invariance, PTL

=============================================================================
