-------------------------- MODULE Expressions_proofs --------------------------
(***************************************************************************)
(* Theorems about Expressions, for all expressions of whatever depth, any  *)
(* number of SET clauses and all objects.                                  *)
(***************************************************************************)
EXTENDS Expressions, Recursion_proofs, FiniteSetTheorems, SequenceTheorems

------------------------------------------------------------------------------
(* Expressions.                                                              *)

(* An expression ranks above its parts. *)
Rank == [e \in Expressions |-> CHOOSE d \in DOMAIN Levels :
                                 e \in Levels[d] /\ \A b \in 1..d - 1 : e \notin Levels[b]]

LEMMA LevelsNumbered ==
  /\ Len(Levels) \in Nat /\ DOMAIN Levels = 1..Len(Levels)
  /\ Expressions = UNION {Levels[d] : d \in 1..Len(Levels)}
  BY LevelsAssumption DEF Expressions, UpTo

LEMMA RankLeast ==
  ASSUME NEW e \in Expressions
  PROVE  /\ Rank[e] \in DOMAIN Levels /\ e \in Levels[Rank[e]]
         /\ \A b \in 1..Rank[e] - 1 : e \notin Levels[b]
<1> DEFINE D == {d \in DOMAIN Levels : e \in Levels[d]}
<1>1. PICK n \in Nat : n = Len(Levels) /\ DOMAIN Levels = 1..n
  BY LevelsNumbered, ZenonT(30)
<1>2. D \subseteq Nat /\ D # {}
  BY <1>1, LevelsNumbered
<1>3. PICK d \in D : \A b \in D : d <= b
  <2> HIDE DEF D
  <2> QED
    BY <1>2, LeastNumber
<1>4. d \in DOMAIN Levels /\ e \in Levels[d] /\ \A b \in 1..d - 1 : e \notin Levels[b]
  BY <1>1, <1>3
<1> HIDE DEF D
<1> QED
  BY <1>4, SMTT(30) DEF Rank

LEMMA RankOfPart ==
  ASSUME NEW e \in Expressions, NEW x \in UpTo(Rank[e] - 1)
  PROVE  x \in Expressions /\ Rank[x] < Rank[e]
<1>1. PICK n \in Nat : n = Len(Levels) /\ DOMAIN Levels = 1..n
  BY LevelsNumbered
<1>2. Rank[e] \in 1..n
  BY <1>1, RankLeast
<1>3. PICK b \in 1..Rank[e] - 1 : x \in Levels[b]
  BY DEF UpTo
<1>4. b \in 1..n
  BY <1>2, <1>3
<1>5. x \in Expressions
  BY <1>1, <1>3, <1>4, LevelsNumbered
<1>6. Rank[x] \in 1..n /\ \A c \in 1..Rank[x] - 1 : x \notin Levels[c]
  BY <1>1, <1>5, RankLeast
<1>7. Rank[x] <= b
  BY <1>3, <1>4, <1>6
<1> QED
  BY <1>2, <1>3, <1>5, <1>6, <1>7

LEMMA ExpressionsRanked == Ranked(Rank, Expressions)
<1>1. PICK n \in Nat : n = Len(Levels) /\ DOMAIN Levels = 1..n
  BY LevelsNumbered, ZenonT(30)
<1>2. \A e \in Expressions : Rank[e] \in 0..n
  BY <1>1, RankLeast
<1>3. Rank = [e \in Expressions |-> Rank[e]]
  BY DEF Rank
<1> QED
  BY <1>2, <1>3, SMTT(30) DEF Ranked

(* What an expression is. *)
Literals == {"=", "AND", "OR", "IS_NULL"}

IsColumn(e)    == \E c \in Columns : e = Column(c)
IsParameter(e) == \E o \in Objects : e = Parameter(o)
IsBinary(e)    == /\ e = Binary(e.lhs, e.of, e.rhs) /\ e.of \in Literals
                  /\ e.lhs \in Expressions /\ Rank[e.lhs] < Rank[e]
                  /\ e.rhs \in Expressions /\ Rank[e.rhs] < Rank[e]
IsUnary(e)     == /\ e = Unary(e.operand, "IS_NULL")
                  /\ e.operand \in Expressions /\ Rank[e.operand] < Rank[e]

LEMMA Shapes ==
  ASSUME NEW e \in Expressions
  PROVE  IsColumn(e) \/ IsParameter(e) \/ IsBinary(e) \/ IsUnary(e)
<1> DEFINE d == Rank[e]
<1>1. BuiltOf(e, UpTo(d - 1))
  BY RankLeast, LevelsAssumption
<1>2. CASE e \in Operands
  BY <1>2 DEF Operands, IsColumn, IsParameter
<1>3. CASE e = Binary(e.lhs, e.of, e.rhs) /\ {e.lhs, e.rhs} \subseteq UpTo(d - 1)
           /\ (e.of = "=" \/ e.of \in {"AND", "OR"})
  BY <1>3, RankOfPart DEF IsBinary, Literals
<1>4. CASE e = Unary(e.operand, "IS_NULL") /\ e.operand \in UpTo(d - 1)
  BY <1>4, RankOfPart DEF IsUnary
<1> QED
  BY <1>1, <1>2, <1>3, <1>4 DEF BuiltOf

LEMMA CaseOfShape ==
  ASSUME NEW e
  PROVE  /\ IsColumn(e) => e.is = "column" /\ e.of \in Columns
         /\ IsParameter(e) => e.is = "parameter" /\ e.of \in Objects
         /\ IsBinary(e) => e.is = "binary"
         /\ IsUnary(e) => e.is = "unary" /\ e.of \in Literals
<1>1. IsColumn(e) => e.is = "column" /\ e.of \in Columns
  BY DEF IsColumn, Column
<1>2. IsParameter(e) => e.is = "parameter" /\ e.of \in Objects
  BY DEF IsParameter, Parameter
<1>3. ASSUME NEW l, NEW o, NEW r PROVE Binary(l, o, r).is = "binary"
  BY DEF Binary
<1>4. ASSUME NEW x, NEW o PROVE Unary(x, o).is = "unary" /\ Unary(x, o).of = o
  BY DEF Unary
<1>5. IsBinary(e) => e.is = "binary"
  BY <1>3 DEF IsBinary
<1>6. IsUnary(e) => e.is = "unary" /\ e.of \in Literals
  <2>1. /\ Unary(e.operand, "IS_NULL").is = "unary"
        /\ Unary(e.operand, "IS_NULL").of \in Literals
    BY <1>4 DEF Literals
  <2> QED
    BY <2>1 DEF IsUnary
<1> QED
  BY <1>1, <1>2, <1>5, <1>6

------------------------------------------------------------------------------
(* Formatting.                                                               *)

TextTokens == [is : {"column", "parameter", "literal", "(", ")"},
               of : Columns \cup Nat \cup Literals \cup {Null}]
Formats    == [Nat -> [text : Seq(TextTokens), next : Nat]]

(* The text of an expression, by what is made of its parts. *)
FormatOf(f, e) ==
  [i \in Nat |->
     CASE e.is = "column"    -> [text |-> Word("column", e.of), next |-> i]
       [] e.is = "parameter" -> [text |-> Word("parameter", i), next |-> i + 1]
       [] e.is = "binary" ->
            LET l == f[e.lhs][i]
                r == f[e.rhs][l.next]
            IN  [text |-> Bracketed(l.text \o Word("literal", e.of) \o r.text),
                 next |-> r.next]
       [] e.is = "unary" ->
            LET t == f[e.operand][i]
            IN  [text |-> Bracketed(t.text \o Word("literal", e.of)), next |-> t.next]]

LEMMA WordTyped ==
  ASSUME NEW S, NEW is, NEW of, Token(is, of) \in S
  PROVE  Word(is, of) \in Seq(S) /\ Len(Word(is, of)) = 1 /\ Word(is, of)[1] = Token(is, of)
  BY DEF Word

LEMMA WordsTyped ==
  /\ \A c \in Columns : Word("column", c) \in Seq(TextTokens)
  /\ \A n \in Nat : Word("parameter", n) \in Seq(TextTokens)
  /\ \A l \in Literals : Word("literal", l) \in Seq(TextTokens)
  /\ \A t \in Seq(TextTokens) : Bracketed(t) \in Seq(TextTokens)
<1>1. /\ \A c \in Columns : Token("column", c) \in TextTokens
      /\ \A n \in Nat : Token("parameter", n) \in TextTokens
      /\ \A l \in Literals : Token("literal", l) \in TextTokens
      /\ Token("(", Null) \in TextTokens /\ Token(")", Null) \in TextTokens
  BY DEF Token, TextTokens
<1>2. Word("(", Null) \in Seq(TextTokens) /\ Word(")", Null) \in Seq(TextTokens)
  BY <1>1, WordTyped
<1>3. ASSUME NEW t \in Seq(TextTokens) PROVE Bracketed(t) \in Seq(TextTokens)
  <2>1. Word("(", Null) \o t \in Seq(TextTokens)
    BY <1>2
  <2> QED
    BY <1>2, <2>1 DEF Bracketed
<1> QED
  BY <1>1, <1>3, WordTyped

LEMMA FormatOfTyped ==
  ASSUME NEW f, NEW e \in Expressions,
         \A x \in Expressions : Rank[x] < Rank[e] => f[x] \in Formats
  PROVE  FormatOf(f, e) \in Formats
<1> SUFFICES ASSUME NEW i \in Nat
             PROVE  FormatOf(f, e)[i] \in [text : Seq(TextTokens), next : Nat]
  BY DEF FormatOf, Formats
<1>1. CASE IsColumn(e)
  <2>1. FormatOf(f, e)[i] = [text |-> Word("column", e.of), next |-> i]
    BY <1>1, CaseOfShape DEF FormatOf
  <2> QED
    BY <1>1, <2>1, CaseOfShape, WordsTyped
<1>2. CASE IsParameter(e)
  <2>1. FormatOf(f, e)[i] = [text |-> Word("parameter", i), next |-> i + 1]
    BY <1>2, CaseOfShape DEF FormatOf
  <2> QED
    BY <2>1, WordsTyped
<1>3. CASE IsBinary(e)
  <2> DEFINE l == f[e.lhs][i]
             r == f[e.rhs][l.next]
             t == l.text \o Word("literal", e.of) \o r.text
  <2>1. FormatOf(f, e)[i] = [text |-> Bracketed(t), next |-> r.next]
    BY <1>3, CaseOfShape DEF FormatOf
  <2>2. l.text \in Seq(TextTokens) /\ l.next \in Nat
    BY <1>3 DEF IsBinary, Formats
  <2>3. r.text \in Seq(TextTokens) /\ r.next \in Nat
    BY <1>3, <2>2 DEF IsBinary, Formats
  <2>4. Word("literal", e.of) \in Seq(TextTokens)
    BY <1>3, WordsTyped DEF IsBinary
  <2> HIDE DEF l, r
  <2>5. t \in Seq(TextTokens)
    BY <2>2, <2>3, <2>4
  <2> HIDE DEF t
  <2> QED
    BY <2>1, <2>3, <2>5, WordsTyped
<1>4. CASE IsUnary(e)
  <2> DEFINE u == f[e.operand][i]
             t == u.text \o Word("literal", e.of)
  <2>1. FormatOf(f, e)[i] = [text |-> Bracketed(t), next |-> u.next]
    BY <1>4, CaseOfShape DEF FormatOf
  <2>2. u.text \in Seq(TextTokens) /\ u.next \in Nat
    BY <1>4 DEF IsUnary, Formats
  <2>3. Word("literal", e.of) \in Seq(TextTokens)
    BY <1>4, CaseOfShape, WordsTyped
  <2> HIDE DEF u
  <2>4. t \in Seq(TextTokens)
    BY <2>2, <2>3
  <2> HIDE DEF t
  <2> QED
    BY <2>1, <2>2, <2>4, WordsTyped
<1> QED
  BY <1>1, <1>2, <1>3, <1>4, Shapes, SMTT(30)

LEMMA FormatOfSame ==
  ASSUME NEW f, NEW g, NEW e \in Expressions,
         \A x \in Expressions : Rank[x] < Rank[e] => f[x] = g[x]
  PROVE  FormatOf(f, e) = FormatOf(g, e)
<1>1. CASE IsColumn(e) \/ IsParameter(e)
  BY <1>1, CaseOfShape DEF FormatOf
<1>2. CASE IsBinary(e)
  <2>1. f[e.lhs] = g[e.lhs] /\ f[e.rhs] = g[e.rhs]
    BY <1>2 DEF IsBinary
  <2> QED
    BY <1>2, <2>1, CaseOfShape DEF FormatOf
<1>3. CASE IsUnary(e)
  <2>1. f[e.operand] = g[e.operand]
    BY <1>3, SMTT(30) DEF IsUnary
  <2> QED
    BY <1>3, <2>1, CaseOfShape DEF FormatOf
<1> QED
  BY <1>1, <1>2, <1>3, Shapes

(* There is such a function as format_expression. *)
LEMMA FormatEquation == Format = [e \in Expressions |-> FormatOf(Format, e)]
<1> DEFINE S == Expressions
           G == [a \in [S -> Formats] \X S |-> FormatOf(a[1], a[2])]
<1>1. ASSUME NEW f \in [S -> Formats], NEW e \in S PROVE FormatOf(f, e) \in Formats
  BY FormatOfTyped
<1>2. G \in [[S -> Formats] \X S -> Formats]
  BY <1>1
<1>3. ASSUME NEW f \in [S -> Formats], NEW g \in [S -> Formats], NEW e \in S,
             \A x \in S : Rank[x] < Rank[e] => f[x] = g[x]
      PROVE  G[<<f, e>>] = G[<<g, e>>]
  BY <1>3, FormatOfSame
<1>4. Formats # {}
  <2>1. [n \in Nat |-> [text |-> << >>, next |-> n]] \in Formats
    BY DEF Formats
  <2> QED
    BY <2>1
<1>5. IsStep(G, S, Formats, Rank)
  <2> HIDE DEF G
  <2> QED
    BY <1>2, <1>3 DEF IsStep
<1>6. PICK f \in [S -> Formats] : \A e \in S : f[e] = G[<<f, e>>]
  <2> HIDE DEF G
  <2> QED
    BY <1>4, <1>5, ExpressionsRanked, BoundedRecursion
<1>7. f = [e \in S |-> FormatOf(f, e)]
  BY <1>6
<1> QED
  BY <1>7 DEF Format, FormatOf

LEMMA FormatTyped == \A e \in Expressions : Format[e] \in Formats
<1> DEFINE H == {e \in Expressions : Format[e] \in Formats}
<1>1. ASSUME NEW e \in Expressions, \A x \in Expressions : Rank[x] < Rank[e] => x \in H
      PROVE  e \in H
  <2>1. FormatOf(Format, e) \in Formats
    BY <1>1, FormatOfTyped
  <2> QED
    BY <2>1, FormatEquation
<1>2. Expressions \subseteq H
  <2> HIDE DEF H
  <2> QED
    BY <1>1, ExpressionsRanked, RankInduction
<1> QED
  BY <1>2

LEMMA Formatted ==
  ASSUME NEW e \in Expressions, NEW i \in Nat
  PROVE  /\ Format[e][i].text \in Seq(TextTokens) /\ Format[e][i].next \in Nat
         /\ IsColumn(e) => Format[e][i] = [text |-> Word("column", e.of), next |-> i]
         /\ IsParameter(e) =>
              Format[e][i] = [text |-> Word("parameter", i), next |-> i + 1]
         /\ IsBinary(e) =>
              LET l == Format[e.lhs][i]
                  r == Format[e.rhs][l.next]
              IN  Format[e][i] =
                    [text |-> Bracketed(l.text \o Word("literal", e.of) \o r.text),
                     next |-> r.next]
         /\ IsUnary(e) =>
              LET u == Format[e.operand][i]
              IN  Format[e][i] =
                    [text |-> Bracketed(u.text \o Word("literal", e.of)), next |-> u.next]
<1>1. Format[e] = FormatOf(Format, e)
  BY FormatEquation
<1>2. Format[e][i].text \in Seq(TextTokens) /\ Format[e][i].next \in Nat
  BY FormatTyped DEF Formats
<1>3. IsColumn(e) => FormatOf(Format, e)[i] = [text |-> Word("column", e.of), next |-> i]
  BY CaseOfShape DEF FormatOf
<1>4. IsParameter(e) =>
        FormatOf(Format, e)[i] = [text |-> Word("parameter", i), next |-> i + 1]
  BY CaseOfShape DEF FormatOf
<1>5. IsBinary(e) =>
        LET l == Format[e.lhs][i]
            r == Format[e.rhs][l.next]
        IN  FormatOf(Format, e)[i] =
              [text |-> Bracketed(l.text \o Word("literal", e.of) \o r.text), next |-> r.next]
  BY CaseOfShape DEF FormatOf
<1>6. IsUnary(e) =>
        LET u == Format[e.operand][i]
        IN  FormatOf(Format, e)[i] =
              [text |-> Bracketed(u.text \o Word("literal", e.of)), next |-> u.next]
  BY CaseOfShape DEF FormatOf
<1> QED
  BY <1>1, <1>2, <1>3, <1>4, <1>5, <1>6

LEMMA NextIndex ==
  ASSUME NEW e \in Expressions, NEW i \in Nat
  PROVE  /\ IsColumn(e) => Format[e][i].next = i
         /\ IsParameter(e) => Format[e][i].next = i + 1
         /\ IsBinary(e) => Format[e][i].next = Format[e.rhs][Format[e.lhs][i].next].next
         /\ IsUnary(e) => Format[e][i].next = Format[e.operand][i].next
<1>2. IsColumn(e) => Format[e][i].next = i
  <2> SUFFICES ASSUME IsColumn(e) PROVE Format[e][i].next = i
    OBVIOUS
  <2>1. Format[e][i] = [text |-> Word("column", e.of), next |-> i]
    BY Formatted
  <2> QED
    BY <2>1
<1>3. IsParameter(e) => Format[e][i].next = i + 1
  <2> SUFFICES ASSUME IsParameter(e) PROVE Format[e][i].next = i + 1
    OBVIOUS
  <2>1. Format[e][i] = [text |-> Word("parameter", i), next |-> i + 1]
    BY Formatted
  <2> QED
    BY <2>1
<1>4. IsBinary(e) => Format[e][i].next = Format[e.rhs][Format[e.lhs][i].next].next
  <2> SUFFICES ASSUME IsBinary(e)
               PROVE  Format[e][i].next = Format[e.rhs][Format[e.lhs][i].next].next
    BY SMTT(30)
  <2> DEFINE l == Format[e.lhs][i]
             r == Format[e.rhs][l.next]
  <2>1. Format[e][i] = [text |-> Bracketed(l.text \o Word("literal", e.of) \o r.text),
                        next |-> r.next]
    BY Formatted, ZenonT(30)
  <2> QED
    BY <2>1
<1>5. IsUnary(e) => Format[e][i].next = Format[e.operand][i].next
  <2> SUFFICES ASSUME IsUnary(e) PROVE Format[e][i].next = Format[e.operand][i].next
    OBVIOUS
  <2> DEFINE u == Format[e.operand][i]
  <2>1. Format[e][i] = [text |-> Bracketed(u.text \o Word("literal", e.of)),
                        next |-> u.next]
    BY Formatted, ZenonT(30)
  <2> QED
    BY <2>1
<1> QED
  BY <1>2, <1>3, <1>4, <1>5

LEMMA UnaryText ==
  ASSUME NEW e \in Expressions, NEW i \in Nat, IsUnary(e)
  PROVE  Format[e][i].text
           = Bracketed(Format[e.operand][i].text \o Word("literal", e.of))
<1> DEFINE u == Format[e.operand][i]
<1>1. Format[e][i] = [text |-> Bracketed(u.text \o Word("literal", e.of)),
                      next |-> u.next]
  BY Formatted, ZenonT(30)
<1> QED
  BY <1>1

LEMMA BinaryText ==
  ASSUME NEW e \in Expressions, NEW i \in Nat, IsBinary(e)
  PROVE  Format[e][i].text
           = Bracketed(Format[e.lhs][i].text \o Word("literal", e.of)
                       \o Format[e.rhs][Format[e.lhs][i].next].text)
<1> DEFINE l == Format[e.lhs][i]
           r == Format[e.rhs][l.next]
<1>1. Format[e][i] = [text |-> Bracketed(l.text \o Word("literal", e.of) \o r.text),
                      next |-> r.next]
  BY Formatted, ZenonT(30)
<1> QED
  BY <1>1

LEMMA TextsJoined ==
  ASSUME NEW s \in Seq(TextTokens), NEW t \in Seq(TextTokens)
  PROVE  /\ s \o t \in Seq(TextTokens) /\ Len(s \o t) = Len(s) + Len(t)
         /\ Len(s) \in Nat /\ Len(t) \in Nat
  OBVIOUS

------------------------------------------------------------------------------
(* The order of the parameters.                                              *)

(* A text names i, i + 1, ... in this order, up to n - 1. *)
Numbered(t, i, n) ==
  /\ t \in Seq(TextTokens) /\ i \in Nat /\ n \in Nat /\ i <= n
  /\ \A p \in 0..Len(t) : \E c \in i..n : NamesIn(t, p) = i..c - 1
  /\ NamesIn(t, Len(t)) = i..n - 1

LEMMA NumberedWord ==
  ASSUME NEW is, NEW of, Token(is, of) \in TextTokens, is # "parameter", NEW i \in Nat
  PROVE  Numbered(Word(is, of), i, i)
<1> DEFINE w == Word(is, of)
<1>1. w \in Seq(TextTokens) /\ Len(w) = 1 /\ w[1] = Token(is, of)
  BY WordTyped
<1>2. w[1].is # "parameter"
  BY <1>1 DEF Token
<1> HIDE DEF w
<1>3. ASSUME NEW p \in 0..1 PROVE NamesIn(w, p) = {}
  <2>1. \A k \in 1..p : k = 1
    OBVIOUS
  <2> QED
    BY <1>2, <2>1 DEF NamesIn
<1>4. i..i - 1 = {} /\ i \in i..i /\ i <= i
  OBVIOUS
<1>5. \A p \in 0..Len(w) : \E c \in i..i : NamesIn(w, p) = i..c - 1
  BY <1>1, <1>3, <1>4
<1>6. NamesIn(w, Len(w)) = i..i - 1
  <2>1. NamesIn(w, 1) = {}
    BY <1>3
  <2> QED
    BY <1>1, <1>4, <2>1
<1>7. Numbered(w, i, i)
  BY <1>1, <1>4, <1>5, <1>6 DEF Numbered
<1> QED
  BY <1>7 DEF w

LEMMA NumberedParameter ==
  ASSUME NEW i \in Nat
  PROVE  Numbered(Word("parameter", i), i, i + 1)
<1> DEFINE w == Word("parameter", i)
<1>1. Token("parameter", i) \in TextTokens
  BY DEF Token, TextTokens
<1>2. w \in Seq(TextTokens) /\ Len(w) = 1 /\ w[1] = Token("parameter", i)
  BY <1>1, WordTyped
<1>3. w[1].is = "parameter" /\ w[1].of = i
  BY <1>2 DEF Token
<1> HIDE DEF w
<1>4. NamesIn(w, 0) = {}
  BY DEF NamesIn
<1>5. NamesIn(w, 1) = {i}
  <2>1. {k \in 1..1 : w[k].is = "parameter"} = {1}
    BY <1>3
  <2> QED
    BY <1>3, <2>1 DEF NamesIn
<1>6. i..i - 1 = {} /\ i..(i + 1) - 1 = {i} /\ i \in i..i + 1 /\ i + 1 \in i..i + 1
  OBVIOUS
<1>7. \A p \in 0..1 : p = 0 \/ p = 1
  OBVIOUS
<1>8. \A p \in 0..Len(w) : \E c \in i..i + 1 : NamesIn(w, p) = i..c - 1
  BY <1>2, <1>4, <1>5, <1>6, <1>7
<1>9. NamesIn(w, Len(w)) = i..(i + 1) - 1
  BY <1>2, <1>5, <1>6
<1>10. Numbered(w, i, i + 1)
  BY <1>2, <1>8, <1>9 DEF Numbered
<1> QED
  BY <1>10 DEF w

LEMMA NamesOfConcat ==
  ASSUME NEW s \in Seq(TextTokens), NEW t \in Seq(TextTokens)
  PROVE  /\ \A p \in 0..Len(s) : NamesIn(s \o t, p) = NamesIn(s, p)
         /\ \A p \in 0..Len(t) :
              NamesIn(s \o t, Len(s) + p) = NamesIn(s, Len(s)) \cup NamesIn(t, p)
<1> DEFINE u == s \o t
<1>1. PICK a \in Nat, b \in Nat : a = Len(s) /\ b = Len(t)
  OBVIOUS
<1>2. \A k \in 1..a + b : u[k] = IF k <= a THEN s[k] ELSE t[k - a]
  BY <1>1, ConcatProperties
<1>3. /\ \A k \in 1..a : u[k] = s[k]
      /\ \A k \in 1..b : u[a + k] = t[k]
  <2>1. \A k \in 1..a : k \in 1..a + b /\ k <= a
    OBVIOUS
  <2>2. \A k \in 1..b : a + k \in 1..a + b /\ ~(a + k <= a) /\ (a + k) - a = k
    OBVIOUS
  <2> HIDE DEF u
  <2> QED
    BY <1>2, <2>1, <2>2
<1> HIDE DEF u
<1> DEFINE Found(v, p) == {k \in 1..p : v[k].is = "parameter"}
<1>4. ASSUME NEW p \in 0..a PROVE NamesIn(u, p) = NamesIn(s, p)
  <2>1. \A k \in 1..p : u[k] = s[k]
    BY <1>3
  <2>2. Found(u, p) = Found(s, p)
    BY <2>1
  <2>3. \A k \in Found(s, p) : u[k] = s[k]
    BY <2>1
  <2> HIDE DEF Found
  <2>4. {u[k].of : k \in Found(u, p)} = {s[k].of : k \in Found(s, p)}
    BY <2>2, <2>3
  <2> QED
    BY <2>4 DEF NamesIn, Found
<1>5. ASSUME NEW p \in 0..b PROVE NamesIn(u, a + p) = NamesIn(s, a) \cup NamesIn(t, p)
  <2>1. ASSUME NEW n \in NamesIn(u, a + p) PROVE n \in NamesIn(s, a) \cup NamesIn(t, p)
    <3>1. PICK k \in 1..a + p : u[k].is = "parameter" /\ u[k].of = n
      BY DEF NamesIn
    <3>2. CASE k <= a
      <4>1. k \in 1..a /\ u[k] = s[k]
        BY <1>3, <3>2
      <4> QED
        BY <3>1, <4>1 DEF NamesIn
    <3>3. CASE k > a
      <4>1. k - a \in 1..p /\ k - a \in 1..b /\ a + (k - a) = k
        BY <3>3
      <4>2. u[k] = t[k - a]
        BY <1>3, <4>1
      <4> QED
        BY <3>1, <4>1, <4>2 DEF NamesIn
    <3> QED
      BY <3>2, <3>3
  <2>2. ASSUME NEW n \in NamesIn(s, a) PROVE n \in NamesIn(u, a + p)
    <3>1. PICK k \in 1..a : s[k].is = "parameter" /\ s[k].of = n
      BY DEF NamesIn
    <3>2. k \in 1..a + p /\ u[k] = s[k]
      BY <1>3
    <3> QED
      BY <3>1, <3>2 DEF NamesIn
  <2>3. ASSUME NEW n \in NamesIn(t, p) PROVE n \in NamesIn(u, a + p)
    <3>1. PICK k \in 1..p : t[k].is = "parameter" /\ t[k].of = n
      BY DEF NamesIn
    <3>2. a + k \in 1..a + p /\ u[a + k] = t[k]
      BY <1>3
    <3> QED
      BY <3>1, <3>2 DEF NamesIn
  <2> QED
    BY <2>1, <2>2, <2>3
<1> QED
  BY <1>1, <1>4, <1>5 DEF u

LEMMA NumberedConcat ==
  ASSUME NEW s, NEW t, NEW i, NEW m, NEW n, Numbered(s, i, m), Numbered(t, m, n)
  PROVE  Numbered(s \o t, i, n)
<1>1. /\ s \in Seq(TextTokens) /\ t \in Seq(TextTokens) /\ s \o t \in Seq(TextTokens)
      /\ i \in Nat /\ m \in Nat /\ n \in Nat /\ i <= m /\ m <= n
  BY DEF Numbered
<1>2. PICK a \in Nat, b \in Nat : a = Len(s) /\ b = Len(t) /\ Len(s \o t) = a + b
  BY <1>1
<1>3. NamesIn(s, a) = i..m - 1 /\ NamesIn(t, b) = m..n - 1
  BY <1>2 DEF Numbered
<1>4. ASSUME NEW p \in 0..b, NEW c \in m..n, NamesIn(t, p) = m..c - 1
      PROVE  NamesIn(s \o t, a + p) = i..c - 1
  <2>1. (i..m - 1) \cup (m..c - 1) = i..c - 1
    BY <1>1
  <2>2. NamesIn(s \o t, a + p) = NamesIn(s, a) \cup NamesIn(t, p)
    BY <1>1, <1>2, NamesOfConcat
  <2> QED
    BY <1>3, <1>4, <2>1, <2>2
<1>5. ASSUME NEW p \in 0..a + b PROVE \E c \in i..n : NamesIn(s \o t, p) = i..c - 1
  <2>1. CASE p <= a
    <3>1. p \in 0..a
      BY <2>1
    <3>2. PICK c \in i..m : NamesIn(s, p) = i..c - 1
      BY <1>2, <3>1 DEF Numbered
    <3>3. NamesIn(s \o t, p) = NamesIn(s, p)
      BY <1>1, <1>2, <3>1, NamesOfConcat
    <3>4. c \in i..n
      BY <1>1
    <3> QED
      BY <3>2, <3>3, <3>4
  <2>2. CASE p > a
    <3>1. PICK q \in 0..b : p = a + q
      <4>1. p - a \in 0..b /\ p = a + (p - a)
        BY <2>2
      <4> QED
        BY <4>1
    <3>2. PICK c \in m..n : NamesIn(t, q) = m..c - 1
      BY <1>2 DEF Numbered
    <3>3. NamesIn(s \o t, p) = i..c - 1
      BY <1>4, <3>1, <3>2
    <3>4. c \in i..n
      BY <1>1
    <3> QED
      BY <3>3, <3>4
  <2> QED
    BY <2>1, <2>2
<1>6. NamesIn(s \o t, a + b) = i..n - 1
  <2>1. b \in 0..b /\ n \in m..n
    BY <1>1
  <2> QED
    BY <1>3, <1>4, <2>1
<1> QED
  BY <1>1, <1>2, <1>5, <1>6 DEF Numbered

LEMMA NumberedBracketed ==
  ASSUME NEW t, NEW i, NEW n, Numbered(t, i, n)
  PROVE  Numbered(Bracketed(t), i, n)
<1>1. Token("(", Null) \in TextTokens /\ Token(")", Null) \in TextTokens
  BY DEF Token, TextTokens
<1>2. i \in Nat /\ n \in Nat
  BY DEF Numbered
<1>3. Numbered(Word("(", Null), i, i) /\ Numbered(Word(")", Null), n, n)
  BY <1>1, <1>2, NumberedWord
<1>4. Numbered(Word("(", Null) \o t, i, n)
  BY <1>3, NumberedConcat
<1> QED
  BY <1>3, <1>4, NumberedConcat DEF Bracketed

(* format_expression numbers the parameters in the order it writes them. *)
LEMMA FormatNumbered ==
  \A e \in Expressions, i \in Nat : Numbered(Format[e][i].text, i, Format[e][i].next)
<1> DEFINE H == {e \in Expressions : \A i \in Nat :
                   Numbered(Format[e][i].text, i, Format[e][i].next)}
<1>1. ASSUME NEW e \in Expressions, \A x \in Expressions : Rank[x] < Rank[e] => x \in H,
             NEW i \in Nat
      PROVE  Numbered(Format[e][i].text, i, Format[e][i].next)
  <2>1. CASE IsColumn(e)
    <3>1. Token("column", e.of) \in TextTokens
      BY <2>1, CaseOfShape, SMTT(30) DEF Token, TextTokens
    <3>2. Format[e][i] = [text |-> Word("column", e.of), next |-> i]
      BY <2>1, Formatted
    <3>3. Numbered(Word("column", e.of), i, i)
      BY <3>1, NumberedWord
    <3> QED
      BY <3>2, <3>3
  <2>2. CASE IsParameter(e)
    <3>1. Format[e][i] = [text |-> Word("parameter", i), next |-> i + 1]
      BY <2>2, Formatted, ZenonT(30)
    <3>2. Numbered(Word("parameter", i), i, i + 1)
      BY NumberedParameter
    <3> QED
      BY <3>1, <3>2
  <2>3. CASE IsBinary(e)
    <3> DEFINE l == Format[e.lhs][i]
               r == Format[e.rhs][l.next]
               t == l.text \o Word("literal", e.of)
    <3>1. e.lhs \in H /\ e.rhs \in H /\ e.of \in Literals
      BY <1>1, <2>3 DEF IsBinary
    <3>2. Numbered(l.text, i, l.next) /\ l.next \in Nat
      BY <3>1 DEF Numbered
    <3>3. Numbered(r.text, l.next, r.next)
      BY <3>1, <3>2
    <3>4. Token("literal", e.of) \in TextTokens
      BY <3>1, SMTT(30) DEF Token, TextTokens
    <3>5. Format[e][i] = [text |-> Bracketed(t \o r.text), next |-> r.next]
      BY <2>3, Formatted, ZenonT(30)
    <3> HIDE DEF l, r, H
    <3>6. Numbered(t, i, l.next)
      BY <3>2, <3>4, NumberedWord, NumberedConcat
    <3> HIDE DEF t
    <3>7. Numbered(t \o r.text, i, r.next)
      BY <3>3, <3>6, NumberedConcat
    <3> QED
      BY <3>5, <3>7, NumberedBracketed
  <2>4. CASE IsUnary(e)
    <3> DEFINE u == Format[e.operand][i]
               t == u.text \o Word("literal", e.of)
    <3>1. e.operand \in H /\ e.of \in Literals
      BY <1>1, <2>4, CaseOfShape DEF IsUnary
    <3>2. Numbered(u.text, i, u.next) /\ u.next \in Nat
      BY <3>1 DEF Numbered
    <3>3. Token("literal", e.of) \in TextTokens
      BY <3>1 DEF Token, TextTokens
    <3>4. Format[e][i] = [text |-> Bracketed(t), next |-> u.next]
      BY <2>4, Formatted
    <3> HIDE DEF u, H
    <3>5. Numbered(t, i, u.next)
      BY <3>2, <3>3, NumberedWord, NumberedConcat
    <3> HIDE DEF t
    <3> QED
      BY <3>4, <3>5, NumberedBracketed
  <2> QED
    BY <2>1, <2>2, <2>3, <2>4, Shapes
<1>2. \A e \in Expressions : (\A x \in Expressions : Rank[x] < Rank[e] => x \in H) => e \in H
  BY <1>1
<1>3. Expressions \subseteq H
  <2> HIDE DEF H
  <2> QED
    BY <1>2, ExpressionsRanked, RankInduction
<1> QED
  BY <1>3
------------------------------------------------------------------------------
(* Binding.                                                                  *)

(* What binding an expression does, by what binding its parts does. *)
BindOf(f, e) ==
  [walk \in Walks |->
     CASE e.is = "column"    -> walk
       [] e.is = "parameter" -> BindNext(walk, e.of)
       [] e.is = "binary"    -> f[e.rhs][f[e.lhs][walk]]
       [] e.is = "unary"     -> f[e.operand][walk]]

LEMMA BindTyped ==
  ASSUME NEW h \in Handles, NEW n \in Nat, NEW o \in Objects
  PROVE  /\ Bind(h, n, o) \in Handles /\ Bind(h, n, o).state = h.state
         /\ h.state = "ready" /\ n \in Params => Bind(h, n, o).bound[n] = o
         /\ \A k \in Params : k # n => Bind(h, n, o).bound[k] = h.bound[k]
<1>1. PICK S : S = {"null", "ready", "row", "stalled", "halted"}
  OBVIOUS
<1>2. o \in Values \cup {Null}
  BY ObjectsAssumption
<1>3. h = [state |-> h.state, bound |-> h.bound] /\ h.state \in S
      /\ h.bound \in [Params -> Values \cup {Null}]
  BY <1>1 DEF Handles
<1> DEFINE b == [h.bound EXCEPT ![n] = o]
<1>4. /\ b \in [Params -> Values \cup {Null}]
      /\ n \in Params => b[n] = o
      /\ \A k \in Params : k # n => b[k] = h.bound[k]
  BY <1>2, <1>3
<1>5. CASE h.state = "ready"
  <2>1. Bind(h, n, o) = [h EXCEPT !.bound = b]
    BY <1>5 DEF Bind
  <2> HIDE DEF b
  <2>2. Bind(h, n, o) = [state |-> h.state, bound |-> b]
    BY <1>3, <2>1
  <2> QED
    BY <1>1, <1>3, <1>4, <2>2 DEF Handles
<1>6. CASE h.state # "ready"
  BY <1>6 DEF Bind
<1> QED
  BY <1>5, <1>6

LEMMA BindNextTyped ==
  ASSUME NEW w \in Walks, NEW o \in Objects
  PROVE  /\ BindNext(w, o) \in Walks
         /\ BindNext(w, o).handle = Bind(w.handle, w.index, o)
         /\ BindNext(w, o).index = w.index + 1
<1>1. w.handle \in Handles /\ w.index \in Nat
  BY DEF Walks
<1>2. Bind(w.handle, w.index, o) \in Handles
  BY <1>1, BindTyped
<1> QED
  BY <1>1, <1>2 DEF BindNext, Walks

LEMMA BindOfTyped ==
  ASSUME NEW f, NEW e \in Expressions,
         \A x \in Expressions : Rank[x] < Rank[e] => f[x] \in [Walks -> Walks]
  PROVE  BindOf(f, e) \in [Walks -> Walks]
<1> SUFFICES ASSUME NEW walk \in Walks PROVE BindOf(f, e)[walk] \in Walks
  BY DEF BindOf
<1>1. CASE IsColumn(e)
  BY <1>1, CaseOfShape DEF BindOf
<1>2. CASE IsParameter(e)
  <2>1. BindOf(f, e)[walk] = BindNext(walk, e.of)
    BY <1>2, CaseOfShape DEF BindOf
  <2> QED
    BY <1>2, <2>1, CaseOfShape, BindNextTyped
<1>3. CASE IsBinary(e)
  <2>1. BindOf(f, e)[walk] = f[e.rhs][f[e.lhs][walk]]
    BY <1>3, CaseOfShape DEF BindOf
  <2>2. f[e.lhs] \in [Walks -> Walks] /\ f[e.rhs] \in [Walks -> Walks]
    BY <1>3 DEF IsBinary
  <2> QED
    BY <2>1, <2>2
<1>4. CASE IsUnary(e)
  <2>1. BindOf(f, e)[walk] = f[e.operand][walk]
    BY <1>4, CaseOfShape DEF BindOf
  <2>2. f[e.operand] \in [Walks -> Walks]
    BY <1>4 DEF IsUnary
  <2> QED
    BY <2>1, <2>2
<1> QED
  BY <1>1, <1>2, <1>3, <1>4, Shapes

LEMMA BindOfSame ==
  ASSUME NEW f, NEW g, NEW e \in Expressions,
         \A x \in Expressions : Rank[x] < Rank[e] => f[x] = g[x]
  PROVE  BindOf(f, e) = BindOf(g, e)
<1>1. CASE IsColumn(e) \/ IsParameter(e)
  BY <1>1, CaseOfShape DEF BindOf
<1>2. CASE IsBinary(e)
  <2>1. f[e.lhs] = g[e.lhs] /\ f[e.rhs] = g[e.rhs]
    BY <1>2 DEF IsBinary
  <2> QED
    BY <1>2, <2>1, CaseOfShape DEF BindOf
<1>3. CASE IsUnary(e)
  <2>1. f[e.operand] = g[e.operand]
    BY <1>3, SMTT(30) DEF IsUnary
  <2> QED
    BY <1>3, <2>1, CaseOfShape DEF BindOf
<1> QED
  BY <1>1, <1>2, <1>3, Shapes

(* There is such a function as bind_parameters. *)
LEMMA BindEquation == BindParameters = [e \in Expressions |-> BindOf(BindParameters, e)]
<1> DEFINE S == Expressions
           V == [Walks -> Walks]
           G == [a \in [S -> V] \X S |-> BindOf(a[1], a[2])]
<1>1. ASSUME NEW f \in [S -> V], NEW e \in S PROVE BindOf(f, e) \in V
  BY BindOfTyped
<1>2. G \in [[S -> V] \X S -> V]
  BY <1>1
<1>3. ASSUME NEW f \in [S -> V], NEW g \in [S -> V], NEW e \in S,
             \A x \in S : Rank[x] < Rank[e] => f[x] = g[x]
      PROVE  G[<<f, e>>] = G[<<g, e>>]
  BY <1>3, BindOfSame
<1>4. V # {}
  <2>1. [w \in Walks |-> w] \in V
    OBVIOUS
  <2> QED
    BY <2>1
<1>5. IsStep(G, S, V, Rank)
  <2> HIDE DEF G, V
  <2> QED
    BY <1>2, <1>3 DEF IsStep
<1>6. PICK f \in [S -> V] : \A e \in S : f[e] = G[<<f, e>>]
  <2> HIDE DEF G, V
  <2> QED
    BY <1>4, <1>5, ExpressionsRanked, BoundedRecursion
<1>7. f = [e \in S |-> BindOf(f, e)]
  BY <1>6
<1> QED
  BY <1>7 DEF BindParameters, BindOf

LEMMA BindParametersTyped == \A e \in Expressions : BindParameters[e] \in [Walks -> Walks]
<1> DEFINE H == {e \in Expressions : BindParameters[e] \in [Walks -> Walks]}
<1>1. ASSUME NEW e \in Expressions, \A x \in Expressions : Rank[x] < Rank[e] => x \in H
      PROVE  e \in H
  <2>1. BindOf(BindParameters, e) \in [Walks -> Walks]
    BY <1>1, BindOfTyped
  <2> QED
    BY <2>1, BindEquation
<1>2. Expressions \subseteq H
  <2> HIDE DEF H
  <2> QED
    BY <1>1, ExpressionsRanked, RankInduction
<1> QED
  BY <1>2

LEMMA BoundParameters ==
  ASSUME NEW e \in Expressions, NEW w \in Walks
  PROVE  /\ BindParameters[e][w] \in Walks
         /\ IsColumn(e) => BindParameters[e][w] = w
         /\ IsParameter(e) => BindParameters[e][w] = BindNext(w, e.of)
         /\ IsBinary(e) =>
              BindParameters[e][w] = BindParameters[e.rhs][BindParameters[e.lhs][w]]
         /\ IsUnary(e) => BindParameters[e][w] = BindParameters[e.operand][w]
<1>1. BindParameters[e] = BindOf(BindParameters, e)
  BY BindEquation
<1>2. BindParameters[e][w] \in Walks
  BY BindParametersTyped
<1>3. /\ IsColumn(e) => BindOf(BindParameters, e)[w] = w
      /\ IsParameter(e) => BindOf(BindParameters, e)[w] = BindNext(w, e.of)
  BY CaseOfShape DEF BindOf
<1>4. /\ IsBinary(e) => BindOf(BindParameters, e)[w]
                          = BindParameters[e.rhs][BindParameters[e.lhs][w]]
      /\ IsUnary(e) => BindOf(BindParameters, e)[w] = BindParameters[e.operand][w]
  BY CaseOfShape DEF BindOf
<1> QED
  BY <1>1, <1>2, <1>3, <1>4

LEMMA ParamsNumbered ==
  \E N \in Nat : N = Cardinality(Params) /\ Params = 1..N /\ MaxSets < N
  BY ParamsAssumption, FS_CardinalityType

(* v is where a walk over e gets to from w: as far as the text of e goes, and with
   nothing changed before or after its parameters. *)
Reached(e, w, v) ==
  /\ v \in Walks /\ v.handle.state = "ready"
  /\ v.index = Format[e][w.index].next /\ w.index <= v.index
  /\ \A n \in Params : n < w.index \/ n >= v.index =>
       v.handle.bound[n] = w.handle.bound[n]

(* bind_parameters counts the parameters as format_expression does. *)
LEMMA BindAgrees ==
  \A e \in Expressions, w \in Walks :
    w.handle.state = "ready" => Reached(e, w, BindParameters[e][w])
<1> DEFINE H == {e \in Expressions : \A w \in Walks :
                   w.handle.state = "ready" => Reached(e, w, BindParameters[e][w])}
<1>0. Params \subseteq Nat
  BY ParamsNumbered
<1>1. ASSUME NEW e \in Expressions, \A x \in Expressions : Rank[x] < Rank[e] => x \in H,
             NEW w \in Walks, w.handle.state = "ready"
      PROVE  Reached(e, w, BindParameters[e][w])
  <2> DEFINE v == BindParameters[e][w]
  <2>0. v \in Walks /\ w.index \in Nat /\ w.handle \in Handles
    BY BoundParameters DEF Walks
  <2>1. CASE IsColumn(e)
    <3>1. v = w
      BY <2>1, BoundParameters
    <3>2. Format[e][w.index].next = w.index
      BY <2>0, <2>1, NextIndex
    <3> HIDE DEF v
    <3> QED
      BY <1>1, <2>0, <3>1, <3>2 DEF Reached, v
  <2>2. CASE IsParameter(e)
    <3>1. e.of \in Objects /\ v = BindNext(w, e.of)
      BY <2>2, CaseOfShape, BoundParameters
    <3>2. Format[e][w.index].next = w.index + 1
      BY <2>0, <2>2, NextIndex
    <3>3. v.index = w.index + 1 /\ v.handle = Bind(w.handle, w.index, e.of)
      BY <3>1, BindNextTyped
    <3> HIDE DEF v
    <3>4. /\ v.handle.state = "ready"
          /\ \A n \in Params : n # w.index => v.handle.bound[n] = w.handle.bound[n]
      BY <1>1, <2>0, <3>1, <3>3, BindTyped
    <3>5. \A n \in Params : n < w.index \/ n >= v.index => n # w.index
      BY <1>0, <2>0, <3>3
    <3>6. w.index <= v.index
      BY <2>0, <3>3
    <3>7. Reached(e, w, v)
      BY <2>0, <3>2, <3>3, <3>4, <3>5, <3>6 DEF Reached
    <3> QED
      BY <3>7 DEF v
  <2>3. CASE IsBinary(e)
    <3> DEFINE u == BindParameters[e.lhs][w]
               x == BindParameters[e.rhs][u]
    <3>1. e.lhs \in H /\ e.rhs \in H
      BY <1>1, <2>3 DEF IsBinary
    <3>2. Reached(e.lhs, w, u)
      BY <1>1, <3>1
    <3>3. u \in Walks /\ u.handle.state = "ready"
      BY <3>2 DEF Reached
    <3>4. Reached(e.rhs, u, x)
      BY <3>1, <3>3
    <3>5. v = x
      BY <2>3, BoundParameters
    <3> HIDE DEF v, u, x, H
    <3>6. Format[e][w.index].next = Format[e.rhs][Format[e.lhs][w.index].next].next
      BY <2>0, <2>3, NextIndex, SMTT(30)
    <3>7. /\ u.index = Format[e.lhs][w.index].next /\ w.index <= u.index
          /\ x.index = Format[e.rhs][u.index].next /\ u.index <= x.index
          /\ x.handle.state = "ready" /\ x \in Walks
      BY <3>2, <3>4, ZenonT(30) DEF Reached
    <3>8. u.index \in Nat /\ x.index \in Nat
      BY <3>3, <3>7, SMTT(30) DEF Walks
    <3>9. w.index <= x.index
      BY <2>0, <3>7, <3>8, SMTT(30)
    <3>10. ASSUME NEW n \in Params, n < w.index \/ n >= x.index
           PROVE  x.handle.bound[n] = w.handle.bound[n]
      <4>1. n < w.index \/ n >= u.index
        BY <1>0, <2>0, <3>7, <3>8, <3>10, SMTT(30)
      <4>2. n < u.index \/ n >= x.index
        BY <1>0, <2>0, <3>7, <3>8, <3>10, SMTT(30)
      <4> QED
        BY <3>2, <3>4, <4>1, <4>2, ZenonT(30) DEF Reached
    <3>11. Reached(e, w, x)
      BY <3>6, <3>7, <3>9, <3>10, ZenonT(30) DEF Reached
    <3> QED
      BY <3>5, <3>11 DEF v
  <2>4. CASE IsUnary(e)
    <3>1. e.operand \in H
      BY <1>1, <2>4 DEF IsUnary
    <3>2. Reached(e.operand, w, BindParameters[e.operand][w])
      BY <1>1, <3>1
    <3>3. v = BindParameters[e.operand][w]
      BY <2>4, BoundParameters
    <3>4. Format[e][w.index].next = Format[e.operand][w.index].next
      BY <2>0, <2>4, NextIndex
    <3> HIDE DEF v
    <3> QED
      BY <3>2, <3>3, <3>4 DEF Reached, v
  <2> QED
    BY <2>1, <2>2, <2>3, <2>4, Shapes
<1>2. \A e \in Expressions : (\A x \in Expressions : Rank[x] < Rank[e] => x \in H) => e \in H
  BY <1>1
<1>3. Expressions \subseteq H
  <2> HIDE DEF H
  <2> QED
    BY <1>2, ExpressionsRanked, RankInduction
<1> QED
  BY <1>3
------------------------------------------------------------------------------
(* The chain of functions an updater takes its SET values from.              *)

Links == [index : Params, object : Objects]

(* The statement when the functions of c have been called, the first k of them. *)
LinkedUpTo(c, k) ==
  [state |-> "ready", bound |-> [n \in Params |-> IF n <= k THEN c[n].object ELSE Null]]
Linked(c)        == LinkedUpTo(c, Len(c))

ChainOK(c) ==
  c \in Seq(Links) /\ Len(c) <= MaxSets /\ \A i \in 1..Len(c) : c[i].index = i

LEMMA LinkedTyped ==
  ASSUME NEW c, ChainOK(c), NEW k \in 0..Len(c)
  PROVE  LinkedUpTo(c, k) \in Handles
<1>1. PICK m \in Nat : m = Len(c) /\ \A i \in 1..m : c[i] \in Links
  BY DEF ChainOK
<1>2. \A i \in 1..m : c[i].object \in Values
  BY <1>1, ObjectsAssumption DEF Links
<1>3. \A n \in Params : n <= k => n \in 1..m
  BY <1>1, ParamsNumbered
<1> DEFINE b == [n \in Params |-> IF n <= k THEN c[n].object ELSE Null]
<1>4. b \in [Params -> Values \cup {Null}]
  BY <1>2, <1>3
<1> HIDE DEF b
<1>5. [state |-> "ready", bound |-> b] \in Handles
  BY <1>4 DEF Handles
<1> QED
  BY <1>5 DEF LinkedUpTo, b

LEMMA LinkNext ==
  ASSUME NEW c, ChainOK(c), NEW k \in 1..Len(c)
  PROVE  LinkedUpTo(c, k) = Bind(LinkedUpTo(c, k - 1), c[k].index, c[k].object)
<1> DEFINE b(j) == [n \in Params |-> IF n <= j THEN c[n].object ELSE Null]
<1>1. PICK m \in Nat : m = Len(c)
  BY DEF ChainOK
<1>2. PICK N \in Nat : Params = 1..N /\ m < N
  BY <1>1, ParamsNumbered, SetsAssumption DEF ChainOK
<1>3. k \in Params /\ c[k].index = k
  BY <1>1, <1>2 DEF ChainOK
<1>4. \A n \in Params : n <= k <=> n = k \/ n <= k - 1
  BY <1>1, <1>2
<1>5. b(k) = [b(k - 1) EXCEPT ![k] = c[k].object]
  BY <1>3, <1>4
<1> HIDE DEF b
<1>6. [state |-> "ready", bound |-> b(k)]
        = Bind([state |-> "ready", bound |-> b(k - 1)], k, c[k].object)
  BY <1>5 DEF Bind
<1> QED
  BY <1>3, <1>6 DEF LinkedUpTo, b

LEMMA UpdateBindingsLinked ==
  ASSUME ChainOK(chain)
  PROVE  UpdateBindings(Prepared) =
           BindParameters[where.expression]
             [[handle |-> Linked(chain), index |-> where.from]].handle
<1>1. PICK m \in Nat : m = Len(chain)
  BY DEF ChainOK
<1> DEFINE L(k)  == LinkedUpTo(chain, k)
           On(g) == [k \in 0..m |-> IF k = 0 THEN Prepared
                                    ELSE Bind(g[k - 1], chain[k].index, chain[k].object)]
           f     == [k \in 0..m |-> L(k)]
           link  == CHOOSE g : g = On(g)
<1>2. L(0) = Prepared
  <2>1. \A n \in Params : ~ (n <= 0)
    BY ParamsNumbered
  <2> QED
    BY <2>1 DEF LinkedUpTo, Prepared, Unbound
<1>3. \A k \in 1..m : L(k) = Bind(L(k - 1), chain[k].index, chain[k].object)
  BY <1>1, LinkNext
<1>4. f = On(f)
  <2> HIDE DEF L
  <2>1. \A k \in 0..m : k # 0 => k \in 1..m /\ k - 1 \in 0..m
    OBVIOUS
  <2> QED
    BY <1>2, <1>3, <2>1
<1>5. link = On(link)
  <2> HIDE DEF f, On
  <2> QED
    BY <1>4
<1> HIDE DEF link
<1>6. \A k \in 0..m : link[k] = L(k)
  <2> DEFINE S == 0..m
             H == {k \in S : link[k] = L(k)}
  <2>1. ASSUME NEW k \in S, \A j \in S : j < k => j \in H PROVE k \in H
    <3> HIDE DEF L
    <3>1. CASE k = 0
      <4>1. link[k] = Prepared
        BY <1>5, <3>1
      <4> QED
        BY <1>2, <3>1, <4>1
    <3>2. CASE k # 0
      <4>1. k \in 1..m /\ k - 1 \in 0..m /\ k - 1 < k
        BY <3>2
      <4>2. link[k - 1] = L(k - 1)
        BY <2>1, <4>1
      <4>3. link[k] = Bind(link[k - 1], chain[k].index, chain[k].object)
        BY <1>5, <3>2
      <4> QED
        BY <1>3, <4>1, <4>2, <4>3
    <3> QED
      BY <3>1, <3>2
  <2>2. S \subseteq Nat
    OBVIOUS
  <2>3. S \subseteq H
    <3> HIDE DEF S, H
    <3> QED
      BY <2>1, <2>2, StrongInduction
  <2> QED
    BY <2>3
<1>7. link[m] = Linked(chain)
  BY <1>1, <1>6 DEF Linked
<1>8. UpdateBindings(Prepared) =
        BindParameters[where.expression][[handle |-> link[m], index |-> where.from]].handle
  BY <1>1 DEF UpdateBindings, link
<1> QED
  BY <1>7, <1>8

------------------------------------------------------------------------------
(* The index SQLite gives a parameter.                                       *)

(* A text that names 1, 2, ... in this order has them numbered as they are named. *)
LEMMA IndexIsName ==
  ASSUME NEW last, Numbered(Tokens, 1, last), NEW n \in 1..last - 1
  PROVE  SqlIndex(n) = n
<1> DEFINE t == Tokens
<1>1. PICK N \in Nat : N = Len(t) /\ DOMAIN t = 1..N
  BY DEF Numbered
<1>2. /\ last \in Nat
      /\ \A p \in 0..N : \E c \in 1..last : NamesIn(t, p) = 1..c - 1
      /\ NamesIn(t, N) = 1..last - 1
  BY <1>1 DEF Numbered
<1> HIDE DEF t
<1> DEFINE First(p) == n \in NamesIn(t, p) /\ n \notin NamesIn(t, p - 1)
<1>3. \E p \in DOMAIN t : First(p)
  <2> DEFINE D == {p \in 0..N : n \in NamesIn(t, p)}
  <2>1. D \subseteq Nat /\ D # {}
    <3>1. N \in D
      BY <1>2
    <3> QED
      BY <3>1
  <2>2. PICK p \in D : \A q \in D : p <= q
    <3> HIDE DEF D
    <3> QED
      BY <2>1, LeastNumber
  <2>3. p # 0
    <3>1. NamesIn(t, 0) = {}
      BY DEF NamesIn
    <3> QED
      BY <3>1
  <2>4. p \in 1..N /\ p - 1 \in 0..N /\ ~(p <= p - 1)
    BY <2>3
  <2>5. n \notin NamesIn(t, p - 1)
    BY <2>2, <2>4
  <2> QED
    BY <1>1, <2>2, <2>4, <2>5
<1> DEFINE p == FirstAt(n)
<1>4. p \in DOMAIN t /\ First(p)
  BY <1>3 DEF FirstAt, t
<1> HIDE DEF p
<1>5. p \in 1..N /\ p \in 0..N /\ p - 1 \in 0..N
  BY <1>1, <1>4
<1>6. PICK b \in 1..last : NamesIn(t, p - 1) = 1..b - 1
  BY <1>2, <1>5
<1>7. PICK c \in 1..last : NamesIn(t, p) = 1..c - 1
  BY <1>2, <1>5
<1>8. PICK x : NamesIn(t, p) \subseteq NamesIn(t, p - 1) \cup {x}
  <2> DEFINE x == t[p].of
  <2>1. \A k \in 1..p : k = p \/ k \in 1..p - 1
    BY <1>5
  <2>2. NamesIn(t, p) \subseteq NamesIn(t, p - 1) \cup {x}
    BY <2>1 DEF NamesIn
  <2> HIDE DEF x
  <2> QED
    BY <2>2
<1>9. b <= n /\ n <= c - 1
  BY <1>4, <1>6, <1>7
<1>10. x = n
  BY <1>4, <1>8
<1>11. c - 1 = n
  <2>1. ASSUME n < c - 1 PROVE FALSE
    <3>1. n + 1 \in NamesIn(t, p) /\ n + 1 \notin NamesIn(t, p - 1)
      BY <1>6, <1>7, <1>9, <2>1
    <3> QED
      BY <1>8, <1>10, <3>1
  <2> QED
    BY <1>9, <2>1
<1>12. NamesIn(t, p) = 1..n
  BY <1>7, <1>11
<1> QED
  BY <1>12, FS_Interval DEF SqlIndex, p, t

------------------------------------------------------------------------------
(* Reading.                                                                  *)

Items == Expressions \cup TextTokens

LEMMA NoBracketInExpression == \A e \in Expressions : e.is # "("
  BY Shapes, CaseOfShape

(* A closing bracket after an open one and what follows it. *)
LEMMA CloseBinary ==
  ASSUME NEW s \in Seq(Items), NEW l \in Items, NEW m \in Items, NEW r \in Items,
         NEW b \in Items, b.is = "(", l.is # "(", m.is # "(", r.is # "("
  PROVE  Close(Append(Append(Append(Append(s, b), l), m), r)) = Append(s, Binary(l, m.of, r))
<1> DEFINE t == Append(Append(Append(Append(s, b), l), m), r)
<1>1. PICK a \in Nat : a = Len(s)
  OBVIOUS
<1>2. /\ t \in Seq(Items) /\ Len(t) = a + 4
      /\ t[a + 1] = b /\ t[a + 2] = l /\ t[a + 3] = m /\ t[a + 4] = r
      /\ \A k \in 1..a : t[k] = s[k]
  BY <1>1
<1> HIDE DEF t
<1>3. LastOpen(t) = a + 1
  <2>1. DOMAIN t = 1..a + 4
    BY <1>2
  <2>2. a + 1 \in DOMAIN t /\ t[a + 1].is = "("
        /\ \A q \in a + 2..a + 4 : t[q].is # "("
    <3>1. \A q \in a + 2..a + 4 : q = a + 2 \/ q = a + 3 \/ q = a + 4
      OBVIOUS
    <3> QED
      BY <1>2, <2>1, <3>1
  <2>3. ASSUME NEW p \in DOMAIN t, t[p].is = "(", \A q \in p + 1..Len(t) : t[q].is # "("
        PROVE  p = a + 1
    <3>1. ~(p > a + 1)
      <4>1. p > a + 1 => p \in a + 2..a + 4
        BY <2>1
      <4> QED
        BY <2>2, <2>3, <4>1
    <3>2. ~(p < a + 1)
      <4>1. p < a + 1 => a + 1 \in p + 1..Len(t)
        BY <1>2, <2>1
      <4> QED
        BY <2>2, <2>3, <4>1
    <3> QED
      BY <2>1, <3>1, <3>2
  <2>4. \A q \in (a + 1) + 1..Len(t) : t[q].is # "("
    BY <1>2, <2>2
  <2> QED
    BY <2>2, <2>3, <2>4 DEF LastOpen
<1> DEFINE e == SubSeq(t, a + 2, a + 4)
<1>4. Len(e) = 3 /\ e[1] = l /\ e[2] = m /\ e[3] = r
  BY <1>2
<1>5. SubSeq(t, 1, a) = s
  <2>1. SubSeq(t, 1, a) \in Seq(Items) /\ Len(SubSeq(t, 1, a)) = a
        /\ \A k \in 1..a : SubSeq(t, 1, a)[k] = t[k]
    BY <1>2
  <2> QED
    BY <1>1, <1>2, <2>1, SeqEqual
<1>6. (a + 1) + 1 = a + 2 /\ (a + 1) - 1 = a
  OBVIOUS
<1> HIDE DEF e
<1>7. Close(t) = Append(s, Binary(l, m.of, r))
  BY <1>2, <1>3, <1>4, <1>5, <1>6 DEF Close, e
<1> QED
  BY <1>7 DEF t

LEMMA CloseUnary ==
  ASSUME NEW s \in Seq(Items), NEW x \in Items, NEW m \in Items,
         NEW b \in Items, b.is = "(", x.is # "(", m.is # "("
  PROVE  Close(Append(Append(Append(s, b), x), m)) = Append(s, Unary(x, m.of))
<1> DEFINE t == Append(Append(Append(s, b), x), m)
<1>1. PICK a \in Nat : a = Len(s)
  OBVIOUS
<1>2. /\ t \in Seq(Items) /\ Len(t) = a + 3
      /\ t[a + 1] = b /\ t[a + 2] = x /\ t[a + 3] = m
      /\ \A k \in 1..a : t[k] = s[k]
  BY <1>1
<1> HIDE DEF t
<1>3. LastOpen(t) = a + 1
  <2>1. DOMAIN t = 1..a + 3
    BY <1>2
  <2>2. a + 1 \in DOMAIN t /\ t[a + 1].is = "("
        /\ \A q \in a + 2..a + 3 : t[q].is # "("
    <3>1. \A q \in a + 2..a + 3 : q = a + 2 \/ q = a + 3
      OBVIOUS
    <3> QED
      BY <1>2, <2>1, <3>1
  <2>3. ASSUME NEW p \in DOMAIN t, t[p].is = "(", \A q \in p + 1..Len(t) : t[q].is # "("
        PROVE  p = a + 1
    <3>1. ~(p > a + 1)
      <4>1. p > a + 1 => p \in a + 2..a + 3
        BY <2>1
      <4> QED
        BY <2>2, <2>3, <4>1
    <3>2. ~(p < a + 1)
      <4>1. p < a + 1 => a + 1 \in p + 1..Len(t)
        BY <1>2, <2>1
      <4> QED
        BY <2>2, <2>3, <4>1
    <3> QED
      BY <2>1, <3>1, <3>2
  <2>4. \A q \in (a + 1) + 1..Len(t) : t[q].is # "("
    BY <1>2, <2>2
  <2> QED
    BY <2>2, <2>3, <2>4 DEF LastOpen
<1> DEFINE e == SubSeq(t, a + 2, a + 3)
<1>4. Len(e) = 2 /\ e[1] = x /\ e[2] = m
  BY <1>2
<1>5. SubSeq(t, 1, a) = s
  <2>1. SubSeq(t, 1, a) \in Seq(Items) /\ Len(SubSeq(t, 1, a)) = a
        /\ \A k \in 1..a : SubSeq(t, 1, a)[k] = t[k]
    BY <1>2
  <2> QED
    BY <1>1, <1>2, <2>1, SeqEqual
<1>6. (a + 1) + 1 = a + 2 /\ (a + 1) - 1 = a
  OBVIOUS
<1> HIDE DEF e
<1>7. Close(t) = Append(s, Unary(x, m.of))
  BY <1>2, <1>3, <1>4, <1>5, <1>6 DEF Close, e
<1> QED
  BY <1>7 DEF t

(* The stack after each token of the text. *)
IsStack(f) ==
  f = [k \in 0..Len(text) |-> IF k = 0 THEN << >> ELSE Shift(f[k - 1], text[k])]

(* There are such stacks as the reading of the text goes through. *)
LEMMA StackExists ==
  ASSUME NEW N \in Nat, N = Len(text)
  PROVE  \E f : IsStack(f)
<1> DEFINE On(f, m) == [k \in 0..m |-> IF k = 0 THEN << >> ELSE Shift(f[k - 1], text[k])]
           S == 0..N
           H == {m \in S : \E f : f = On(f, m)}
<1>1. ASSUME NEW m \in S, \A j \in S : j < m => j \in H PROVE m \in H
  <2>1. CASE m = 0
    <3>1. [k \in 0..m |-> << >>] = On([k \in 0..m |-> << >>], m)
      BY <2>1
    <3> QED
      BY <3>1
  <2>2. CASE m # 0
    <3>1. m - 1 \in S /\ m - 1 < m
      BY <2>2
    <3>2. PICK f : f = On(f, m - 1)
      BY <1>1, <3>1
    <3> DEFINE g == [k \in 0..m |-> IF k = m THEN Shift(f[m - 1], text[m]) ELSE f[k]]
    <3>3. ASSUME NEW k \in 0..m
          PROVE  g[k] = IF k = 0 THEN << >> ELSE Shift(g[k - 1], text[k])
      <4>1. CASE k = m
        <5>1. g[k - 1] = f[m - 1] /\ k # 0
          BY <2>2, <3>1, <4>1
        <5> QED
          BY <4>1, <5>1
      <4>2. CASE k # m
        <5>1. k \in 0..m - 1 /\ g[k] = f[k]
          BY <4>2
        <5>2. k # 0 => k - 1 \in 0..m /\ k - 1 # m
          BY <4>2
        <5>3. k # 0 => g[k - 1] = f[k - 1]
          BY <5>2
        <5>4. f[k] = IF k = 0 THEN << >> ELSE Shift(f[k - 1], text[k])
          BY <3>2, <5>1
        <5> QED
          BY <5>1, <5>3, <5>4
      <4> QED
        BY <4>1, <4>2
    <3>4. g = On(g, m)
      BY <3>3
    <3> HIDE DEF g
    <3> QED
      BY <3>4
  <2> QED
    BY <2>1, <2>2
<1>2. S \subseteq Nat
  OBVIOUS
<1>3. S \subseteq H
  <2> HIDE DEF S, H
  <2> QED
    BY <1>1, <1>2, StrongInduction
<1>4. PICK f : f = On(f, N)
  BY <1>3
<1> QED
  BY <1>4 DEF IsStack

LEMMA ParsedIsLast ==
  ASSUME NEW N \in Nat, N = Len(text)
  PROVE  \E f : IsStack(f) /\ Parsed = f[N]
<1> DEFINE f == CHOOSE g : IsStack(g)
<1>1. IsStack(f)
  BY StackExists
<1>2. Parsed = f[N]
  BY DEF Parsed, IsStack
<1> QED
  BY <1>1, <1>2
(* A text stands in the text of the statement, after the first a tokens. *)
Holds(a, t) ==
  /\ a \in Nat /\ t \in Seq(TextTokens) /\ a + Len(t) <= Len(text)
  /\ \A p \in 1..Len(t) : text[a + p] = t[p]

LEMMA HoldsParts ==
  ASSUME text \in Seq(TextTokens), NEW a, NEW s \in Seq(TextTokens),
         NEW t \in Seq(TextTokens), Holds(a, s \o t)
  PROVE  Holds(a, s) /\ Holds(a + Len(s), t) /\ Len(s \o t) = Len(s) + Len(t)
<1> DEFINE u == s \o t
<1>1. PICK b \in Nat, c \in Nat, N \in Nat : b = Len(s) /\ c = Len(t) /\ N = Len(text)
  OBVIOUS
<1>2. Len(u) = b + c /\ \A k \in 1..b + c : u[k] = IF k <= b THEN s[k] ELSE t[k - b]
  BY <1>1, ConcatProperties
<1> HIDE DEF u
<1>3. a \in Nat /\ a + (b + c) <= N /\ \A k \in 1..b + c : text[a + k] = u[k]
  BY <1>1, <1>2 DEF Holds, u
<1>4. \A k \in 1..b : k \in 1..b + c /\ k <= b
  OBVIOUS
<1>5. \A k \in 1..b : text[a + k] = s[k]
  BY <1>2, <1>3, <1>4
<1>6. \A k \in 1..c : /\ b + k \in 1..b + c /\ ~(b + k <= b) /\ (b + k) - b = k
                      /\ a + (b + k) = (a + b) + k
  BY <1>3
<1>7. ASSUME NEW k \in 1..c PROVE text[(a + b) + k] = t[k]
  <2>1. text[a + (b + k)] = u[b + k]
    BY <1>3, <1>6
  <2>2. u[b + k] = t[k]
    BY <1>2, <1>6
  <2> QED
    BY <1>6, <2>1, <2>2
<1>8. a + b \in Nat /\ a + b <= N /\ (a + b) + c <= N
  BY <1>3
<1> QED
  BY <1>1, <1>2, <1>3, <1>5, <1>7, <1>8 DEF Holds, u

LEMMA HoldsBracketed ==
  ASSUME text \in Seq(TextTokens), NEW a, NEW t \in Seq(TextTokens),
         Holds(a, Bracketed(t))
  PROVE  /\ Holds(a, Word("(", Null)) /\ Holds(a + 1, t)
         /\ Holds(a + 1 + Len(t), Word(")", Null))
         /\ Len(Bracketed(t)) = Len(t) + 2
<1> DEFINE b == Word("(", Null)
           c == Word(")", Null)
           u == b \o t
<1>1. Token("(", Null) \in TextTokens /\ Token(")", Null) \in TextTokens
  BY DEF Token, TextTokens
<1>2. b \in Seq(TextTokens) /\ c \in Seq(TextTokens) /\ Len(b) = 1 /\ Len(c) = 1
  BY <1>1, WordTyped
<1>3. Bracketed(t) = u \o c
  BY DEF Bracketed
<1> HIDE DEF b, c
<1>4. u \in Seq(TextTokens)
  BY <1>2
<1>5. Holds(a, u) /\ Holds(a + Len(u), c) /\ Len(u \o c) = Len(u) + 1
  <2>1. PICK x \in Seq(TextTokens) : x = u
    BY <1>4
  <2>2. Holds(a, x \o c)
    BY <1>3, <2>1
  <2>3. Holds(a, x) /\ Holds(a + Len(x), c)
    BY <1>2, <2>2, HoldsParts
  <2>4. Len(x \o c) = Len(x) + Len(c)
    BY <1>2, TextsJoined
  <2> QED
    BY <1>2, <2>1, <2>3, <2>4
<1>6. Holds(a, b) /\ Holds(a + 1, t) /\ Len(u) = 1 + Len(t)
  BY <1>2, <1>5, HoldsParts
<1>7. a \in Nat /\ Len(t) \in Nat
  BY <1>5 DEF Holds
<1> HIDE DEF u
<1>8. a + Len(u) = a + 1 + Len(t) /\ Len(u) + 1 = Len(t) + 2
  BY <1>6, <1>7
<1> QED
  BY <1>3, <1>5, <1>6, <1>8 DEF b, c

LEMMA StackNext ==
  ASSUME text \in Seq(TextTokens), NEW f, IsStack(f), NEW a,
         NEW is, NEW of, Token(is, of) \in TextTokens, Holds(a, Word(is, of))
  PROVE  f[a + 1] = Shift(f[a], Token(is, of))
<1>1. Len(Word(is, of)) = 1 /\ Word(is, of)[1] = Token(is, of)
  BY WordTyped
<1>2. a \in Nat /\ a + 1 <= Len(text) /\ text[a + 1] = Token(is, of)
  BY <1>1 DEF Holds
<1>3. a + 1 \in 0..Len(text) /\ a + 1 # 0 /\ (a + 1) - 1 = a
  BY <1>2
<1> QED
  BY <1>2, <1>3 DEF IsStack

LEMMA StackPushes ==
  ASSUME text \in Seq(TextTokens), NEW f, IsStack(f), NEW a,
         NEW is, NEW of, Token(is, of) \in TextTokens, Holds(a, Word(is, of)),
         is # ")", is # "parameter"
  PROVE  f[a + 1] = Append(f[a], Token(is, of))
<1> DEFINE t == Token(is, of)
<1>1. t.is # ")" /\ t.is # "parameter"
  BY DEF Token
<1>2. f[a + 1] = Shift(f[a], t)
  BY StackNext
<1> HIDE DEF t
<1>3. Shift(f[a], t) = Append(f[a], t)
  BY <1>1 DEF Shift
<1> QED
  BY <1>2, <1>3 DEF t

(* What the walk from w to v has bound is what SQLite takes the names to mean. *)
Understood(w, v) ==
  \A n \in w.index..v.index - 1 : n \in Params /\ Meant(n) = v.handle.bound[n]

(* The text of an expression is read as that expression. *)
Reads(f, e) ==
  \A w \in Walks, a \in Nat :
    LET t == Format[e][w.index].text
    IN  /\ w.handle.state = "ready" /\ Understood(w, BindParameters[e][w])
        /\ Holds(a, t) /\ f[a] \in Seq(Items)
        => f[a + Len(t)] = Append(f[a], e)

LEMMA ReadsColumn ==
  ASSUME text \in Seq(TextTokens), NEW f, IsStack(f), NEW e \in Expressions, IsColumn(e)
  PROVE  Reads(f, e)
<1> SUFFICES ASSUME NEW w \in Walks, NEW a \in Nat, Holds(a, Format[e][w.index].text)
             PROVE  f[a + Len(Format[e][w.index].text)] = Append(f[a], e)
  BY DEF Reads
<1>1. w.index \in Nat
  BY SMTT(30) DEF Walks
<1>2. Format[e][w.index] = [text |-> Word("column", e.of), next |-> w.index]
  BY <1>1, Formatted
<1>3. Format[e][w.index].text = Word("column", e.of)
  BY <1>2
<1>4. Token("column", e.of) \in TextTokens /\ Token("column", e.of) = e
  <2>1. PICK c \in Columns : e = Column(c)
    BY DEF IsColumn
  <2>2. e.of = c /\ e = Token("column", c)
    BY <2>1 DEF Column, Token
  <2> QED
    BY <2>2 DEF Token, TextTokens
<1>5. Len(Word("column", e.of)) = 1
  BY <1>4, WordTyped
<1>6. f[a + 1] = Append(f[a], e)
  BY <1>3, <1>4, StackPushes
<1> QED
  BY <1>3, <1>5, <1>6

LEMMA ReadsParameter ==
  ASSUME text \in Seq(TextTokens), NEW f, IsStack(f), NEW e \in Expressions,
         IsParameter(e)
  PROVE  Reads(f, e)
<1> SUFFICES ASSUME NEW w \in Walks, NEW a \in Nat, w.handle.state = "ready",
                    Understood(w, BindParameters[e][w]), Holds(a, Format[e][w.index].text)
             PROVE  f[a + Len(Format[e][w.index].text)] = Append(f[a], e)
  BY DEF Reads
<1> DEFINE v == BindParameters[e][w]
<1>1. PICK i \in Nat : i = w.index
  BY DEF Walks
<1>2. w.handle \in Handles
  BY DEF Walks
<1>3. Format[e][i] = [text |-> Word("parameter", i), next |-> i + 1]
  BY Formatted, ZenonT(30)
<1>4. Format[e][i].text = Word("parameter", i)
  BY <1>3
<1>5. Token("parameter", i) \in TextTokens
  BY DEF Token, TextTokens
<1>6. PICK o \in Objects : e = Parameter(o)
  BY DEF IsParameter
<1>7. e.of = o
  BY <1>6 DEF Parameter
<1>8. v = BindNext(w, o)
  BY <1>7, BoundParameters
<1>9. v.index = i + 1 /\ v.handle = Bind(w.handle, i, o)
  BY <1>1, <1>8, BindNextTyped
<1>10. i \in w.index..v.index - 1
  BY <1>1, <1>9
<1> HIDE DEF v
<1>11. i \in Params /\ Meant(i) = v.handle.bound[i]
  BY <1>10 DEF Understood, v
<1>12. Meant(i) = o
  <2>1. Bind(w.handle, i, o).bound[i] = o
    BY <1>2, <1>11, BindTyped
  <2> QED
    BY <1>9, <1>11, <2>1
<1>13. f[a + 1] = Shift(f[a], Token("parameter", i))
  BY <1>1, <1>4, <1>5, StackNext
<1>14. Token("parameter", i).is = "parameter" /\ Token("parameter", i).of = i
  BY DEF Token
<1>15. f[a + 1] = Append(f[a], Parameter(Meant(i)))
  BY <1>13, <1>14 DEF Shift
<1>16. Len(Word("parameter", i)) = 1
  BY <1>5, WordTyped
<1> QED
  BY <1>1, <1>4, <1>6, <1>12, <1>15, <1>16

LEMMA ReadsUnary ==
  ASSUME text \in Seq(TextTokens), NEW f, IsStack(f), NEW e \in Expressions,
         IsUnary(e), Reads(f, e.operand)
  PROVE  Reads(f, e)
<1> SUFFICES ASSUME NEW w \in Walks, NEW a \in Nat, w.handle.state = "ready",
                    Understood(w, BindParameters[e][w]), Holds(a, Format[e][w.index].text),
                    f[a] \in Seq(Items)
             PROVE  f[a + Len(Format[e][w.index].text)] = Append(f[a], e)
  BY DEF Reads
<1>1. PICK i \in Nat : i = w.index
  BY DEF Walks
<1>2. PICK x \in Expressions : x = e.operand
  BY DEF IsUnary
<1>3. e = Unary(x, "IS_NULL") /\ e.of = "IS_NULL"
  BY <1>2 DEF IsUnary, Unary
<1> DEFINE lit == Token("literal", "IS_NULL")
           open == Token("(", Null)
           shut == Token(")", Null)
           t == Format[x][i].text
           b == t \o Word("literal", "IS_NULL")
<1>4. lit \in TextTokens /\ open \in TextTokens /\ shut \in TextTokens
  BY DEF Token, TextTokens, Literals
<1>5. Format[e][i].text = Bracketed(b)
  <2>1. Format[e][i].text
          = Bracketed(Format[e.operand][i].text \o Word("literal", e.of))
    BY UnaryText, SMTT(30)
  <2> QED
    BY <1>2, <1>3, <2>1
<1>6. t \in Seq(TextTokens)
  BY Formatted
<1>7. PICK n \in Nat : n = Len(t)
  BY <1>6, TextsJoined
<1> DEFINE m == Word("literal", "IS_NULL")
<1>8. m \in Seq(TextTokens) /\ Len(m) = 1
  BY <1>4, WordTyped
<1> HIDE DEF t
<1>9. b \in Seq(TextTokens) /\ Len(b) = n + 1
  <2> HIDE DEF m
  <2>1. b = t \o m
    BY DEF m
  <2> HIDE DEF b
  <2> QED
    BY <1>6, <1>7, <1>8, <2>1, TextsJoined, ZenonT(30)
<1>10. /\ Holds(a, Word("(", Null)) /\ Holds(a + 1, b)
       /\ Holds(a + 1 + (n + 1), Word(")", Null)) /\ Len(Bracketed(b)) = n + 3
  <2> HIDE DEF b
  <2>1. /\ Holds(a, Word("(", Null)) /\ Holds(a + 1, b)
        /\ Holds(a + 1 + Len(b), Word(")", Null)) /\ Len(Bracketed(b)) = Len(b) + 2
    <3>1. Holds(a, Bracketed(b))
      BY <1>1, <1>5
    <3> QED
      BY <1>9, <3>1, HoldsBracketed
  <2>2. (n + 1) + 2 = n + 3
    OBVIOUS
  <2> QED
    BY <1>9, <2>1, <2>2
<1>11. Holds(a + 1, t) /\ Holds(a + 1 + n, Word("literal", "IS_NULL"))
  BY <1>6, <1>7, <1>8, <1>10, HoldsParts
<1> HIDE DEF b, lit, open, shut
<1>12. f[a + 1] = Append(f[a], open)
  BY <1>4, <1>10, StackPushes DEF open
<1>13. f[a + 1] \in Seq(Items)
  <2>1. open \in Items
    BY <1>4, SMTT(30) DEF Items
  <2> QED
    BY <1>12, <2>1
<1>14. f[a + 1 + n] = Append(f[a + 1], x)
  <2>1. BindParameters[e][w] = BindParameters[x][w]
    BY <1>2, BoundParameters
  <2>2. a + 1 \in Nat
    OBVIOUS
  <2> QED
    BY <1>1, <1>2, <1>7, <1>11, <1>13, <2>1, <2>2, ZenonT(30) DEF Reads, t
<1>15. f[(a + 1 + n) + 1] = Append(f[a + 1 + n], lit)
  BY <1>4, <1>11, StackPushes DEF lit
<1>16. a + 1 + (n + 1) = (a + 1 + n) + 1 /\ (a + 1 + (n + 1)) + 1 = a + (n + 3)
  OBVIOUS
<1>17. f[a + (n + 3)] = Shift(f[(a + 1 + n) + 1], shut)
  <2>1. f[(a + 1 + (n + 1)) + 1] = Shift(f[a + 1 + (n + 1)], shut)
    BY <1>4, <1>10, StackNext DEF shut
  <2> QED
    BY <1>16, <2>1
<1>18. Shift(f[(a + 1 + n) + 1], shut) = Close(f[(a + 1 + n) + 1])
  <2>1. shut.is = ")"
    BY DEF shut, Token
  <2> QED
    BY <2>1 DEF Shift
<1>19. Close(Append(Append(Append(f[a], open), x), lit)) = Append(f[a], Unary(x, lit.of))
  <2>1. open.is = "(" /\ lit.is # "(" /\ x.is # "("
    BY NoBracketInExpression DEF open, lit, Token
  <2>2. open \in Items /\ lit \in Items /\ x \in Items
    BY <1>4 DEF Items
  <2> QED
    BY <2>1, <2>2, CloseUnary
<1>20. lit.of = "IS_NULL"
  BY DEF lit, Token
<1>21. f[a + (n + 3)] = Append(f[a], e)
  BY <1>3, <1>12, <1>14, <1>15, <1>17, <1>18, <1>19, <1>20
<1> QED
  BY <1>1, <1>5, <1>10, <1>21, SMTT(30)

LEMMA ReadsBinary ==
  ASSUME text \in Seq(TextTokens), NEW f, IsStack(f), NEW e \in Expressions,
         IsBinary(e), Reads(f, e.lhs), Reads(f, e.rhs)
  PROVE  Reads(f, e)
<1> SUFFICES ASSUME NEW w \in Walks, NEW a \in Nat, w.handle.state = "ready",
                    Understood(w, BindParameters[e][w]), Holds(a, Format[e][w.index].text),
                    f[a] \in Seq(Items)
             PROVE  f[a + Len(Format[e][w.index].text)] = Append(f[a], e)
  BY DEF Reads
<1>1. PICK i \in Nat : i = w.index
  BY DEF Walks
<1>2. PICK x \in Expressions, y \in Expressions, o \in Literals :
        x = e.lhs /\ y = e.rhs /\ o = e.of
  BY DEF IsBinary
<1>3. e = Binary(x, o, y)
  BY <1>2 DEF IsBinary
<1> DEFINE u == BindParameters[x][w]
           v == BindParameters[y][u]
<1>4. /\ u \in Walks /\ u.handle.state = "ready" /\ u.index = Format[x][i].next
      /\ Reached(y, u, v) /\ BindParameters[e][w] = v
  <2>1. Reached(x, w, u)
    BY BindAgrees
  <2>2. u \in Walks /\ u.handle.state = "ready" /\ u.index = Format[x][i].next
    BY <1>1, <2>1 DEF Reached
  <2>3. Reached(y, u, v)
    BY <2>2, BindAgrees
  <2>4. BindParameters[e][w] = v
    BY <1>2, BoundParameters
  <2> QED
    BY <2>2, <2>3, <2>4
<1>5. i <= u.index
  BY <1>1, BindAgrees, SMTT(30) DEF Reached
<1> HIDE DEF u, v
<1>6. PICK j \in Nat, k \in Nat : j = u.index /\ k = v.index /\ i <= j /\ j <= k
  BY <1>4, <1>5 DEF Reached, Walks
<1>7. Understood(w, u) /\ Understood(u, v)
  <2>1. \A n \in i..k - 1 : n \in Params /\ Meant(n) = v.handle.bound[n]
    BY <1>1, <1>4, <1>6 DEF Understood
  <2>2. ASSUME NEW n \in i..j - 1 PROVE n \in Params /\ Meant(n) = u.handle.bound[n]
    <3>1. n \in i..k - 1 /\ n < j
      BY <1>6, SMTT(30)
    <3>2. v.handle.bound[n] = u.handle.bound[n]
      BY <1>4, <1>6, <2>1, <3>1 DEF Reached
    <3> QED
      BY <2>1, <3>1, <3>2
  <2>3. \A n \in j..k - 1 : n \in i..k - 1
    BY <1>6
  <2> QED
    BY <1>1, <1>6, <2>1, <2>2, <2>3 DEF Understood
<1> DEFINE lit == Token("literal", o)
           open == Token("(", Null)
           shut == Token(")", Null)
           s == Format[x][i].text
           t == Format[y][j].text
           m == Word("literal", o)
           b == (s \o m) \o t
<1>8. lit \in TextTokens /\ open \in TextTokens /\ shut \in TextTokens
  BY DEF Token, TextTokens
<1>9. Format[e][i].text = Bracketed(b)
  <2>1. Format[e][i].text
          = Bracketed(Format[e.lhs][i].text \o Word("literal", e.of)
                      \o Format[e.rhs][Format[e.lhs][i].next].text)
    BY BinaryText
  <2>2. Format[e.lhs][i].next = j
    BY <1>2, <1>4, <1>6, SMTT(30)
  <2> QED
    BY <1>2, <2>1, <2>2
<1>10. s \in Seq(TextTokens) /\ t \in Seq(TextTokens)
  BY Formatted
<1>11. PICK p \in Nat, q \in Nat : p = Len(s) /\ q = Len(t)
  BY <1>10, TextsJoined
<1>12. m \in Seq(TextTokens) /\ Len(m) = 1
  BY <1>8, WordTyped
<1> HIDE DEF s, t, m
<1>13. s \o m \in Seq(TextTokens) /\ Len(s \o m) = p + 1
  <2>1. s \o m \in Seq(TextTokens) /\ Len(s \o m) = Len(s) + Len(m)
    BY <1>10, <1>12, TextsJoined
  <2> QED
    BY <1>11, <1>12, <2>1
<1>14. b \in Seq(TextTokens) /\ Len(b) = (p + 1) + q
  BY <1>10, <1>11, <1>13, TextsJoined
<1>15. /\ Holds(a, Word("(", Null)) /\ Holds(a + 1, b)
       /\ Holds(a + 1 + ((p + 1) + q), Word(")", Null)) /\ Len(Bracketed(b)) = p + q + 3
  <2> HIDE DEF b
  <2>1. /\ Holds(a, Word("(", Null)) /\ Holds(a + 1, b)
        /\ Holds(a + 1 + Len(b), Word(")", Null)) /\ Len(Bracketed(b)) = Len(b) + 2
    <3>1. Holds(a, Bracketed(b))
      BY <1>1, <1>9
    <3> QED
      BY <1>14, <3>1, HoldsBracketed
  <2>2. ((p + 1) + q) + 2 = p + q + 3
    OBVIOUS
  <2> QED
    BY <1>14, <2>1, <2>2
<1>16. Holds(a + 1, s \o m) /\ Holds(a + 1 + (p + 1), t)
  <2> DEFINE r == s \o m
  <2>1. r \in Seq(TextTokens) /\ Len(r) = p + 1 /\ Holds(a + 1, r \o t)
    BY <1>13, <1>15
  <2> HIDE DEF r
  <2>2. Holds(a + 1, r) /\ Holds(a + 1 + Len(r), t)
    BY <1>10, <2>1, HoldsParts
  <2> QED
    BY <2>1, <2>2 DEF r
<1>17. Holds(a + 1, s) /\ Holds(a + 1 + p, m)
  BY <1>10, <1>11, <1>12, <1>16, HoldsParts
<1> HIDE DEF b, lit, open, shut
<1> DEFINE c == a + 1
           d == c + p
           g == d + 1
           h == g + q
<1>18. /\ c \in Nat /\ d \in Nat /\ g \in Nat /\ h \in Nat
       /\ a + 1 = c /\ a + 1 + p = d /\ a + 1 + (p + 1) = g
       /\ a + 1 + ((p + 1) + q) = h /\ a + (p + q + 3) = h + 1
  OBVIOUS
<1> HIDE DEF c, d, g, h
<1>19. lit \in Items /\ open \in Items /\ x \in Items /\ y \in Items
  BY <1>8 DEF Items
<1>20. f[c] = Append(f[a], open)
  BY <1>8, <1>15, <1>18, StackPushes, SMTT(30) DEF open
<1>21. f[c] \in Seq(Items)
  BY <1>19, <1>20
<1>22. f[d] = Append(f[c], x)
  BY <1>1, <1>2, <1>7, <1>11, <1>17, <1>18, <1>21, ZenonT(30) DEF Reads, s, u, d
<1>23. f[d] \in Seq(Items)
  BY <1>19, <1>21, <1>22
<1>24. f[g] = Append(f[d], lit)
  <2>1. Holds(d, Word("literal", o))
    BY <1>17, <1>18 DEF m
  <2> QED
    BY <1>8, <2>1, StackPushes DEF lit, g
<1>25. f[g] \in Seq(Items)
  BY <1>19, <1>23, <1>24, SMTT(30)
<1>26. f[h] = Append(f[g], y)
  BY <1>2, <1>4, <1>6, <1>7, <1>11, <1>16, <1>18, <1>25, ZenonT(30) DEF Reads, t, v, h
<1>27. f[h + 1] = Shift(f[h], shut)
  <2>1. Holds(h, Word(")", Null))
    BY <1>15, <1>18
  <2> QED
    BY <1>8, <2>1, StackNext DEF shut
<1>28. Shift(f[h], shut) = Close(f[h])
  <2>1. shut.is = ")"
    BY DEF shut, Token
  <2> QED
    BY <2>1 DEF Shift
<1>29. lit.of = o /\ open.is = "(" /\ lit.is # "(" /\ x.is # "(" /\ y.is # "("
  BY NoBracketInExpression DEF open, lit, Token
<1>30. Close(Append(Append(Append(Append(f[a], open), x), lit), y))
         = Append(f[a], Binary(x, lit.of, y))
  <2>1. PICK before \in Seq(Items) : before = f[a]
    OBVIOUS
  <2>2. Close(Append(Append(Append(Append(before, open), x), lit), y))
          = Append(before, Binary(x, lit.of, y))
    BY <1>19, <1>29, CloseBinary, SMTT(30)
  <2> QED
    BY <2>1, <2>2
<1>31. f[h + 1] = Append(f[a], e)
  BY <1>3, <1>20, <1>22, <1>24, <1>26, <1>27, <1>28, <1>29, <1>30
<1> QED
  BY <1>1, <1>9, <1>15, <1>18, <1>31

LEMMA ReadsExpressions ==
  ASSUME text \in Seq(TextTokens), NEW f, IsStack(f)
  PROVE  \A e \in Expressions : Reads(f, e)
<1> DEFINE H == {e \in Expressions : Reads(f, e)}
<1>1. ASSUME NEW e \in Expressions, \A x \in Expressions : Rank[x] < Rank[e] => x \in H
      PROVE  e \in H
  <2>1. CASE IsColumn(e)
    BY <2>1, ReadsColumn
  <2>2. CASE IsParameter(e)
    BY <2>2, ReadsParameter
  <2>3. CASE IsBinary(e)
    <3>1. Reads(f, e.lhs) /\ Reads(f, e.rhs)
      BY <1>1, <2>3 DEF IsBinary
    <3> QED
      BY <2>3, <3>1, ReadsBinary
  <2>4. CASE IsUnary(e)
    <3>1. Reads(f, e.operand)
      BY <1>1, <2>4 DEF IsUnary
    <3> QED
      BY <2>4, <3>1, ReadsUnary
  <2> QED
    BY <2>1, <2>2, <2>3, <2>4, Shapes
<1>2. Expressions \subseteq H
  <2> HIDE DEF H
  <2> QED
    BY <1>1, ExpressionsRanked, RankInduction
<1> QED
  BY <1>2
------------------------------------------------------------------------------
(* The invariant: SET clauses, chain and what was asked for go together, the  *)
(* text is that of the condition after them, and what is bound is what the    *)
(* chain and the walk over the condition bind.                                *)

Given == [column : Columns, object : Objects]

SetsOK ==
  /\ sets \in Seq([column : Columns, index : Params]) /\ Len(sets) <= MaxSets
  /\ \A i \in 1..Len(sets) : sets[i].index = i
  /\ ChainOK(chain) /\ Len(chain) = Len(sets)
  /\ given = [sets |-> given.sets, where |-> given.where]
  /\ given.sets \in Seq(Given) /\ Len(given.sets) = Len(sets)
  /\ \A i \in 1..Len(sets) :
       given.sets[i].column = sets[i].column /\ given.sets[i].object = chain[i].object

WhereOK ==
  /\ text = << >> => index = Len(sets) + 1 /\ where.from = 1
  /\ text # << >> => /\ where.expression = given.where /\ given.where \in Expressions
                     /\ where.from = Len(sets) + 1
                     /\ text = Format[given.where][where.from].text
                     /\ index \in Nat \ {0}

(* What a statement is bound to when the chain c and then a walk have bound it. *)
BoundBy(c, w) ==
  BindParameters[w.expression][[handle |-> Linked(c), index |-> w.from]].handle

HandleOK ==
  /\ kind \in {"none", "builder", "updater", "remover", "reader"}
  /\ kind = "none" => sets = << >> /\ text = << >>
  /\ handle \in Handles
  /\ Made => text # << >> /\ handle.bound = BoundBy(chain, where).bound

Inv == SetsOK /\ WhereOK /\ HandleOK

LEMMA FormatNotEmpty ==
  ASSUME NEW e \in Expressions, NEW i \in Nat
  PROVE  Format[e][i].text # << >>
<1>1. ASSUME NEW t \in Seq(TextTokens), t = << >> PROVE Len(t) = 0
  BY <1>1
<1>2. ASSUME NEW b \in Seq(TextTokens) PROVE Bracketed(b) # << >>
  <2>1. /\ Token("(", Null) \in TextTokens /\ Token(")", Null) \in TextTokens
    BY DEF Token, TextTokens
  <2>2. PICK l \in Seq(TextTokens) : l = Word("(", Null) /\ Len(l) = 1
    BY <2>1, WordTyped
  <2>3. PICK r \in Seq(TextTokens) : r = Word(")", Null) /\ Len(r) = 1
    BY <2>1, WordTyped
  <2>4. PICK x \in Seq(TextTokens) : x = l \o b /\ Len(x) = 1 + Len(b)
    <3>1. l \o b \in Seq(TextTokens) /\ Len(l \o b) = Len(l) + Len(b)
      BY TextsJoined
    <3> QED
      BY <2>2, <3>1
  <2>5. Len(x \o r) = (1 + Len(b)) + 1 /\ Len(b) \in Nat
    BY <2>3, <2>4, TextsJoined
  <2>6. Bracketed(b) = x \o r
    BY <2>2, <2>3, <2>4 DEF Bracketed
  <2>7. Len(Bracketed(b)) # 0
    BY <2>5, <2>6
  <2>8. Len(<< >>) = 0
    OBVIOUS
  <2> QED
    BY <2>7, <2>8
<1>3. CASE IsColumn(e)
  <2>1. Format[e][i] = [text |-> Word("column", e.of), next |-> i]
    BY <1>3, Formatted
  <2>2. Word("column", e.of) # << >>
    BY DEF Word
  <2> QED
    BY <2>1, <2>2
<1>4. CASE IsParameter(e)
  <2>1. Format[e][i] = [text |-> Word("parameter", i), next |-> i + 1]
    BY <1>4, Formatted, ZenonT(30)
  <2>2. Word("parameter", i) # << >>
    BY DEF Word
  <2> QED
    BY <2>1, <2>2
<1>5. CASE IsBinary(e)
  <2> DEFINE l == Format[e.lhs][i]
             r == Format[e.rhs][l.next]
             m == Word("literal", e.of)
             s == l.text \o m
             b == s \o r.text
  <2>1. Format[e][i].text = Bracketed(b)
    BY <1>5, BinaryText
  <2>2. l.text \in Seq(TextTokens) /\ l.next \in Nat
    BY <1>5, Formatted DEF IsBinary
  <2> HIDE DEF l
  <2>3. r.text \in Seq(TextTokens)
    BY <1>5, <2>2, Formatted DEF IsBinary
  <2>4. m \in Seq(TextTokens)
    BY <1>5, WordsTyped DEF IsBinary
  <2> HIDE DEF r, m
  <2>5. s \in Seq(TextTokens)
    BY <2>2, <2>4, TextsJoined
  <2> HIDE DEF s
  <2>6. b \in Seq(TextTokens)
    BY <2>3, <2>5, TextsJoined
  <2> HIDE DEF b
  <2> QED
    BY <1>2, <2>1, <2>6
<1>6. CASE IsUnary(e)
  <2> DEFINE u == Format[e.operand][i]
             m == Word("literal", e.of)
             b == u.text \o m
  <2>1. Format[e][i].text = Bracketed(b)
    BY <1>6, UnaryText
  <2>2. u.text \in Seq(TextTokens)
    BY <1>6, Formatted DEF IsUnary
  <2>3. m \in Seq(TextTokens)
    BY <1>6, CaseOfShape, WordsTyped
  <2> HIDE DEF u, m
  <2>4. b \in Seq(TextTokens)
    BY <2>2, <2>3, TextsJoined
  <2> HIDE DEF b
  <2> QED
    BY <1>2, <2>1, <2>4
<1> QED
  BY <1>3, <1>4, <1>5, <1>6, Shapes

(* The clauses may be as many as there are parameters for. *)
LEMMA FromInParams ==
  ASSUME NEW n \in Nat, n <= MaxSets
  PROVE  n + 1 \in Params /\ n + 1 \in 1..MaxSets + 1
<1>1. PICK N \in Nat : Params = 1..N /\ MaxSets < N
  BY ParamsNumbered
<1>2. MaxSets \in Nat
  BY SetsAssumption
<1>3. n + 1 \in 1..N /\ n + 1 \in 1..MaxSets + 1
  BY <1>1, <1>2
<1> QED
  BY <1>1, <1>3

LEMMA PreparedTyped == Prepared \in Handles /\ Prepared.state = "ready"
                       /\ Unprepared \in Handles
  BY DEF Prepared, Unprepared, Unbound, Handles

LEMMA LinkedNothing == Linked(<< >>) = Prepared /\ ChainOK(<< >>)
<1>1. \A n \in Params : ~(n <= 0)
  BY ParamsNumbered
<1>2. Len(<< >>) = 0
  OBVIOUS
<1>3. Linked(<< >>) = Prepared
  BY <1>1, <1>2 DEF Linked, LinkedUpTo, Prepared, Unbound
<1>4. ChainOK(<< >>)
  BY SetsAssumption DEF ChainOK
<1> QED
  BY <1>3, <1>4

(* The walk over the condition of a statement starts and ends at statements. *)
LEMMA WalkFrom ==
  ASSUME NEW c, ChainOK(c), NEW e \in Expressions, NEW from \in Nat
  PROVE  LET w == [handle |-> Linked(c), index |-> from]
         IN  w \in Walks /\ w.handle.state = "ready" /\ Reached(e, w, BindParameters[e][w])
<1> DEFINE w == [handle |-> Linked(c), index |-> from]
<1>1. Len(c) \in Nat
  BY DEF ChainOK
<1>2. Linked(c) \in Handles
  BY <1>1, LinkedTyped DEF Linked
<1>3. Linked(c).state = "ready"
  BY DEF Linked, LinkedUpTo
<1>4. w \in Walks /\ w.handle.state = "ready"
  BY <1>2, <1>3 DEF Walks
<1> HIDE DEF w
<1>5. Reached(e, w, BindParameters[e][w])
  BY <1>4, BindAgrees
<1> QED
  BY <1>4, <1>5 DEF w

LEMMA BoundByTyped ==
  ASSUME NEW c, ChainOK(c), NEW w, w.expression \in Expressions, w.from \in Nat
  PROVE  BoundBy(c, w) \in Handles
<1> DEFINE x == [handle |-> Linked(c), index |-> w.from]
<1>1. Reached(w.expression, x, BindParameters[w.expression][x])
  BY WalkFrom
<1> HIDE DEF x
<1> QED
  BY <1>1 DEF Reached, Walks, BoundBy, x

LEMMA UpdateBinds ==
  ASSUME ChainOK(chain)
  PROVE  UpdateBindings(Prepared) = BoundBy(chain, where)
  BY UpdateBindingsLinked DEF BoundBy

LEMMA InvInit == Init => Inv
<1> SUFFICES ASSUME Init PROVE Inv
  OBVIOUS
<1>1. Len(<< >>) = 0 /\ \A S : << >> \in Seq(S)
  OBVIOUS
<1>2. given = [sets |-> given.sets, where |-> given.where] /\ given.sets = << >>
  BY DEF Init
<1>3. sets = << >> /\ chain = << >> /\ text = << >> /\ index = 1 /\ where.from = 1
      /\ kind = "none" /\ handle = Unprepared
  BY DEF Init
<1>4. SetsOK
  <2>1. \A i \in 1..0 : FALSE
    OBVIOUS
  <2>2. 0 <= MaxSets
    BY SetsAssumption
  <2> QED
    BY <1>1, <1>2, <1>3, <2>1, <2>2, LinkedNothing DEF SetsOK
<1>5. WhereOK
  BY <1>1, <1>3 DEF WhereOK
<1>6. HandleOK
  BY <1>3, PreparedTyped DEF HandleOK, Made
<1> QED
  BY <1>4, <1>5, <1>6 DEF Inv

LEMMA InvAddSet ==
  ASSUME Inv, NEW c \in Columns, NEW o \in Objects, AddSet(c, o)
  PROVE  Inv'
<1>1. SetsOK /\ WhereOK /\ HandleOK
  BY DEF Inv
<1>2. text = << >> /\ (kind = "none" => sets = << >>)
  BY <1>1 DEF AddSet, HandleOK
<1>3. PICK n \in Nat : n = Len(sets)
  BY <1>1 DEF SetsOK
<1>4. index = n + 1 /\ where.from = 1
  BY <1>1, <1>2, <1>3 DEF WhereOK
<1>5. n < MaxSets
  <2>1. Len(<< >>) = 0
    OBVIOUS
  <2> QED
    BY <1>2, <1>3, <2>1, SetsAssumption DEF AddSet
<1>6. n + 1 \in Params /\ n + 1 <= MaxSets
  BY <1>5, FromInParams, SetsAssumption
<1> DEFINE s == [column |-> c, index |-> n + 1]
           l == [index |-> n + 1, object |-> o]
           g == [column |-> c, object |-> o]
           SetType == [column : Columns, index : Params]
<1>7. s \in SetType /\ l \in Links /\ g \in Given
  BY <1>6 DEF Links, Given
<1>8. s.index = n + 1 /\ l.index = n + 1 /\ g.column = s.column /\ g.object = l.object
  OBVIOUS
<1>9. sets' = Append(sets, s) /\ chain' = Append(chain, l) /\ index' = (n + 1) + 1
      /\ given' = [given EXCEPT !.sets = Append(@, g)] /\ kind' = "builder"
      /\ text' = text /\ where' = where /\ handle' = handle
  BY <1>4 DEF AddSet
<1>10. given'.sets = Append(given.sets, g)
       /\ given' = [sets |-> given'.sets, where |-> given'.where]
  <2>1. given = [sets |-> given.sets, where |-> given.where]
    BY <1>1 DEF SetsOK
  <2> HIDE DEF g
  <2> QED
    BY <1>9, <2>1
<1> HIDE DEF s, l, g, SetType
<1>11. /\ sets \in Seq(SetType) /\ chain \in Seq(Links) /\ given.sets \in Seq(Given)
       /\ Len(sets) = n /\ Len(chain) = n /\ Len(given.sets) = n
       /\ \A i \in 1..n : /\ sets[i].index = i /\ chain[i].index = i
                          /\ given.sets[i].column = sets[i].column
                          /\ given.sets[i].object = chain[i].object
  BY <1>1, <1>3 DEF SetsOK, ChainOK, SetType
<1>12. /\ sets' \in Seq(SetType) /\ Len(sets') = n + 1
       /\ sets'[n + 1] = s /\ \A i \in 1..n : sets'[i] = sets[i]
  BY <1>7, <1>9, <1>11
<1>13. /\ chain' \in Seq(Links) /\ Len(chain') = n + 1
       /\ chain'[n + 1] = l /\ \A i \in 1..n : chain'[i] = chain[i]
  BY <1>7, <1>9, <1>11
<1>14. /\ given'.sets \in Seq(Given) /\ Len(given'.sets) = n + 1
       /\ given'.sets[n + 1] = g /\ \A i \in 1..n : given'.sets[i] = given.sets[i]
  BY <1>7, <1>10, <1>11
<1>15. \A i \in 1..n + 1 : i \in 1..n \/ i = n + 1
  OBVIOUS
<1>16. ASSUME NEW i \in 1..n + 1
       PROVE  /\ sets'[i].index = i /\ chain'[i].index = i
              /\ given'.sets[i].column = sets'[i].column
              /\ given'.sets[i].object = chain'[i].object
  <2>1. CASE i \in 1..n
    BY <1>11, <1>12, <1>13, <1>14, <2>1
  <2>2. CASE i = n + 1
    BY <1>8, <1>12, <1>13, <1>14, <2>2
  <2> QED
    BY <1>15, <2>1, <2>2
<1>17. ChainOK(chain')
  BY <1>6, <1>13, <1>16 DEF ChainOK
<1>18. SetsOK'
  BY <1>6, <1>10, <1>12, <1>13, <1>14, <1>16, <1>17 DEF SetsOK, SetType
<1>19. WhereOK'
  BY <1>2, <1>4, <1>9, <1>12 DEF WhereOK
<1>20. HandleOK'
  BY <1>1, <1>9 DEF HandleOK, Made
<1> QED
  BY <1>18, <1>19, <1>20 DEF Inv

LEMMA InvAddWhere ==
  ASSUME Inv, NEW e \in Expressions, AddWhere(e)
  PROVE  Inv'
<1>1. SetsOK /\ WhereOK /\ HandleOK
  BY DEF Inv
<1>2. PICK n \in Nat : n = Len(sets)
  BY <1>1 DEF SetsOK
<1>3. index = n + 1 /\ kind = "builder"
  BY <1>1, <1>2 DEF AddWhere, WhereOK
<1>4. given = [sets |-> given.sets, where |-> given.where]
  BY <1>1 DEF SetsOK
<1>5. given' = [sets |-> given.sets, where |-> e]
  BY <1>4 DEF AddWhere
<1>6. given'.sets = given.sets /\ given'.where = e
      /\ given' = [sets |-> given'.sets, where |-> given'.where]
  BY <1>5
<1>7. where' = [from |-> n + 1, expression |-> e]
  BY <1>3 DEF AddWhere
<1>8. where'.from = n + 1 /\ where'.expression = e
  BY <1>7
<1>9. text' = Format[e][n + 1].text /\ index' = Format[e][n + 1].next
      /\ sets' = sets /\ chain' = chain /\ handle' = handle /\ kind' = "builder"
  BY <1>3 DEF AddWhere
<1>10. text' # << >>
  BY <1>9, FormatNotEmpty
<1>11. index' \in Nat \ {0}
  <2>1. Numbered(Format[e][n + 1].text, n + 1, Format[e][n + 1].next)
    BY FormatNumbered
  <2> QED
    BY <1>9, <2>1 DEF Numbered
<1>12. SetsOK'
  BY <1>1, <1>6, <1>9 DEF SetsOK
<1>13. WhereOK'
  BY <1>2, <1>6, <1>8, <1>9, <1>10, <1>11 DEF WhereOK
<1>14. HandleOK'
  BY <1>1, <1>9 DEF HandleOK, Made
<1> QED
  BY <1>12, <1>13, <1>14 DEF Inv

LEMMA InvBuild ==
  ASSUME Inv, NEW e \in Expressions, NEW k \in {"remover", "reader"}, Build(k, e)
  PROVE  Inv'
<1>1. SetsOK /\ WhereOK /\ HandleOK
  BY DEF Inv
<1>2. sets = << >> /\ text = << >> /\ Len(sets) = 0
  BY <1>1 DEF Build, HandleOK
<1>3. chain = << >> /\ index = 1
  <2>1. Len(chain) = 0 /\ chain \in Seq(Links)
    BY <1>1, <1>2 DEF SetsOK, ChainOK
  <2> QED
    BY <1>1, <1>2, <2>1 DEF WhereOK
<1>4. given = [sets |-> given.sets, where |-> given.where]
  BY <1>1 DEF SetsOK
<1>5. given' = [sets |-> given.sets, where |-> e]
  BY <1>4 DEF Build
<1>6. given'.sets = given.sets /\ given'.where = e
      /\ given' = [sets |-> given'.sets, where |-> given'.where]
  BY <1>5
<1>7. where'.from = 1 /\ where'.expression = e
  BY DEF Build
<1>8. /\ text' = Format[e][1].text /\ index' = index /\ kind' = k
      /\ sets' = sets /\ chain' = chain
      /\ handle' = BindParameters[e][[handle |-> Prepared, index |-> 1]].handle
  BY DEF Build
<1>9. text' # << >>
  BY <1>8, FormatNotEmpty
<1>10. handle' = BoundBy(chain', where')
  BY <1>3, <1>7, <1>8, LinkedNothing DEF BoundBy
<1>11. ChainOK(chain')
  BY <1>1, <1>8 DEF SetsOK
<1>12. handle' \in Handles
  BY <1>7, <1>10, <1>11, BoundByTyped
<1>13. SetsOK'
  BY <1>1, <1>6, <1>8 DEF SetsOK
<1>14. WhereOK'
  <2>1. 1 \in Nat \ {0} /\ 1 = 0 + 1
    OBVIOUS
  <2> QED
    BY <1>2, <1>3, <1>6, <1>7, <1>8, <1>9, <2>1 DEF WhereOK
<1>15. HandleOK'
  BY <1>8, <1>9, <1>10, <1>12 DEF HandleOK, Made
<1> QED
  BY <1>13, <1>14, <1>15 DEF Inv

(* The statement is bound in full by _update_bindings. *)
LEMMA InvBound ==
  ASSUME Inv, text # << >>, kind' \in {"updater", "remover"},
         handle' = UpdateBindings(Prepared),
         UNCHANGED <<sets, text, chain, where, index, given>>
  PROVE  Inv'
<1>1. SetsOK /\ WhereOK /\ HandleOK
  BY DEF Inv
<1>2. ChainOK(chain) /\ Len(sets) \in Nat
  BY <1>1 DEF SetsOK
<1>3. where.expression \in Expressions /\ where.from \in Nat
  BY <1>1, <1>2 DEF WhereOK
<1>4. handle' = BoundBy(chain, where) /\ handle' \in Handles
  BY <1>2, <1>3, UpdateBinds, BoundByTyped
<1>5. SetsOK'
  BY <1>1 DEF SetsOK
<1>6. WhereOK'
  BY <1>1 DEF WhereOK
<1>7. HandleOK'
  BY <1>4 DEF HandleOK, Made
<1> QED
  BY <1>5, <1>6, <1>7 DEF Inv

LEMMA InvNext == Inv /\ [Next]_vars => Inv'
<1> SUFFICES ASSUME Inv, [Next]_vars PROVE Inv'
  OBVIOUS
<1>1. CASE \E c \in Columns, o \in Objects : AddSet(c, o)
  BY <1>1, InvAddSet
<1>2. CASE \E e \in Expressions : AddWhere(e)
  BY <1>2, InvAddWhere
<1>3. CASE \E e \in Expressions, k \in {"remover", "reader"} : Build(k, e)
  BY <1>3, InvBuild
<1>4. CASE Create
  <2>1. text # << >> /\ kind' \in {"updater", "remover"}
        /\ handle' = UpdateBindings(Prepared)
        /\ UNCHANGED <<sets, text, chain, where, index, given>>
    BY <1>4 DEF Create
  <2> QED
    BY <2>1, InvBound
<1>5. CASE Execute
  <2>1. PICK state \in {"row", "stalled", "halted"} : handle' = [handle EXCEPT !.state = state]
    BY <1>5 DEF Execute, Step
  <2>2. UNCHANGED <<kind, sets, text, chain, where, index, given>>
    BY <1>5 DEF Execute
  <2>3. handle \in Handles
    BY DEF Inv, HandleOK
  <2>4. handle' \in Handles /\ handle'.bound = handle.bound
    BY <2>1, <2>3 DEF Handles
  <2>5. SetsOK' /\ WhereOK'
    BY <2>2 DEF Inv, SetsOK, WhereOK
  <2>6. HandleOK'
    BY <2>2, <2>4 DEF Inv, HandleOK, Made
  <2> QED
    BY <2>5, <2>6 DEF Inv
<1>6. CASE ResetBindings
  <2>1. Made
    BY <1>6 DEF ResetBindings, Made
  <2>2. text # << >>
    BY <2>1 DEF Inv, HandleOK
  <2>3. kind' \in {"updater", "remover"} /\ handle' = UpdateBindings(Prepared)
        /\ UNCHANGED <<sets, text, chain, where, index, given>>
    BY <1>6 DEF ResetBindings, Reset
  <2> QED
    BY <2>2, <2>3, InvBound
<1>7. CASE UNCHANGED vars
  BY <1>7 DEF vars, Inv, SetsOK, WhereOK, HandleOK, Made
<1> QED
  BY <1>1, <1>2, <1>3, <1>4, <1>5, <1>6, <1>7 DEF Next

LEMMA InvAlways == Spec => []Inv
<1> QED
  BY InvInit, InvNext, PTL DEF Spec

------------------------------------------------------------------------------
(* The text of a finished statement.                                         *)

(* The condition of a statement with a text: where its parameters are. *)
LEMMA Condition ==
  ASSUME Inv, text # << >>
  PROVE  \E from \in Nat, next \in Nat :
           /\ from = Len(sets) + 1 /\ from = where.from /\ from \in Params
           /\ next = Format[given.where][from].next
           /\ Numbered(text, from, next)
           /\ from..next - 1 \subseteq Params
<1> DEFINE e == given.where
<1>1. PICK n \in Nat : n = Len(sets) /\ n <= MaxSets
  BY DEF Inv, SetsOK
<1>2. /\ e \in Expressions /\ where.from = n + 1
      /\ text = Format[e][n + 1].text
  BY <1>1 DEF Inv, WhereOK
<1>3. n + 1 \in Params /\ n + 1 \in 1..MaxSets + 1
  BY <1>1, FromInParams
<1> HIDE DEF e
<1>4. PICK next \in Nat : next = Format[e][n + 1].next
  <2>1. n + 1 \in Nat
    OBVIOUS
  <2>2. Format[e][n + 1].next \in Nat
    BY <1>2, <2>1, Formatted
  <2> QED
    BY <2>2
<1>5. Numbered(text, n + 1, next)
  BY <1>2, <1>4, FormatNumbered
<1>6. next - 1 <= Cardinality(Params)
  BY <1>2, <1>3, <1>4, ParamsAssumption
<1>7. (n + 1)..next - 1 \subseteq Params
  <2>1. PICK N \in Nat : N = Cardinality(Params) /\ Params = 1..N
    BY ParamsNumbered
  <2>2. next - 1 <= N
    BY <1>6, <2>1
  <2>3. ASSUME NEW k \in (n + 1)..next - 1 PROVE k \in 1..N
    BY <1>4, <2>2, SMTT(30)
  <2> QED
    BY <2>1, <2>3
<1> QED
  BY <1>1, <1>2, <1>3, <1>4, <1>5, <1>7 DEF e

(* The names of the whole statement: those of the SET clauses come first. *)
LEMMA TokensNumbered ==
  ASSUME Inv, NEW m \in Nat, NEW next, m = Len(sets), Numbered(text, m + 1, next)
  PROVE  Numbered(Tokens, 1, next)
<1> DEFINE t == [i \in DOMAIN sets |-> Token("parameter", sets[i].index)]
<1>1. DOMAIN sets = 1..m /\ \A i \in 1..m : sets[i].index = i
  BY DEF Inv, SetsOK
<1>2. t = [i \in 1..m |-> Token("parameter", i)]
  BY <1>1
<1>3. \A i \in 1..m : t[i] = Token("parameter", i) /\ t[i].is = "parameter" /\ t[i].of = i
  BY <1>2 DEF Token
<1>4. t \in Seq(TextTokens) /\ Len(t) = m
  <2>1. \A i \in 1..m : Token("parameter", i) \in TextTokens
    BY DEF Token, TextTokens
  <2> QED
    BY <1>2, <2>1
<1> HIDE DEF t
<1>5. ASSUME NEW p \in 0..m PROVE NamesIn(t, p) = 1..p
  <2>1. \A k \in 1..p : t[k].is = "parameter" /\ t[k].of = k
    BY <1>3
  <2>2. {k \in 1..p : t[k].is = "parameter"} = 1..p
    BY <2>1
  <2>3. {t[j].of : j \in 1..p} = 1..p
    BY <2>1
  <2> QED
    BY <2>2, <2>3 DEF NamesIn
<1>6. \A p \in 0..m : p + 1 \in 1..m + 1 /\ (p + 1) - 1 = p
  OBVIOUS
<1>7. \A p \in 0..Len(t) : \E c \in 1..m + 1 : NamesIn(t, p) = 1..c - 1
  BY <1>4, <1>5, <1>6
<1>8. NamesIn(t, Len(t)) = 1..(m + 1) - 1
  BY <1>4, <1>5
<1>9. Numbered(t, 1, m + 1)
  BY <1>4, <1>7, <1>8 DEF Numbered
<1>10. Numbered(t \o text, 1, next)
  BY <1>9, NumberedConcat
<1> QED
  BY <1>10 DEF Tokens, t

LEMMA MeantIsBound ==
  ASSUME Inv, NEW next, Numbered(Tokens, 1, next), NEW n \in Params, n < next
  PROVE  Meant(n) = handle.bound[n]
<1>1. next \in Nat
  BY DEF Numbered
<1>2. n \in 1..next - 1
  BY <1>1, ParamsNumbered
<1>3. SqlIndex(n) = n
  BY <1>2, IndexIsName
<1> QED
  BY <1>3 DEF Meant

LEMMA InvTypeOK == Inv => TypeOK
<1> SUFFICES ASSUME Inv PROVE TypeOK
  OBVIOUS
<1>1. SetsOK /\ WhereOK /\ HandleOK
  BY DEF Inv
<1>2. PICK n \in Nat : n = Len(sets) /\ n <= MaxSets
  BY <1>1 DEF SetsOK
<1>3. n + 1 \in Params /\ 1 \in Params
  BY <1>2, FromInParams, ParamsNumbered, SetsAssumption
<1>4. \A i \in DOMAIN text : text[i].is = "parameter" => text[i].of \in Params
  <2>1. CASE text = << >>
    BY <2>1
  <2>2. CASE text # << >>
    <3>1. PICK from \in Nat, next \in Nat :
            Numbered(text, from, next) /\ from..next - 1 \subseteq Params
      BY <2>2, Condition
    <3>2. text \in Seq(TextTokens) /\ NamesIn(text, Len(text)) \subseteq Params
      BY <3>1 DEF Numbered
    <3>3. ASSUME NEW i \in DOMAIN text, text[i].is = "parameter" PROVE text[i].of \in Params
      <4>1. i \in 1..Len(text)
        BY <3>2
      <4>2. text[i].of \in NamesIn(text, Len(text))
        BY <3>3, <4>1 DEF NamesIn
      <4> QED
        BY <3>2, <4>2
    <3> QED
      BY <3>3
  <2> QED
    BY <2>1, <2>2
<1>5. where.from \in Params /\ index \in Nat \ {0}
  BY <1>1, <1>2, <1>3 DEF WhereOK
<1>6. chain \in Seq([index : Params, object : Objects])
  BY <1>1 DEF SetsOK, ChainOK, Links
<1>7. /\ sets \in Seq([column : Columns, index : Params])
      /\ Len(given.sets) = Len(sets)
  BY <1>1 DEF SetsOK
<1>8. handle \in Handles /\ kind \in {"none", "builder", "updater", "remover", "reader"}
  BY <1>1 DEF HandleOK
<1> QED
  BY <1>4, <1>5, <1>6, <1>7, <1>8 DEF TypeOK

LEMMA InvConditionReadsBack == Inv => ConditionReadsBack
<1> SUFFICES ASSUME Inv, Made PROVE Parsed = <<given.where>>
  BY DEF ConditionReadsBack
<1> DEFINE e == given.where
           w == [handle |-> Linked(chain), index |-> where.from]
           v == BindParameters[e][w]
<1>1. text # << >> /\ handle.bound = BoundBy(chain, where).bound /\ ChainOK(chain)
  BY DEF Inv, HandleOK, SetsOK
<1>2. PICK from \in Nat, next \in Nat :
        /\ from = Len(sets) + 1 /\ from = where.from /\ next = Format[e][from].next
        /\ Numbered(text, from, next) /\ from..next - 1 \subseteq Params
  BY <1>1, Condition
<1>3. e \in Expressions /\ where.expression = e /\ text = Format[e][from].text
  BY <1>1, <1>2 DEF Inv, WhereOK
<1>4. w.index = from /\ w.handle = Linked(chain)
  BY <1>2
<1>5. w \in Walks /\ w.handle.state = "ready" /\ Reached(e, w, v)
  BY <1>1, <1>2, <1>3, WalkFrom
<1>6. handle.bound = v.handle.bound
  BY <1>1, <1>3 DEF BoundBy
<1> HIDE DEF e, w, v
<1>7. v.index = next
  BY <1>2, <1>4, <1>5 DEF Reached
<1>8. Numbered(Tokens, 1, next)
  <2>1. PICK m \in Nat : m = Len(sets)
    BY DEF Inv, SetsOK
  <2> QED
    BY <1>2, <2>1, TokensNumbered
<1>9. Understood(w, v)
  <2>1. ASSUME NEW n \in from..next - 1 PROVE n \in Params /\ Meant(n) = v.handle.bound[n]
    <3>1. n \in Params /\ n < next
      BY <1>2
    <3> QED
      BY <1>6, <1>8, <3>1, MeantIsBound
  <2> QED
    BY <1>4, <1>7, <2>1 DEF Understood
<1>10. text \in Seq(TextTokens)
  BY <1>2 DEF Numbered
<1>11. PICK N \in Nat : N = Len(text)
  BY <1>10
<1>12. PICK f : IsStack(f) /\ Parsed = f[N]
  BY <1>11, ParsedIsLast
<1>13. f[0] = << >>
  BY <1>11, <1>12 DEF IsStack
<1>14. f[0] \in Seq(Items)
  BY <1>13
<1>15. Holds(0, text)
  BY <1>10, <1>11 DEF Holds
<1>16. Reads(f, e)
  BY <1>3, <1>10, <1>12, ReadsExpressions
<1>17. f[0 + Len(text)] = Append(f[0], e)
  <2>1. Format[e][w.index].text = text
    BY <1>3, <1>4
  <2>2. Understood(w, BindParameters[e][w])
    BY <1>9 DEF v
  <2> QED
    BY <1>5, <1>14, <1>15, <1>16, <2>1, <2>2 DEF Reads
<1>18. Append(<< >>, e) = <<e>>
  OBVIOUS
<1>19. Parsed = <<e>>
  BY <1>11, <1>12, <1>13, <1>17, <1>18
<1> QED
  BY <1>19 DEF e

LEMMA InvSetsReadBack == Inv => SetsReadBack
<1> SUFFICES ASSUME Inv, Made
             PROVE  given.sets = [i \in DOMAIN sets |->
                      [column |-> sets[i].column, object |-> Meant(sets[i].index)]]
  BY DEF SetsReadBack
<1> DEFINE e == given.where
           w == [handle |-> Linked(chain), index |-> where.from]
           v == BindParameters[e][w]
<1>1. text # << >> /\ handle.bound = BoundBy(chain, where).bound /\ ChainOK(chain)
  BY DEF Inv, HandleOK, SetsOK
<1>2. PICK from \in Nat, next \in Nat :
        /\ from = Len(sets) + 1 /\ from = where.from /\ next = Format[e][from].next
        /\ from \in Params /\ Numbered(text, from, next)
  BY <1>1, Condition
<1>3. e \in Expressions /\ where.expression = e
  BY <1>1 DEF Inv, WhereOK
<1>4. w.index = from /\ w.handle = Linked(chain)
  BY <1>2
<1>5. Reached(e, w, v)
  BY <1>1, <1>2, <1>3, WalkFrom
<1>6. handle.bound = v.handle.bound
  BY <1>1, <1>3 DEF BoundBy
<1> HIDE DEF e, w, v
<1>7. PICK m \in Nat : m = Len(sets) /\ m = Len(chain) /\ m = Len(given.sets)
  BY DEF Inv, SetsOK
<1>8. Numbered(Tokens, 1, next) /\ from <= next
  <2>1. Numbered(text, m + 1, next)
    BY <1>2, <1>7
  <2>2. from <= next
    BY <1>2 DEF Numbered
  <2> QED
    BY <1>7, <2>1, <2>2, TokensNumbered
<1>9. ASSUME NEW i \in 1..m PROVE Meant(i) = chain[i].object
  <2>1. i \in Params /\ i < from
    <3>1. PICK N \in Nat : Params = 1..N
      BY ParamsNumbered
    <3>2. from = m + 1 /\ from <= N
      BY <1>2, <1>7, <3>1
    <3> QED
      BY <3>1, <3>2
  <2>2. i < next
    BY <1>2, <1>8, <2>1
  <2>3. Meant(i) = handle.bound[i]
    BY <1>8, <2>1, <2>2, MeantIsBound
  <2>4. v.handle.bound[i] = Linked(chain).bound[i]
    BY <1>4, <1>5, <2>1 DEF Reached
  <2>5. Linked(chain).bound[i] = chain[i].object
    <3>1. i <= m
      OBVIOUS
    <3> QED
      BY <1>7, <2>1, <3>1 DEF Linked, LinkedUpTo
  <2> QED
    BY <1>6, <2>3, <2>4, <2>5
<1>10. /\ given.sets \in Seq(Given) /\ DOMAIN sets = 1..m
       /\ \A i \in 1..m : /\ sets[i].index = i
                          /\ given.sets[i].column = sets[i].column
                          /\ given.sets[i].object = chain[i].object
  BY <1>7 DEF Inv, SetsOK
<1>11. ASSUME NEW i \in 1..m
       PROVE  given.sets[i] = [column |-> sets[i].column, object |-> Meant(sets[i].index)]
  <2>1. given.sets[i] \in Given
    BY <1>7, <1>10
  <2>2. given.sets[i] = [column |-> given.sets[i].column, object |-> given.sets[i].object]
    BY <2>1 DEF Given
  <2> QED
    BY <1>9, <1>10, <2>2
<1>12. given.sets = [i \in 1..m |-> given.sets[i]]
  BY <1>7, <1>10
<1> QED
  BY <1>10, <1>11, <1>12

------------------------------------------------------------------------------
(* The types hold while a statement is built, executed and reset, whatever    *)
(* the expressions: no parameter is written or bound outside those the        *)
(* statement has (format.h 340-379, update.h 81-133).                         *)
THEOREM TypesHold == Spec => []TypeOK
<1> QED
  BY InvAlways, InvTypeOK, PTL

(* Whatever the depth of a condition, how many SET values come before it and  *)
(* how often the statement is reset, SQLite reads the text format_expression  *)
(* has written (format.h 340-379) with the values bind_parameters has bound   *)
(* (binding.h 80-106) as the condition of the application.                    *)
THEOREM ConditionIsReadBack == Spec => []ConditionReadsBack
<1> QED
  BY InvAlways, InvConditionReadsBack, PTL

(* Whatever the number of SET clauses and the condition after them, each      *)
(* column is set to its own object: the chain of update_builder (update.h     *)
(* 106-133) and the WHERE parameters do not touch each other's values.        *)
THEOREM SetsAreReadBack == Spec => []SetsReadBack
<1> QED
  BY InvAlways, InvSetsReadBack, PTL
==============================================================================
