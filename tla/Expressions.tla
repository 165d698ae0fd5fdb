----------------------------- MODULE Expressions -----------------------------
(***************************************************************************)
(* The text of a statement and the parameters bound to it are made by two  *)
(* separate walks over the same expression: format_expression (format.h)   *)
(* numbers the parameters, bind_parameters (binding.h) binds the objects.  *)
(* An updater takes its SET values out of a chain of functions built by    *)
(* update_builder (update.h).  Here one statement is built, prepared,      *)
(* executed and reset, and its text is read the way SQLite does.  (What    *)
(* becomes of a nullable without a value is in BoundStatements.)           *)
(***************************************************************************)
EXTENDS StatementHandle, Integers, Sequences, FiniteSets

CONSTANTS
  Columns,  \* fields of the described type
  Objects,  \* variables of the application: what p() and update() refer to
  Levels,   \* a sequence of sets of expressions, each made of those before it
  MaxSets   \* bound on the SET clauses of an update

ASSUME ObjectsAssumption == Objects \subseteq Values

ASSUME SetsAssumption == MaxSets \in Nat \ {0}

------------------------------------------------------------------------------
(* expression.h: what c, p, the operators, is_null and is_not_null return.  *)

Column(c)             == [is |-> "column", of |-> c]
Parameter(o)          == [is |-> "parameter", of |-> o]
Binary(l, literal, r) == [is |-> "binary", lhs |-> l, of |-> literal, rhs |-> r]
Unary(e, literal)     == [is |-> "unary", operand |-> e, of |-> literal]

Operands == {Column(c) : c \in Columns} \cup {Parameter(o) : o \in Objects}

IsTest(e) == e.is \in {"binary", "unary"}

(* Compared are expressions of any type, joined are only tests; one literal stands
   for the six comparisons.  IS NULL takes a column or a parameter: all that a
   nullable is the result_type of. *)
BuiltOf(e, parts) ==
  \/ e \in Operands
  \/ /\ e.is = "binary" /\ e = Binary(e.lhs, e.of, e.rhs)
     /\ {e.lhs, e.rhs} \subseteq parts
     /\ \/ e.of = "="
        \/ e.of \in {"AND", "OR"} /\ IsTest(e.lhs) /\ IsTest(e.rhs)
  \/ /\ e.is = "unary" /\ e = Unary(e.operand, "IS_NULL")
     /\ e.operand \in parts \cap Operands

(* The expressions there are, nested as deep as there are levels. *)
UpTo(d)     == UNION {Levels[b] : b \in 1..d}
Expressions == UpTo(Len(Levels))

ASSUME LevelsAssumption ==
  /\ Levels \in Seq(SUBSET Expressions)
  /\ \A d \in DOMAIN Levels :
       LET parts == UpTo(d - 1) IN \A e \in Levels[d] : BuiltOf(e, parts)

------------------------------------------------------------------------------
(* format_expression: the text as a sequence of tokens, and the next index.  *)

Token(is, of)   == [is |-> is, of |-> of]
Word(is, of)    == <<Token(is, of)>>
Bracketed(t)    == Word("(", Null) \o t \o Word(")", Null)

Format[e \in Expressions] ==
  [i \in Nat |->
     CASE e.is = "column"    -> [text |-> Word("column", e.of), next |-> i]
       [] e.is = "parameter" -> [text |-> Word("parameter", i), next |-> i + 1]
       [] e.is = "binary" ->
            LET l == Format[e.lhs][i]
                r == Format[e.rhs][l.next]
            IN  [text |-> Bracketed(l.text \o Word("literal", e.of) \o r.text),
                 next |-> r.next]
       [] e.is = "unary" ->
            LET t == Format[e.operand][i]
            IN  [text |-> Bracketed(t.text \o Word("literal", e.of)), next |-> t.next]]

(* No statement has more parameters than SQLite takes. *)
ASSUME ParamsAssumption ==
  /\ IsFiniteSet(Params) /\ Params = 1..Cardinality(Params)
  /\ MaxSets < Cardinality(Params)
  /\ \A e \in Expressions, n \in 1..MaxSets + 1 :
       Format[e][n].next - 1 <= Cardinality(Params)

(* bind_parameters: the statement and the next index, as a walk changes them. *)
Walks == [handle : Handles, index : Nat]

BindNext(walk, o) ==
  [handle |-> Bind(walk.handle, walk.index, o), index |-> walk.index + 1]

BindParameters[e \in Expressions] ==
  [walk \in Walks |->
     CASE e.is = "column"    -> walk
       [] e.is = "parameter" -> BindNext(walk, e.of)
       [] e.is = "binary"    -> BindParameters[e.rhs][BindParameters[e.lhs][walk]]
       [] e.is = "unary"     -> BindParameters[e.operand][walk]]

------------------------------------------------------------------------------
VARIABLES
  kind,     \* what is being made: "none", "builder", "updater", "remover", "reader"
  sets,     \* text of the SET clauses: a column and the index after "=:" each
  text,     \* text of the WHERE clause, as tokens
  chain,    \* what _update_bindings binds before the WHERE parameters
  where,    \* index the WHERE parameters are bound from, and the expression
  index,    \* _binding_index
  handle,   \* the statement
  given     \* the SET clauses and the condition asked for (history)

vars == <<kind, sets, text, chain, where, index, handle, given>>

NoCondition == Token("none", Null)

Init ==
  /\ kind = "none"
  /\ sets = <<>> /\ text = <<>> /\ chain = <<>>
  /\ where = [from |-> 1, expression |-> NoCondition]
  /\ index = 1
  /\ handle = Unprepared
  /\ given = [sets |-> <<>>, where |-> NoCondition]

(* Faulty variant: the SET clauses are numbered from zero. *)
AddSetFromZero(c, o) ==
  /\ kind = "none" \/ (kind = "builder" /\ text = <<>> /\ Len(sets) < MaxSets)
  /\ kind' = "builder"
  /\ sets' = Append(sets, [column |-> c, index |-> index - 1])
  /\ chain' = Append(chain, [index |-> index - 1, object |-> o])
  /\ index' = index + 1
  /\ given' = [given EXCEPT !.sets = Append(@, [column |-> c, object |-> o])]
  /\ UNCHANGED <<text, where, handle>>

(* update_builder::initialize and add_set_expression, once per SET clause. *)
AddSet(c, o) ==
  /\ kind = "none" \/ (kind = "builder" /\ text = <<>> /\ Len(sets) < MaxSets)
  /\ kind' = "builder"
  /\ sets' = Append(sets, [column |-> c, index |-> index])
  /\ chain' = Append(chain, [index |-> index, object |-> o])
  /\ index' = index + 1
  /\ given' = [given EXCEPT !.sets = Append(@, [column |-> c, object |-> o])]
  /\ UNCHANGED <<text, where, handle>>

(* Faulty variant: where_index is taken after the expression is formatted. *)
AddWhereLate(e) ==
  /\ kind = "builder" /\ text = <<>>
  /\ LET f == Format[e][index]
     IN  text' = f.text /\ index' = f.next
  /\ where' = [from |-> index', expression |-> e]
  /\ given' = [given EXCEPT !.where = e]
  /\ UNCHANGED <<kind, sets, chain, handle>>

(* The rest of update_builder's constructor. *)
AddWhere(e) ==
  /\ kind = "builder" /\ text = <<>>
  /\ LET f == Format[e][index]
     IN  text' = f.text /\ index' = f.next
  /\ where' = [from |-> index, expression |-> e]
  /\ given' = [given EXCEPT !.where = e]
  /\ UNCHANGED <<kind, sets, chain, handle>>

(* Faulty variant: a link of the chain forgets the links before it. *)
UpdateLastBinding(h) ==
  LET last == IF chain = <<>> THEN h
              ELSE Bind(h, chain[Len(chain)].index, chain[Len(chain)].object)
  IN  BindParameters[where.expression][[handle |-> last, index |-> where.from]].handle

(* _update_bindings, or what the constructors of remover and reader bind. *)
UpdateBindings(h) ==
  LET link[k \in 0..Len(chain)] ==
        IF k = 0 THEN h ELSE Bind(link[k - 1], chain[k].index, chain[k].object)
      set == [handle |-> link[Len(chain)], index |-> where.from]
  IN  BindParameters[where.expression][set].handle

(* update_builder::create: prepare, and bind in the constructor of updater. *)
Create ==
  /\ kind = "builder" /\ text # <<>>
  /\ kind' = "updater"
  /\ handle' = UpdateBindings(Prepared)
  /\ UNCHANGED <<sets, text, chain, where, index, given>>

(* remove_builder::create_statement, select_builder::create_reader, count. *)
Build(k, e) ==
  /\ kind = "none"
  /\ kind' = k
  /\ text' = Format[e][1].text
  /\ where' = [from |-> 1, expression |-> e]
  /\ given' = [given EXCEPT !.where = e]
  /\ handle' = BindParameters[e][[handle |-> Prepared, index |-> 1]].handle
  /\ UNCHANGED <<sets, chain, index>>

Made == kind \in {"updater", "remover", "reader"}

Execute ==
  /\ Made
  /\ \E state \in {"row", "stalled", "halted"} :
       /\ state = "row" => kind = "reader"
       /\ handle' = Step(handle, state)
  /\ UNCHANGED <<kind, sets, text, chain, where, index, given>>

(* updater::reset, remover::reset. *)
ResetBindings ==
  /\ kind \in {"updater", "remover"}
  /\ handle' = UpdateBindings(Reset(handle))
  /\ UNCHANGED <<kind, sets, text, chain, where, index, given>>

Next ==
  \/ \E c \in Columns, o \in Objects : AddSet(c, o)
  \/ \E e \in Expressions : AddWhere(e)
  \/ \E e \in Expressions, k \in {"remover", "reader"} : Build(k, e)
  \/ Create \/ Execute \/ ResetBindings

Spec == Init /\ [][Next]_vars

------------------------------------------------------------------------------
(* How SQLite reads the statement.  A parameter ":n" is a name: its index is *)
(* the place of its first occurrence among the names of the text.           *)

Tokens == [i \in DOMAIN sets |-> Token("parameter", sets[i].index)] \o text

NamesIn(t, p) == {t[j].of : j \in {k \in 1..p : t[k].is = "parameter"}}

FirstAt(n) ==
  CHOOSE p \in DOMAIN Tokens : n \in NamesIn(Tokens, p) /\ n \notin NamesIn(Tokens, p - 1)

SqlIndex(n) == Cardinality(NamesIn(Tokens, FirstAt(n)))

Meant(n) == IF SqlIndex(n) \in Params THEN handle.bound[SqlIndex(n)] ELSE Null

(* A closing bracket makes one expression of what follows the last open one. *)
LastOpen(stack) ==
  CHOOSE p \in DOMAIN stack :
    stack[p].is = "(" /\ \A q \in p + 1..Len(stack) : stack[q].is # "("

Close(stack) ==
  LET e == SubSeq(stack, LastOpen(stack) + 1, Len(stack))
  IN  Append(SubSeq(stack, 1, LastOpen(stack) - 1),
             IF Len(e) = 3 THEN Binary(e[1], e[2].of, e[3]) ELSE Unary(e[1], e[2].of))

Shift(stack, t) ==
  CASE t.is = ")"         -> Close(stack)
    [] t.is = "parameter" -> Append(stack, Parameter(Meant(t.of)))
    [] OTHER              -> Append(stack, t)

Parsed ==
  LET stack[k \in 0..Len(text)] ==
        IF k = 0 THEN << >> ELSE Shift(stack[k - 1], text[k])
  IN  stack[Len(text)]

------------------------------------------------------------------------------
(* Correctness. *)

(* Type invariant of a statement and what it is made of. *)
TypeOK ==
  /\ kind \in {"none", "builder", "updater", "remover", "reader"}
  /\ sets \in Seq([column : Columns, index : Params])
  /\ \A i \in DOMAIN text : text[i].is = "parameter" => text[i].of \in Params
  /\ chain \in Seq([index : Params, object : Objects])
  /\ where.from \in Params
  /\ index \in Nat \ {0}
  /\ handle \in Handles
  /\ Len(given.sets) = Len(sets)

(* SQLite reads a WHERE clause as the very expression the application has written
   down, with its objects where it put them, however deep it is nested and
   however many SET values come before: when the statement is made and after
   each reset (format.h 340-379, binding.h 80-106, update.h 81-100). *)
ConditionReadsBack == Made => Parsed = <<given.where>>

(* Each column of an UPDATE is set to the object it was given with, none to the
   value of another clause or of the condition (update.h 106-133). *)
SetsReadBack ==
  Made => given.sets = [i \in DOMAIN sets |-> [column |-> sets[i].column,
                                               object |-> Meant(sets[i].index)]]
==============================================================================
