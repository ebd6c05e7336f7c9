----------------------------- MODULE QueryProgram -----------------------------
(***************************************************************************)
(* A query: from the conditions the grammar has parsed (QueryRule.h,       *)
(* QuerySelector.h) through the program in reversed polish form (RPN.cpp)  *)
(* to the stack machine of DBManager::Query and the comparisons of         *)
(* Table.cpp, Expression.h and Condition.h.                                *)
(*                                                                         *)
(* A condition compares the keys of one match table with a value or an     *)
(* array of values of the type the table has.  Values are numbers: texts,  *)
(* dates and colours in their order, near ones being neighbours.  The      *)
(* tables of words (tag, class, keyword) are FileIndex's.                  *)
(***************************************************************************)
EXTENDS Integers, Sequences

CONSTANTS
  Name,       \* the names of meta data
  ColorName,  \* the names whose values are colours
  Value       \* the values

ASSUME QueryAssumption == ColorName \subseteq Name /\ Value \subseteq Nat \ {0}

\* What the grammar makes, of the comparisons Expression.h has: with a value, or with an
\* array of them.
Condition ==
  {c \in [name : Name, op : {"eq", "gt", "near"}, array : BOOLEAN, values : Seq(Value)] :
     c.array \/ Len(c.values) = 1}

\* What runs: [kind |-> "table", name], [kind |-> "value", value] and
\* [kind |-> "op", op, type, count]; on the stack also [kind |-> "values", values],
\* [kind |-> "files", files] and what is read where nothing is.
Table(n) == [kind |-> "table", name |-> n]
Constant(v) == [kind |-> "value", value |-> v]
Operator(op, n, count) ==
  [kind |-> "op", op |-> op, type |-> IF n \in ColorName THEN "color" ELSE "string",
   count |-> count]
Values(V) == [kind |-> "values", values |-> V]
Files(F) == [kind |-> "files", files |-> F]
Undefined == [kind |-> "undefined"]

\* RPN::recusive visits the children from the last to the first.  An array leaves "in"
\* unless it is empty; IExpression::Create passes the count of its elements on for
\* text alone.
Emit(c) ==
  LET n == Len(c.values)
      elements == [i \in 1 .. n |-> Constant(c.values[n + 1 - i])]
      in == Operator("in", c.name, IF c.name \in ColorName THEN 0 ELSE n)
  IN elements \o (IF c.array /\ n > 0 THEN <<in>> ELSE <<>>)
       \o <<Table(c.name), Operator(c.op, c.name, 0)>>

\* The node of the conditions is folded when there is one of them, and leaves one
\* "and" otherwise, however many there are.
Program(q) ==
  LET emitted[i \in 0 .. Len(q)] ==
        IF i = 0 THEN <<>> ELSE emitted[i - 1] \o Emit(q[Len(q) + 1 - i])
  IN emitted[Len(q)] \o (IF Len(q) > 1 THEN <<Operator("and", q[1].name, 0)>> ELSE <<>>)

\* Equal, GreatThan and Near; the distance of two texts is 0.
Compares(e, key, v) ==
  \/ e.op = "eq" /\ key = v
  \/ e.op = "gt" /\ key > v
  \/ e.op = "near" /\ (e.type = "string" \/ key - v \in {-1, 0, 1})

\* Query on a match table: its cursor is read once before it is known to have a row,
\* and the type of an array without a typed element is that of nothing.  An array of
\* colours is passed over.
Lookup(e, tables, rows, right) ==
  LET Hit(v) == {k \in DOMAIN rows : Compares(e, k, v)}
      keys == IF right.kind = "value" THEN Hit(right.value)
              ELSE IF e.type = "color" THEN {}
              ELSE UNION {Hit(v) : v \in right.values}
  IN IF ~tables THEN Files({})
     ELSE IF right.kind = "files" \/ \A k \in DOMAIN rows : rows[k] = {}
       THEN Undefined
     ELSE Files(UNION {rows[k] : k \in keys})

\* Mutant of Both: the right side alone.
MutantBoth(left, right) ==
  IF left.kind = "files" /\ right.kind = "files" THEN right ELSE Undefined

\* OP_And.
Both(left, right) ==
  IF left.kind = "files" /\ right.kind = "files"
    THEN Files(left.files \cap right.files)
    ELSE Undefined

\* One symbol of the program, on a stack whose top is its last element.
Step(M, T, stack, s) ==
  LET size == Len(stack)
      count == IF s.kind # "op" \/ s.count = 0 THEN size ELSE s.count
      taken == {stack[i] : i \in (size - count + 1) .. size}
      left == stack[size]
      right == stack[size - 1]
      result == IF left.kind = "table"
                  THEN Lookup(s, left.name \in T, M[left.name], right)
                  ELSE Both(left, right)
  IN IF s.kind # "op" THEN Append(stack, s)
     ELSE IF s.op = "in"
       THEN Append(SubSeq(stack, 1, size - count),
                   Values({x.value : x \in {y \in taken : y.kind = "value"}}))
     ELSE IF size < 2 THEN <<Undefined>>
     ELSE Append(SubSeq(stack, 1, size - 2), result)

\* The stack after each symbol of a program P.  M has the match tables by name, T the
\* names that have one.
Stacks(M, T, P) ==
  LET stack[i \in 0 .. Len(P)] == IF i = 0 THEN <<>> ELSE Step(M, T, stack[i - 1], P[i])
  IN stack

\* The result is the top of what is left.
Result(M, T, q) ==
  LET P == Program(q)
      stack == Stacks(M, T, P)[Len(P)]
  IN stack[Len(stack)]

\* What a query can answer.
Answers(M, T, q, files) ==
  LET r == Result(M, T, q)
  IN IF r.kind = "files" THEN {r.files \cap files} ELSE SUBSET files
===============================================================================
