--------------------------------- MODULE Algo ---------------------------------
(***************************************************************************)
(* The formulas of engines/algo: the evaluation of nested calls            *)
(* (AlgoEngineService) and its primitives on numbers, truth values, lists  *)
(* and dates (primitives.ts).                                              *)
(*                                                                         *)
(* A behaviour evaluates one formula.  A number is a fraction in lowest    *)
(* terms: what binary floating point rounds away is left out.  A date is   *)
(* the number of its day, day 0 a Sunday: the primitives parse and print   *)
(* in UTC and step by the process's own calendar, which is the same only   *)
(* where the process runs in UTC, as its image does.  Primitives on text   *)
(* and those that read the calendar or the clock are left out.             *)
(***************************************************************************)
EXTENDS Integers, Sequences, FiniteSets, SequencesExt, TLC

CONSTANTS
    Formulas,   \* what may be evaluated
    Inputs,     \* functions from names of variables to values
    MaxDepth    \* MAX_DEPTH

VARIABLES
    formula,    \* what is evaluated
    inputs,     \* with these variables
    value       \* what comes of it; Pending before

algoVars == <<formula, inputs, value>>

AbsOf(n) == IF n < 0 THEN -n ELSE n
Num(n, d) ==
    LET sign == IF d < 0 THEN -1 ELSE 1
        g == Max({k \in 1 .. AbsOf(d) : n % k = 0 /\ d % k = 0})
    IN  [t |-> "num", n |-> (sign * n) \div g, d |-> AbsOf(d) \div g]
Whole(n) == [t |-> "num", n |-> n, d |-> 1]
Bool(b) == [t |-> "bool", b |-> b]
List(items) == [t |-> "list", items |-> items]
Date(day) == [t |-> "date", day |-> day]
Row(fields) == [t |-> "row", fields |-> fields]
Text(s) == [t |-> "text", s |-> s]
NullValue == [t |-> "null"]
Undefined == [t |-> "undefined"]

Less(x, y) == x.n * y.d < y.n * x.d
Plus(x, y) == Num(x.n * y.d + y.n * x.d, x.d * y.d)
Times(x, y) == Num(x.n * y.n, x.d * y.d)
Total(items) == FoldLeft(Plus, Whole(0), items)

-------------------------------------------------------------------------------
(* Primitives *)

\* The types of the arguments.  A tuple of zod 3 takes no fewer values than it
\* has places, the optional ones among them.
Schema ==
    [f \in {"add", "sub", "mul", "div", "min", "max", "gt", "lt", "gte", "lte", "round"} |-> <<"num", "num">>]
    @@ [f \in {"floor", "ceil", "abs"} |-> <<"num">>]
    @@ [f \in {"eq", "ne"} |-> <<"any", "any">>]
    @@ [f \in {"and", "or"} |-> <<"bool", "bool">>]
    @@ [f \in {"sum", "avg"} |-> <<"nums">>]
    @@ [f \in {"count", "unique"} |-> <<"list">>]
    @@ ("if" :> <<"bool", "any", "any">> @@ "not" :> <<"bool">> @@ "filter" :> <<"rows", "text", "any">>
        @@ "map_field" :> <<"rows", "text">> @@ "diff_jours" :> <<"date", "date">> @@ "add_days" :> <<"date", "num">>
        @@ "days_ouvres" :> <<"date", "date", "dates">> @@ "delai_paiement" :> <<"date", "date", "num">>
        @@ "convertir_devise" :> <<"num", "text", "text", "num">>)

Of(v, type) == v.t = "list" /\ \A i \in DOMAIN v.items : v.items[i].t = type
Fits(v, type) ==
    CASE type = "any" -> TRUE
      [] type = "nums" -> Of(v, "num")
      [] type = "rows" -> Of(v, "row")
      [] type = "dates" -> Of(v, "date")
      [] OTHER -> v.t = type
FitsSchema(fn, args) ==
    Len(args) = Len(Schema[fn]) /\ \A i \in DOMAIN args : Fits(args[i], Schema[fn][i])

FloorOf(x) == x.n \div x.d
\* Math.round, a half upwards, with so many decimals.
RoundTo(x, decimals) == Num(FloorOf(Plus(Times(x, Whole(10 ^ decimals)), Num(1, 2))), 10 ^ decimals)

Extreme(fn, x, y) == IF (fn = "min") = Less(y, x) THEN y ELSE x
Math(fn, x, y) ==
    CASE fn = "add" -> Plus(x, y)
      [] fn = "sub" -> Plus(x, Num(-y.n, y.d))
      [] fn = "mul" -> Times(x, y)
      [] fn = "div" -> Num(x.n * y.d, x.d * y.n)
      [] fn = "round" -> RoundTo(x, y.n)
      [] OTHER -> Extreme(fn, x, y)
Math1(fn, x) ==
    CASE fn = "floor" -> Whole(FloorOf(x))
      [] fn = "ceil" -> Whole(-((-x.n) \div x.d))
      [] fn = "abs" -> Num(AbsOf(x.n), x.d)

\* eq, ne, filter and unique compare with ===, which for lists and rows is
\* identity; here it is equality, and no formula compares those.
Logic(fn, args) ==
    CASE fn = "if" -> IF args[1].b THEN args[2] ELSE args[3]
      [] fn = "gt" -> Bool(Less(args[2], args[1]))
      [] fn = "lt" -> Bool(Less(args[1], args[2]))
      [] fn = "eq" -> Bool(args[1] = args[2])
      [] fn = "ne" -> Bool(args[1] # args[2])
      [] fn = "gte" -> Bool(~Less(args[1], args[2]))
      [] fn = "lte" -> Bool(~Less(args[2], args[1]))
      [] fn = "and" -> Bool(args[1].b /\ args[2].b)
      [] fn = "or" -> Bool(args[1].b \/ args[2].b)
      [] fn = "not" -> Bool(~args[1].b)

Field(row, field) == IF field.s \in DOMAIN row.fields THEN row.fields[field.s] ELSE Undefined
Lists(fn, args) ==
    LET items == args[1].items
    IN  CASE fn = "sum" -> Total(items)
          [] fn = "avg" -> IF items = <<>> THEN NullValue
                           ELSE Num(Total(items).n, Total(items).d * Len(items))
          [] fn = "count" -> Whole(Len(items))
          [] fn = "filter" -> List(SelectSeq(items, LAMBDA row : Field(row, args[2]) = args[3]))
          [] fn = "map_field" -> List([i \in DOMAIN items |-> Field(items[i], args[2])])
          [] fn = "unique" -> List(FoldLeft(LAMBDA seen, v : IF v \in ToSet(seen) THEN seen ELSE Append(seen, v), <<>>, items))

Weekend(day) == day % 7 \in {0, 6}
\* Mutant: the last day is not counted.
WorkingDaysBefore(start, end, holidays) ==
    LET Count[day \in start .. end] ==
            IF day = start THEN 0 ELSE Count[day - 1] + IF Weekend(day - 1) \/ day - 1 \in holidays THEN 0 ELSE 1
    IN  IF start > end THEN 0 ELSE Count[end]
\* days_ouvres, day by day; getDay() is of the local day, UTC here.
WorkingDays(start, end, holidays) ==
    LET Count[day \in start - 1 .. end] ==
            IF day < start THEN 0 ELSE Count[day - 1] + IF Weekend(day) \/ day \in holidays THEN 0 ELSE 1
    IN  IF start > end THEN 0 ELSE Count[end]

LatePayment(invoice, due, rate) == Times(Whole(Max({0, due - invoice})), rate)

Dates(fn, args) ==
    CASE fn = "diff_jours" -> Whole(args[1].day - args[2].day)
      [] fn = "add_days" -> Date(args[1].day + args[2].n)     \* for a whole number of days
      [] fn = "days_ouvres" -> Whole(WorkingDays(args[1].day, args[2].day, {d.day : d \in ToSet(args[3].items)}))
      [] fn = "delai_paiement" -> LatePayment(args[1].day, args[2].day, args[3])

\* With a rate, which the schema requires, the table of rates is never read.
Convert(amount, rate) == RoundTo(Times(amount, rate), 0)

Primitive(fn, args) ==
    CASE fn \in {"add", "sub", "mul", "div", "round", "min", "max"} -> Math(fn, args[1], args[2])
      [] fn \in {"floor", "ceil", "abs"} -> Math1(fn, args[1])
      [] fn \in {"if", "gt", "lt", "eq", "ne", "gte", "lte", "and", "or", "not"} -> Logic(fn, args)
      [] fn \in {"sum", "avg", "count", "filter", "map_field", "unique"} -> Lists(fn, args)
      [] fn = "convertir_devise" -> Convert(args[1], args[4])
      [] OTHER -> Dates(fn, args)

-------------------------------------------------------------------------------
(* Evaluation.  A formula is a constant, a variable or a call.             *)

Constant(v) == [is |-> "constant", v |-> v]
Variable(name) == [is |-> "variable", name |-> name]
Call(fn, args) == [is |-> "call", fn |-> fn, args |-> args]

Raised(error, depth) == [ok |-> FALSE, error |-> error, depth |-> depth]
Yields(v, depth) == [ok |-> TRUE, v |-> v, depth |-> depth]

Read(name, with, depth) ==
    IF name \in DOMAIN with THEN Yields(with[name], depth) ELSE Raised("variable", depth)

Apply(fn, args, depth) ==
    IF ~FitsSchema(fn, args) THEN Raised("args", depth)
    ELSE IF fn = "div" /\ args[2].n = 0 THEN Raised("div/0", depth)
    ELSE Yields(Primitive(fn, args), depth)

\* evalRecursive: `depth` grows with every formula that is looked at and never
\* shrinks; the arguments are evaluated in their order, up to the first error.
RECURSIVE EvalRecursive(_, _, _)
EvalRecursive(f, with, before) ==
    LET depth == before + 1
        Next(done, arg) ==
            IF ~done.ok THEN done
            ELSE LET r == EvalRecursive(arg, with, done.depth)
                 IN  IF r.ok THEN [done EXCEPT !.depth = r.depth, !.args = Append(@, r.v)] ELSE r
    IN  CASE depth > MaxDepth -> Raised("depth", depth)
          [] depth <= MaxDepth /\ f.is = "constant" -> Yields(f.v, depth)
          [] depth <= MaxDepth /\ f.is = "variable" -> Read(f.name, with, depth)
          [] depth <= MaxDepth /\ f.is = "call" ->
                IF f.fn \notin DOMAIN Schema THEN Raised("unknown", depth)
                ELSE LET done == FoldLeft(Next, [ok |-> TRUE, depth |-> depth, args |-> <<>>], f.args)
                     IN  IF done.ok THEN Apply(f.fn, done.args, done.depth) ELSE done

Eval(f, with) == EvalRecursive(f, with, 0)
\* validate: the formula can be evaluated with no variable at all.
Validate(f) == Eval(f, <<>>).ok /\ Eval(f, <<>>).v # Undefined

Pending == [ok |-> FALSE, error |-> "pending", depth |-> 0]
AlgoInit == formula \in Formulas /\ inputs \in Inputs /\ value = Pending
Evaluate == value = Pending /\ value' = Eval(formula, inputs) /\ UNCHANGED <<formula, inputs>>
AlgoNext == Evaluate

-------------------------------------------------------------------------------

TypeOK == value.ok \in BOOLEAN /\ value.depth \in 0 .. MaxDepth + 1

(* What a primitive gives, said without computing it. *)
Law(fn, args, v) ==
    CASE fn = "round" -> /\ (v.n * 10 ^ args[2].n) % v.d = 0
                         /\ LET off == Plus(v, Num(-args[1].n, args[1].d))
                            IN  2 * off.n * 10 ^ args[2].n <= off.d /\ -off.d < 2 * off.n * 10 ^ args[2].n
      [] fn = "floor" -> ~Less(args[1], v) /\ Less(args[1], Plus(v, Whole(1)))
      [] fn = "ceil" -> ~Less(v, args[1]) /\ Less(Plus(v, Whole(-1)), args[1])
      [] fn = "div" -> Times(v, args[2]) = args[1]
      [] fn = "unique" -> ToSet(v.items) = ToSet(args[1].items) /\ Len(v.items) = Cardinality(ToSet(args[1].items))
      [] fn = "avg" -> v = NullValue \/ \E x, y \in ToSet(args[1].items) : ~Less(v, x) /\ ~Less(y, v)
      [] fn = "days_ouvres" ->
            v = Whole(Cardinality({d \in args[1].day .. args[2].day : d % 7 \in 1 .. 5 /\ Date(d) \notin ToSet(args[3].items)}))
      [] fn = "add_days" -> Dates("diff_jours", <<v, args[1]>>) = args[2]
      [] fn = "delai_paiement" -> args[2].day <= args[1].day => v = Whole(0)
      [] OTHER -> TRUE

(* Every call obeys the law of its primitive: the days worked are those of *)
(* the interval, both ends included, that are no weekend and no holiday;   *)
(* rounding is to the nearest, a half upwards; an average lies between.    *)
PrimitivesObeyTheirLaws ==
    value.ok /\ formula.is = "call" =>
        LET args == [i \in DOMAIN formula.args |-> Eval(formula.args[i], inputs).v]
        IN  Law(formula.fn, args, value.v)

(* A formula that `validate` accepts has one value: with any variables it  *)
(* is evaluated to what it was without them.                               *)
ValidatedIsClosed ==
    value # Pending /\ Validate(formula) => value = Eval(formula, <<>>)

\* Formulas mean what they say, with variables and without.
FormulasMean == PrimitivesObeyTheirLaws /\ ValidatedIsClosed

===============================================================================
