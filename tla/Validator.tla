----------------------------- MODULE Validator ------------------------------
(***************************************************************************)
(* validate_sql (src/src/security/validator.py) as a function from         *)
(* statements to statements.                                               *)
(*                                                                         *)
(* A statement is a record: its form, whether its text contains a          *)
(* forbidden keyword, the tables of FROM and JOIN with their aliases, the  *)
(* columns it names, the aliases of its select list, its WHERE and its     *)
(* LIMIT.  A WHERE is what its text says by the precedence of SQL: a       *)
(* sequence of alternatives joined by OR, each a set of conditions joined  *)
(* by AND; a statement without WHERE has one alternative without a         *)
(* condition.  A condition names columns and may contain a forbidden       *)
(* keyword; it stands for anything that binds as tightly as AND, an OR in  *)
(* parentheses included.  Names are in lower case: every comparison of the *)
(* code lowers them.  Not here: subqueries, and an alias that is also the  *)
(* name of a table.                                                        *)
(***************************************************************************)
EXTENDS Naturals, FiniteSets, Sequences

CONSTANTS
  None,     \* no qualifier, no alias, no LIMIT
  Star,     \* the column name "*"
  Rejected  \* SQLValidationError

(* What a text parses to, unless it is Rejected. *)
Columns == [of : STRING \cup {None}, name : STRING \cup {Star}]
Conditions == [columns : SUBSET Columns, keyword : BOOLEAN]
Wheres == Seq(SUBSET Conditions) \ {<<>>}
Limits == [value : Nat, literal : BOOLEAN]
Texts == [form : STRING, keyword : BOOLEAN,
          from : SUBSET [table : STRING, alias : STRING \cup {None}],
          columns : SUBSET Columns, aliases : SUBSET STRING,
          where : Wheres, limit : Limits \cup {None}]

(* One of the row filters, which a dictionary yields in its order: the     *)
(* name of a table or of an alias, and the text that is to hold.           *)
RowFilters == [name : STRING, where : Wheres, parses : BOOLEAN]

-----------------------------------------------------------------------------
TablesOf(s) == {f.table : f \in s.from}
AliasesOf(s) == {f.alias : f \in s.from} \ {None}
ConditionsOf(s) == UNION {s.where[i] : i \in DOMAIN s.where}
ColumnsOf(s) == s.columns \cup UNION {w.columns : w \in ConditionsOf(s)}

(* The whole text is scanned, the conditions included, for the keyword as  *)
(* a part of any word.                                                     *)
HasKeyword(s) == s.keyword \/ \E w \in ConditionsOf(s) : w.keyword

(* One statement, and a SELECT; the other forms are "empty", "broken",     *)
(* "several" and "other".                                                  *)
IsOneSelect(s) == s.form = "select"

TablesAllowed(s, schema) == TablesOf(s) # {} /\ TablesOf(s) \subseteq DOMAIN schema

(* alias_map, and the only table for a column without a qualifier *)
TableOf(s, c) ==
  IF c.of # None THEN {f.table : f \in {g \in s.from : c.of \in {g.table, g.alias}}}
  ELSE IF Cardinality(TablesOf(s)) = 1 THEN TablesOf(s) ELSE {}

ColumnAllowed(s, c, schema) ==
  \/ c.name = Star
  \/ c.of = None /\ c.name \in s.aliases
  \/ \E t \in TableOf(s, c) : c.name \in schema[t]

-----------------------------------------------------------------------------
(* Mutant of NamesOf: a table that has an alias is known by it only. *)
NamesOfVisible(s) == {IF f.alias = None THEN f.table ELSE f.alias : f \in s.from}

(* The names under which a filter is found: the tables and their aliases. *)
NamesOf(s) == TablesOf(s) \cup AliasesOf(s)

(* exp.And(this=x, expression=y) puts no parentheses around an OR: in the  *)
(* text the AND binds the last alternative of x to the first of y.         *)
AndText(x, y) ==
  [i \in 1 .. Len(x) + Len(y) - 1 |->
     IF i < Len(x) THEN x[i]
     ELSE IF i = Len(x) THEN x[i] \cup y[1]
     ELSE y[i - Len(x) + 1]]

(* The filters given under one of the names, joined one after the other. *)
Combined(names, filters) ==
  LET joined[n \in 0 .. Len(filters)] ==
        IF n = 0 THEN <<{}>>
        ELSE IF filters[n].name \in names THEN AndText(joined[n - 1], filters[n].where)
        ELSE joined[n - 1]
  IN  joined[Len(filters)]

InjectFilters(s, filters) == [s EXCEPT !.where = AndText(@, Combined(NamesOf(s), filters))]

-----------------------------------------------------------------------------
Literal(n) == [value |-> n, literal |-> TRUE]

(* Mutant of EnforceLimit: one row more, to see whether there is one. *)
LimitPlusOne(s, settings) ==
  IF s.limit # None /\ s.limit.literal /\ s.limit.value <= settings.max
  THEN [s EXCEPT !.limit = Literal(s.limit.value + 1)]
  ELSE [s EXCEPT !.limit = Literal(settings.default)]

(* A missing LIMIT becomes the default, even if that is above the maximum; *)
(* a number above the maximum becomes the maximum; a LIMIT that is no      *)
(* number counts as the maximum and stays.                                 *)
EnforceLimit(s, settings) ==
  IF s.limit = None THEN [s EXCEPT !.limit = Literal(settings.default)]
  ELSE IF s.limit.literal /\ s.limit.value > settings.max
       THEN [s EXCEPT !.limit = Literal(settings.max)]
       ELSE s

-----------------------------------------------------------------------------
Acceptable(s, schema, filters) ==
  /\ IsOneSelect(s)
  /\ ~HasKeyword(s)
  /\ TablesAllowed(s, schema)
  /\ \A c \in ColumnsOf(s) : ColumnAllowed(s, c, schema)
  /\ \A i \in DOMAIN filters : filters[i].name \in NamesOf(s) => filters[i].parses

(* The columns are checked before the filters are added. *)
ValidateSql(s, schema, filters, settings) ==
  IF Acceptable(s, schema, filters)
  THEN EnforceLimit(InjectFilters(s, filters), settings)
  ELSE Rejected
=============================================================================
