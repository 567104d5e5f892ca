-------------------------- MODULE PreviewApproval ---------------------------
(***************************************************************************)
(* The two ways of a generated statement to the database: answer()         *)
(* validates and executes it at once; preview() validates and explains it, *)
(* the page shows it, and execute_approved() validates what was shown once *)
(* more and executes that (src/src/services/text2sql_service.py).  In      *)
(* between the database changes.                                           *)
(*                                                                         *)
(* The validator is that of module Validator.  What the database accepts   *)
(* is modelled by the rules by which SQL resolves names.                   *)
(***************************************************************************)
EXTENDS Validator

CONSTANTS
  Statements,  \* what the model may generate
  Schemas,     \* what the database may look like: tables -> sets of columns
  FilterSets,  \* row_filters, in the order of the dictionary
  Settings,    \* max_result_rows and default_row_limit
  Sizes,       \* how many rows match
  MaxChanges   \* bound: changes of the database

ASSUME SettingsAssumption ==
  /\ Settings \subseteq [max : Nat \ {0}, default : Nat \ {0}]
  /\ Sizes \subseteq Nat
  /\ MaxChanges \in Nat
  /\ Statements \subseteq Texts /\ Rejected \notin Texts
  /\ None \notin Limits
  /\ FilterSets \subseteq Seq(RowFilters)

VARIABLES
  schema,    \* the tables and columns of the database
  changes,   \* how often it changed
  filters,   \* self.row_filters
  settings,
  size,      \* rows of the tables that meet the conditions
  pc,        \* "new", "explain", "ready", "run", "success", "blocked", "error"
  way,       \* "answer" or "approve"
  raw,       \* generated_sql
  safe,      \* the validated statement; what preview showed
  answer,    \* rows and truncated of the outcome
  since      \* history variable: changes when the preview was validated

fixed == <<filters, settings, size>>
request == <<way, raw, safe, answer, since>>
vars == <<schema, changes, fixed, pc, request>>

Init ==
  /\ schema \in Schemas
  /\ changes = 0
  /\ filters \in FilterSets
  /\ settings \in Settings
  /\ size \in Sizes
  /\ pc = "new"
  /\ way = "answer"
  /\ raw = None
  /\ safe = None
  /\ answer = None
  /\ since = 0

-----------------------------------------------------------------------------
(* SQL: a table with an alias is known by its alias alone, and a column    *)
(* without a qualifier has to belong to one table of FROM.                 *)
VisibleAs(f) == IF f.alias = None THEN f.table ELSE f.alias

Bindings(s, c) ==
  {f \in s.from : /\ c.of \in {None, VisibleAs(f)}
                  /\ c.name \in schema[f.table] \cup {Star}}

Runs(s) ==
  /\ TablesOf(s) \subseteq DOMAIN schema
  /\ \A c \in ColumnsOf(s) :
       \/ Cardinality(Bindings(s, c)) = 1
       \/ c.of = None /\ c.name \in s.aliases

Smaller(m, n) == IF m < n THEN m ELSE n

(* execute_readonly: fetchmany(max_rows + 1), then rows[:max_rows] *)
AnswerOf(s) ==
  LET found == Smaller(size, s.limit.value)
  IN [where |-> s.where, rows |-> Smaller(found, settings.max),
      truncated |-> found > settings.max]

Checked(s) == ValidateSql(s, schema, filters, settings)

-----------------------------------------------------------------------------
(* ALTER TABLE, CREATE TABLE or DROP TABLE by another program. *)
Change ==
  /\ changes < MaxChanges
  /\ pc \in {"explain", "ready", "run"}
  /\ schema' \in Schemas \ {schema}
  /\ changes' = changes + 1
  /\ UNCHANGED <<fixed, pc, request>>

(* answer() and preview() up to the verdict of the validator *)
Generate ==
  /\ pc = "new"
  /\ way' \in {"answer", "approve"}
  /\ raw' \in Statements
  /\ safe' = Checked(raw')
  /\ since' = changes
  /\ pc' = IF safe' = Rejected THEN "blocked" ELSE IF way' = "answer" THEN "run" ELSE "explain"
  /\ UNCHANGED <<schema, changes, fixed, answer>>

(* preview: explain_readonly *)
Explain ==
  /\ pc = "explain"
  /\ pc' \in (IF Runs(safe) THEN {"ready", "error"} ELSE {"error"})
  /\ UNCHANGED <<schema, changes, fixed, request>>

(* execute_approved up to the verdict of the validator *)
Approve ==
  /\ pc = "ready"
  /\ safe' = Checked(safe)
  /\ pc' = IF safe' = Rejected THEN "blocked" ELSE "run"
  /\ UNCHANGED <<schema, changes, fixed, way, raw, answer, since>>

Execute ==
  /\ pc = "run"
  /\ \/ /\ Runs(safe)
        /\ pc' = "success"
        /\ answer' = AnswerOf(safe)
     \/ pc' = "error" /\ UNCHANGED answer
  /\ UNCHANGED <<schema, changes, fixed, way, raw, safe, since>>

(* The outcome was delivered; the request is over. *)
Over == pc \in {"success", "blocked", "error"} /\ UNCHANGED vars

Next == Change \/ Generate \/ Explain \/ Approve \/ Execute \/ Over

Spec == Init /\ [][Next]_vars

-----------------------------------------------------------------------------
Answered == pc = "success"

(* Every row that satisfies w also satisfies v: so it is when each         *)
(* alternative of w has all the conditions of one of v.                    *)
Entails(w, v) == \A i \in DOMAIN w : \E j \in DOMAIN v : v[j] \subseteq w[i]

(* The detour over the approval does not change the answer: the statement  *)
(* was validated twice, filters and LIMIT were put in twice, and yet the   *)
(* rows are those answer() gives for the statement of the model, whatever  *)
(* OR there is in it or in a filter, and even where the default limit is   *)
(* above the maximum.                                                      *)
SameAnswer ==
  (Answered /\ way = "approve" /\ changes = since) =>
    LET direct == AnswerOf(Checked(raw))
    IN /\ Entails(answer.where, direct.where) /\ Entails(direct.where, answer.where)
       /\ answer.rows = direct.rows

(* An OR at the top of a text is not protected from the AND beside it.     *)
NoOr(w) == Len(w) = 1

FiltersOf(names) == {filters[i] : i \in {j \in DOMAIN filters : filters[j].name \in names}}

(* On both ways, and whatever changed in between: an answer has no more    *)
(* than the maximum of rows; as long as no filter that applies has an OR   *)
(* at its top, it satisfies the conditions of the model's statement; and   *)
(* if that statement has none either, it satisfies the filter of every     *)
(* table the statement read, under whatever name it gave the table.        *)
FiltersKept ==
  Answered =>
    /\ answer.rows <= settings.max
    /\ (\A f \in FiltersOf(NamesOf(raw)) : NoOr(f.where)) =>
         /\ Entails(answer.where, raw.where)
         /\ NoOr(raw.where) =>
              \A f \in FiltersOf(TablesOf(raw)) : Entails(answer.where, f.where)

(* Where no row filter applies, a preview that is ready can be approved:   *)
(* what the validator emits it also accepts.                               *)
UnfilteredCanBeApproved ==
  (pc = "ready" /\ changes = since /\ FiltersOf(NamesOf(raw)) = {}) => Checked(safe) # Rejected

(* A preview that is approved before anything changes gives the answer     *)
(* that answer() gives, and without row filters it can be approved.        *)
ApprovalAgrees == SameAnswer /\ UnfilteredCanBeApproved

-----------------------------------------------------------------------------
(* What the repository says and the code does not do.                      *)

(* validator.py, lines 23-24: "Row filter injection -- tenant or user      *)
(* filters can be applied to the query automatically, reducing             *)
(* cross-tenant leakage".  The rows of "a OR b" that satisfy a escape the  *)
(* filter, which is bound to b alone.                                      *)
FiltersHold ==
  Answered => \A f \in FiltersOf(TablesOf(raw)) : Entails(answer.where, f.where)
=============================================================================
