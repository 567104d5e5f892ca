------------------------- MODULE MCPreviewApproval --------------------------
(* Instances of PreviewApproval: a shop with two tables. *)
EXTENDS PreviewApproval

Column(q, n) == [of |-> q, name |-> n]
Table(t, a) == [table |-> t, alias |-> a]
Condition(cs, k) == [columns |-> cs, keyword |-> k]
RowFilter(n, w) == [name |-> n, where |-> w, parses |-> TRUE]

Customers == {"id", "name", "tenant", "deleted_at"}
Orders == {"id", "total"}
MCSchemas == {
  [customers |-> Customers, orders |-> Orders],
  [customers |-> Customers \ {"name"}, orders |-> Orders],
  [customers |-> Customers, orders |-> Orders \cup {"tenant"}],
  [customers |-> Customers] }

From == {
  {Table("customers", None)}, {Table("customers", "c")},
  {Table("customers", None), Table("orders", None)},
  {Table("customers", "c"), Table("orders", "o")},
  {Table("customers", "c"), Table("customers", "d")} }
MCColumns == {
  {Column(None, "name")}, {Column("c", "name")}, {Column("c", Star), Column("o", "total")},
  {Column("customers", "name")}, {Column(None, "n"), Column("c", "id")} }
Cheap == Condition({Column("o", "total")}, FALSE)
Tenant == Condition({Column(None, "tenant")}, FALSE)
TenantOfC == Condition({Column("c", "tenant")}, FALSE)
Named == Condition({Column(None, "name")}, FALSE)
MCWheres == {<<{}>>, <<{TenantOfC}>>, <<{Named}, {TenantOfC}>>}
MCLimits == {None, Literal(1), Literal(2), Literal(3), [value |-> 3, literal |-> FALSE]}

Select(f, cs, w, l) ==
  [form |-> "select", keyword |-> FALSE, from |-> f, columns |-> cs, aliases |-> {"n"},
   where |-> w, limit |-> l]
Plain == Select({Table("customers", None)}, {}, <<{}>>, None)
MCStatements ==
  {Select(f, cs, w, l) : f \in From, cs \in MCColumns, w \in MCWheres, l \in MCLimits}
    \cup {[Plain EXCEPT !.form = "other"], [Plain EXCEPT !.keyword = TRUE]}

TenantOfTable == Condition({Column("customers", "tenant")}, FALSE)
Deleted == Condition({Column(None, "deleted_at")}, TRUE)
Unparsed == [RowFilter("customers", <<{}>>) EXCEPT !.parses = FALSE]
MCFilterSets == {
  <<>>, <<Unparsed>>, <<RowFilter("customers", <<{Deleted}>>)>>,
  <<RowFilter("customers", <<{Tenant}>>)>>,
  <<RowFilter("customers", <<{TenantOfTable}>>)>>,
  <<RowFilter("customers", <<{TenantOfTable}, {Tenant}>>)>>,
  <<RowFilter("c", <<{Tenant}>>), RowFilter("orders", <<{Tenant}>>)>>,
  <<RowFilter("orders", <<{Cheap}>>), RowFilter("customers", <<{TenantOfC}>>)>> }

OrFreeFilterSets ==
  {fs \in MCFilterSets : \A i \in DOMAIN fs : NoOr(fs[i].where)}

MCSettings == {[max |-> 2, default |-> 1], [max |-> 2, default |-> 3]}
=============================================================================
