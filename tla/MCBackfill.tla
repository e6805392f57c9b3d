----------------------------- MODULE MCBackfill -----------------------------
EXTENDS Backfill

CONSTANTS p1, p2, s1, s2, s3, j1, j2, t1, t2

MCSessionsOf == (p1 :> {s1, s2}) @@ (p2 :> {s3})
MCTicksOf == (p1 :> {t1, t2}) @@ (p2 :> {t1})
MCJobIds == <<j1, j2>>
MCKind == (j1 :> [sql |-> "assignment", ids |-> "integer"]) @@
          (j2 :> [sql |-> "update", ids |-> "uuid"])

Column(type, nullable, default, pk) ==
    [type |-> type, nullable |-> nullable, default |-> default, pk |-> pk]
MCEntities ==
    "drivers" :> (("id" :> Column("uuid", FALSE, "none", TRUE)) @@
                  ("name" :> Column("String", TRUE, "none", FALSE))) @@
    "zones" :> ("id" :> Column("uuid", FALSE, "none", TRUE))
(* the same in the type names of information_schema                        *)
Matching == [MCEntities EXCEPT !["drivers"]["name"].type = "character varying"]
MCConforming == {Matching}
MCDatabases ==
    {Matching,
     [t \in {"drivers"} |-> Matching[t]],
     Matching @@ ("legacy" :> Matching["zones"]),
     [Matching EXCEPT !["drivers"]["name"].type = "integer"],
     [Matching EXCEPT !["drivers"]["name"].nullable = FALSE],
     [Matching EXCEPT !["drivers"] = [c \in {"id"} |-> @[c]]],
     [Matching EXCEPT !["zones"] = @ @@ ("extra" :> Column("text", TRUE, "none", FALSE))]}

(* j1 needs two batches; j2 counts no row and its table may be clean or not *)
MCRows(j) == (j1 :> <<"old", "old">>) @@ (j2 :> j)
MCTotal == (j1 :> 3) @@ (j2 :> 0)
MCWorkloads ==
    {[pending |-> {j1}, total |-> MCTotal, rows |-> MCRows(<<"old">>)]} \cup
    {[pending |-> {j2}, total |-> MCTotal, rows |-> MCRows(<<row, "absent">>)] : row \in {"old", "new"}}
=============================================================================
