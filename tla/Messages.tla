------------------------------ MODULE Messages ------------------------------
(* The vocabulary in which both sides of the HTTP interface are described: what *)
(* a request carries, and what an answer brings.                                 *)

\* A layer of a request (its body, its query, or the objects nested in them under
\* a field): the fields it must have, those it may have, those that may be null,
\* and a set of which at least one is needed.
Fields(must, may, nulls) == [must |-> must, may |-> may, nulls |-> nulls, any |-> {}]
Body(must, may, nulls) == [body |-> Fields(must, may, nulls)]
Query(must, may) == [query |-> Fields(must, may, {})]
Required(must) == Body(must, {}, {})
Optional(may) == Body({}, may, {})
OneOf(schema, any) == [layer \in DOMAIN schema |-> [schema[layer] EXCEPT !.any = any]]
Nothing == Body({}, {}, {})

\* An answer: one object, a whole list of them, a page of a longer list, or a file.
One(fields) == [form |-> "one", fields |-> fields]
Many(fields) == [form |-> "many", fields |-> fields]
Paged(fields) == [form |-> "paged", fields |-> fields]
File == [form |-> "file", fields |-> {}]
=============================================================================
