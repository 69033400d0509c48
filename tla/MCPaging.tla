------------------------------ MODULE MCPaging ------------------------------
(* Page tables of three entries: entries 0 and 1 of the first PDPT are     *)
(* huge, entry 2 is free for tables.                                       *)
EXTENDS Paging

\* Pages that share all, two, one or none of their tables, and two low pages, of
\* which the second is walked to through a stray entry.
MCPages == {<<0, 2, 0, 0>>, <<0, 2, 0, 1>>, <<0, 2, 1, 0>>, <<1, 0, 0, 0>>, <<0, 0, 1, 0>>, <<0, 0, 2, 0>>}
MCStrays == {<<0, 2>>}

\* A page of junk looks like a table that points to the table at page 0.
MCJunk == [k \in Index |-> TableEntry(0)]

\* The flags of readable and writable, and of executable memory.
MCFlags == {AllocFlags("rw")}
MCAllFlags == {AllocFlags(access) : access \in {"ro", "rw", "rx"}}

=============================================================================
