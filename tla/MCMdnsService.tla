---- MODULE MCMdnsService ----
EXTENDS MdnsService
CONSTANTS n1, n2, i1, i2, u1, u2, u3, k1, k2, v1, v2
\* A name that is mangled to itself stands for a mangle_name that finds no memory.
MCMangledNames == (n1 :> n2) @@ (n2 :> n2) @@ (i1 :> i1)
MCMangledRecords == (n1 :> n1) @@ (i1 :> i2) @@ (i2 :> i2)
MCNoTxt == {<<>>}
MCNoSubtypes == {}
Item(k, v) == [key |-> k, val |-> v]
MCTxtLists == {<<>>, <<Item(k1, v1)>>, <<Item(k1, v2), Item(k2, v1)>>}
\* Three subtypes, so that two can be added where there is one already.
MCSubtypeLists == {<<>>, <<u1>>, <<u2, u3>>}
\* No step reads what the last one reported, and the properties of the records
\* run read it only of the step that they look at: states that differ in last
\* alone need not be told apart.
MCView == <<hosts, services, task, lock>>
====
