--------------------------- MODULE MCTestforgeApp ---------------------------
EXTENDS TestforgeApp

Param(type, default, choices) == [type |-> type, default |-> default, choices |-> choices]

MCCategories == <<"Memory", "Disk">>
MCActions ==
    <<[category |-> "Memory", kind |-> "leak", params |-> <<Param("rate", 3, <<>>), Param("mem", 2, <<>>)>>],
      [category |-> "Disk", kind |-> "other", params |-> <<Param("choice", "zero", <<"zero", "random">>)>>],
      [category |-> "Memory", kind |-> "oom", params |-> <<Param("mem", 3, <<>>)>>]>>

\* The search finds the last action and the summary of Disk.
MCNameHits == [none |-> {"Memory", "Disk"}, last |-> {}]
MCCategoryHits == [none |-> {"Memory", "Disk"}, last |-> {"Disk"}]
MCActionHits == [none |-> {1, 2, 3}, last |-> {3}]
=============================================================================
