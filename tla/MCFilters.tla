----------------------------- MODULE MCFilters -----------------------------
(* An instance of Filters.                                                  *)
EXTENDS Filters

FilterParameters == {-1, 1}
FilterHeaderFlags == {{}, {"name"}, {"extra", "name", "comment", "crc16"}}
=============================================================================
