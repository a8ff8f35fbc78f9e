---------------------------- MODULE NfsCsvHistory ----------------------------
(***************************************************************************)
(* NfsCsv with a history variable: the set of every content the table has *)
(* held.  It adds no behaviour; it lets a property compare what the cache  *)
(* and the READ replies hold with all the tables there ever were.          *)
(***************************************************************************)
EXTENDS NfsCsv

VARIABLE tables   \* every set of rows the table has held so far

hvars == <<vars, tables>>

HInit == Init /\ tables = {db}

HNext == Next /\ tables' = tables \cup {db'}

HSpec == HInit /\ [][HNext]_hvars

\* The content cache may lag behind the table, but csv:data only ever holds
\* a CSV the table really held, and every READ, from the cache (lines
\* 257-264) or from view.read (lines 271-275), returns such rows: the cache
\* is filled only from get_full_content (line 279) and from generate_csv
\* run after apply_write (lines 369-376), even when requests race, inserts
\* and removes fail and the diff base of a WRITE is stale.
NoPhantomRows ==
    /\ csv_cache # Nil => csv_cache \in tables
    /\ \A t \in Tasks : reply[t] # Nil => reply[t].rows \in tables
=============================================================================
