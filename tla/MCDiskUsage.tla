----------------------------- MODULE MCDiskUsage -----------------------------
(***************************************************************************)
(* DiskUsage for TLC: a directory that exceeds the limit and one that does *)
(* not.  One request after the other: two that overlap share nothing but   *)
(* the cache, and no walk reads it.                                        *)
(***************************************************************************)
EXTENDS DiskUsage, TLC

CONSTANTS big, small

Dir(below) == [kind |-> "dir", below |-> below]
Plain(kind) == [kind |-> kind, below |-> <<>>]

SmallTree ==
    big :> <<Dir(<<"mount", "file">>), Plain("mount"),
             Dir(<<"file", "file">>)>>
    @@ small :> <<Plain("link"), Plain("file"), Dir(<<"file", "file">>)>>
=============================================================================
