---------------------------- MODULE MCSourceScan ----------------------------
(* One process with both of its scanners; the second list loses the file   *)
(* of the first and has another directory with two files; the first holds  *)
(* a line that the filter rejects and a particular file.                   *)
EXTENDS SourceScan, TLC

CONSTANTS p1, t1, r1

MCProcessOf == t1 :> p1 @@ r1 :> p1

At(path, mod) == [path |-> path, mod |-> mod]

First == <<At(<<"v1", "ISO", "arm">>, 5),
           At(<<"v1", "ISO", "arm", "a.iso">>, 2),
           At(<<"v1", "doc", "guide">>, 1)>>

Second == <<At(<<"v1", "img", "arm">>, 5),
            At(<<"v1", "img", "arm", "a">>, 2),
            At(<<"v1", "img", "arm", "b">>, 4)>>

MCSourcePath == {<<"doc", "gui">>}
MCBeginnings == {<<"guide", "gui">>}

MCLists == <<First, Second>>
=============================================================================
