----------------------------- MODULE MCGallery -----------------------------
(* Small instances of Gallery for TLC. *)
EXTENDS Gallery, TLC

CONSTANTS v1, v2

TwoSaves == {v1, v2}

SelectAndDelete == {"select", "delete"}
DeleteAndPreset == {"delete", "preset"}
SelectAndStray == {"select", "favorite", "bodyless"}
DeleteCommitAndPreset == {"delete", "commit", "preset"}

(* The same reduction where liveness is checked, for saves one at a time:   *)
(* v1 is the one that is posted first.  Nothing makes a browser post.       *)
PostsInOrder ==
  h.pc = "idle" /\ h'.pc = "scan" /\ h'.save = v2 => step[v1] # "dash"

Interchangeable == Permutations(Saves)
=============================================================================
