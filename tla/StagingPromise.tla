--------------------------- MODULE StagingPromise ---------------------------
(***************************************************************************)
(* What the staging area of rudi-media promises, whatever the requests,    *)
(* the timers and the stops of the process do: a post that needs a commit  *)
(* is staged once, and from there it is either committed, once, or lost    *)
(* for good.  MediaStore implements it.                                    *)
(***************************************************************************)
CONSTANT Posts

VARIABLE phase

Phases == {"new", "staged", "committed", "expired"}

Init == phase = [p \in Posts |-> "new"]

Move(p, from, to) == phase[p] = from /\ phase' = [phase EXCEPT ![p] = to]

Stage(p)  == Move(p, "new", "staged")
Commit(p) == Move(p, "staged", "committed")
Expire(p) == Move(p, "staged", "expired")

\* The process stops: nothing that was staged can be committed any more.
ExpireAll ==
    phase' = [p \in Posts |-> IF phase[p] = "staged" THEN "expired" ELSE phase[p]]

Next == ExpireAll \/ \E p \in Posts : Stage(p) \/ Commit(p) \/ Expire(p)

Spec == Init /\ [][Next]_phase
=============================================================================
