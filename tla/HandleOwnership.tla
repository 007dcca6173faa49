--------------------------- MODULE HandleOwnership ---------------------------
(***************************************************************************)
(* What haphe-wit promises about a resource that crosses between a host    *)
(* and a guest component, without a word on how: at any time one side owns *)
(* it; ownership moves only by passing it or returning it; the owner drops *)
(* it, once; and one whose handle the host has lost stays lost (it is      *)
(* never passed, dropped or found again before the store is torn down).    *)
(***************************************************************************)
CONSTANT Resources

VARIABLE owner  \* who owns each resource

Owner == {"none", "guest", "host", "lost"}

TypeOK == owner \in [Resources -> Owner]

Init == owner = [r \in Resources |-> "none"]

Move(r, from, to) == owner[r] = from /\ owner'[r] = to

Create(r) == Move(r, "none", "guest") \/ Move(r, "none", "host")
Transfer(r) == Move(r, "host", "guest")
Return(r) == Move(r, "guest", "host")
Drop(r) == Move(r, "host", "none") \/ Move(r, "guest", "none")
Lose(r) == Move(r, "host", "lost")
Keep(r) == owner'[r] = owner[r]

\* One step of a caller may settle several handles at once (the arguments of
\* a call, the drop queue of a caller that goes away).
Next ==
  /\ owner' \in [Resources -> Owner]
  /\ \A r \in Resources :
       Create(r) \/ Transfer(r) \/ Return(r) \/ Drop(r) \/ Lose(r) \/ Keep(r)

Spec == Init /\ [][Next]_owner
=============================================================================
