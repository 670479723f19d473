------------------------- MODULE MCNotifyScheduler -------------------------
(* Two owners and three kinds of notification (a coalescible nudge, its     *)
(* keyed form in the same lane, and a kind that never coalesces), so that a *)
(* lane mixes both sorts of callback and the lane table can fill up.        *)
EXTENDS NotifyScheduler

CONSTANTS w1, w2

MCChannels == {"updates", "updates|key", "encrypted-msg"}
MCOwners == {1, 2}
=============================================================================
