------------------------------ MODULE PajeLinks ------------------------------
(***************************************************************************)
(* What a converter promises about the links of a Paje trace: "Paje        *)
(* requires a unique key for every pair of StartLink/EndLink"              *)
(* (src/src/otf2/DevLog.org:165).  A link starts with a key never used     *)
(* before, and ends once, after its start.                                 *)
(***************************************************************************)
EXTENDS Naturals

VARIABLES
  used,    \* the keys of the links that were started
  open,    \* those that have not ended
  lines    \* how many lines about links were printed

linkVars == <<used, open, lines>>

LinksInit == used = {} /\ open = {} /\ lines = 0

Start ==
  /\ \E key \in used' \ used : used' = used \cup {key} /\ open' = open \cup {key}
  /\ lines' = lines + 1

End ==
  /\ \E key \in open : open' = open \ {key}
  /\ lines' = lines + 1
  /\ UNCHANGED used

LinksSpec == LinksInit /\ [][Start \/ End]_linkVars
=============================================================================
