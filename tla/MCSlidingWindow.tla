-------------------------- MODULE MCSlidingWindow --------------------------
(* Small instances of SlidingWindow for TLC: one user, a window of one     *)
(* tick, and events that arrive out of order.                              *)
EXTENDS SlidingWindow, TLC

CONSTANTS u1, eOld, eMid, eNew, eEdge, eLate

OneUser == [e \in Events |-> u1]

(* eMid is in the window of eNew, eNew in that of eEdge, eOld in that of   *)
(* eMid but older than that of eNew.  eMid is stamped a tick after its     *)
(* arrival; eOld, eNew and eEdge arrive as late as allowed, eLate a tick   *)
(* later.                                                                  *)
Times == [e \in Events |->
             CASE e = eOld -> 0
               [] e = eMid -> 1
               [] e \in {eNew, eLate} -> 2
               [] e = eEdge -> 3]

Arrivals == [e \in Events |->
                CASE e = eMid -> 0
                  [] e = eOld -> 1
                  [] e = eNew -> 3
                  [] e \in {eEdge, eLate} -> 4]

ConsumerSymmetry == Permutations(Consumers)
=============================================================================
