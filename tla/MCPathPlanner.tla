---------------------------- MODULE MCPathPlanner ----------------------------
(* A finite instance of PathPlanner: places on a line, the one at 12 in    *)
(* collision.  Ways between neighbours within eps are free but for the one *)
(* from 7 to 3, where an obstacle is met by its second sample; the longer  *)
(* way from 7 to 0 has its samples beside it.                              *)
EXTENDS PathPlanner, TLC

Places == {0, 3, 7, 12}
FreePlaces == Places \ {12}

Gap(a, b) == IF a <= b THEN b - a ELSE a - b

SomeDist == [e \in Places \X Places |-> Gap(e[1], e[2])]

Between(a, b) == {c \in Places : Gap(a, b) = Gap(a, c) + Gap(c, b)}

\* The next place towards the target; from 0 towards 7, one beyond it.
SomeToward ==
  [e \in Places \X Places |->
     IF e = <<0, 7>> THEN 12
     ELSE IF e[1] = e[2] THEN e[1]
     ELSE CHOOSE c \in Between(e[1], e[2]) \ {e[1]} :
            \A d \in Between(e[1], e[2]) \ {e[1]} : Gap(e[1], c) <= Gap(e[1], d)]

SomeInside == [e \in Places \X Places |-> Between(e[1], e[2])]

\* The samples in collision: the ends at 12 and, of the longer ways but one, the second.
SomeColliding ==
  [e \in Places \X Places |->
     (IF e[1] = 12 THEN {0} ELSE {})
       \cup (IF e[2] = 12 THEN {SomeDist[e] + 1} ELSE {})
       \cup (IF e = <<7, 3>> \/ (SomeDist[e] > 6 /\ e # <<7, 0>>) THEN {1} ELSE {})]
=============================================================================
