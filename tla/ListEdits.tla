------------------------------ MODULE ListEdits -------------------------------
(***************************************************************************)
(* Python's list comprehensions that filter: the queues of ViewerDispatch  *)
(* and the frames of WaveCoordinator.  A recursive function, so that it    *)
(* can be reasoned about.                                                  *)
(***************************************************************************)
EXTENDS Naturals, Sequences

\* The list s without the elements of S.
Excluding(s, S) ==
    LET kept[n \in 0 .. Len(s)] ==
          IF n = 0 THEN <<>>
          ELSE IF s[n] \in S THEN kept[n-1] ELSE Append(kept[n-1], s[n])
    IN kept[Len(s)]
===============================================================================
