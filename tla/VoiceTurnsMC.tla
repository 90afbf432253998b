---------------------------- MODULE VoiceTurnsMC ----------------------------
(***************************************************************************)
(* One host turn that waits for its system audio.  In one stream the       *)
(* system audio comes, with a segment of each source that belongs to no    *)
(* turn; in the other it never does and the host goes on twice.            *)
(***************************************************************************)
EXTENDS VoiceTurns

CONSTANTS m1, m2, m3, s1, s2, t1

MCStreams == {(Mic :> <<m1, m2>>) @@ (Sys :> <<s1, s2>>),
              (Mic :> <<m1, m2, m3>>) @@ (Sys :> <<>>)}
MCTurn == (m1 :> t1) @@ (m2 :> NoTurn) @@ (m3 :> NoTurn) @@ (s1 :> t1) @@ (s2 :> NoTurn)
MCRequired == {t1}
=============================================================================
