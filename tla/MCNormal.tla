------------------------------- MODULE MCNormal -------------------------------
(***************************************************************************)
(* Small instances of the relayer in normal mode for TLC.                  *)
(***************************************************************************)
EXTENDS NormalProps

OneChannel == <<1>>
TwoChannels == <<1, 2>>
Singles == {<<>>, <<1>>}
Doubles == {<<>>, <<1, 1>>}
Mixed == {<<>>, <<2, 1>>, <<1, 1>>}
===============================================================================
