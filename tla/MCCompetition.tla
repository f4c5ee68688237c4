---------------------------- MODULE MCCompetition ----------------------------
(***************************************************************************)
(* Small instances of the relayer in competition mode for TLC.             *)
(***************************************************************************)
EXTENDS CompetitionProps

\* One channel.
OneChannel == <<1>>
Singles == {<<>>, <<1>>}
Doubles == {<<>>, <<1, 1>>}

\* Two channels, in either order of the list, with mixed blocks.
TwoChannels == <<1, 2>>
Mixed == {<<>>, <<2, 1>>, <<1, 1>>}
===============================================================================
