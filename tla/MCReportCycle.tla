---------------------------- MODULE MCReportCycle ----------------------------
(***************************************************************************)
(* Instances of ReportCycle for TLC: three ways to write the routes.       *)
(***************************************************************************)
EXTENDS ReportCycle

CONSTANTS bot, ranker, draft

\* One stage for each bot, as in the example of the documentation.
MCSingle ==
    [ch \in Channel |-> IF ch = bot THEN <<"selection">> ELSE <<"second_stage">>]

\* The built-in draft channel of NotificationChannels.
MCList == [ch \in Channel |-> <<"second_stage", "wechat_premarket">>]

MCAny == SUBSET Channel
MCAll == {Channel}
=============================================================================
