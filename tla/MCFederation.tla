---------------------------- MODULE MCFederation ----------------------------
(* Values for the constants of Federation: an administrator and a member   *)
(* in the channel of one team (the member in a thread of it), a member of  *)
(* another team, and the first member in another guild.                    *)
EXTENDS Federation

CONSTANTS ana, bo, cy, acme, globex, sales, support, lobby, pricing

At(u, g, c) ==
  [user |-> u, guild |-> g, channel |-> c, thread |-> NONE, admin |-> FALSE]

AnaInSales == [At(ana, acme, sales) EXCEPT !.admin = TRUE]
BoInThread == [At(bo, acme, sales) EXCEPT !.thread = pricing]
CyInSupport == At(cy, acme, support)
BoInGlobex == At(bo, globex, lobby)

TwoTeams == {AnaInSales, BoInThread, CyInSupport}
TwoGuilds == {AnaInSales, BoInThread, CyInSupport, BoInGlobex}
OneTeam == {AnaInSales, BoInThread}
===============================================================================
